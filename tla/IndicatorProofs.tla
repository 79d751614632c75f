---------------------------- MODULE IndicatorProofs ----------------------------
(***************************************************************************)
(* Proofs about Indicator, for every tick, word size and order of calls.   *)
(* Each rests on how long ago the LED task has looked: an indication or a  *)
(* publication that has not been rendered yet is younger than what the     *)
(* task still sleeps.                                                      *)
(***************************************************************************)
EXTENDS Indicator, TLAPS

LEMMA Parameters ==
  /\ TickMs \in Nat \ {0} /\ CycleGap \in Nat \ {0} /\ Word \in Nat \ {0}
  /\ ElapsedMod \in Nat \ {0} /\ MaxPreempt \in Nat \ {0} /\ MaxTime \in Nat \ {0}
  /\ MaxLate \in Nat
  BY IndicatorAssumption DEF IndicatorAssumption

LEMMA Division ==
  \A n \in Nat, d \in Nat \ {0} : n \div d \in Nat /\ n % d \in 0..d - 1
  OBVIOUS

LEMMA Remainder == \A n \in Nat, d \in Nat \ {0} : n % d = n - d * (n \div d)
  BY SMTT(60)

\* A time that is stored in two words and read whole is the time stored.
LEMMA WholeRead == \A t \in Nat : Read(Words(t)) = t /\ Words(t) \in [hi : Nat, lo : 0..Word - 1]
<1> SUFFICES ASSUME NEW t \in Nat
             PROVE  Read(Words(t)) = t /\ Words(t) \in [hi : Nat, lo : 0..Word - 1]
  OBVIOUS
<1>1. t \div Word \in Nat /\ t % Word \in 0..Word - 1
  BY Parameters, Division
<1>2. PICK q \in Nat, r \in Nat : q = t \div Word /\ r = t % Word
  BY <1>1
<1>3. r = t - Word * (t \div Word)
  BY <1>2, Parameters, Remainder
<1>4. r = t - Word * q
  BY <1>2, <1>3
<1>5. q * Word + r = t
  BY <1>4, Parameters
<1>6. Words(t) = [hi |-> q, lo |-> r]
  BY <1>2 DEF Words
<1>7. Read([hi |-> q, lo |-> r]) = q * Word + r
  BY DEF Read
<1>8. Read(Words(t)) = t
  BY <1>5, <1>6, <1>7
<1>9. Words(t) \in [hi : Nat, lo : 0..Word - 1]
  BY <1>1 DEF Words
<1>10. QED
  BY <1>8, <1>9

LEMMA Periods ==
  /\ Sample \in Nat /\ Pulse \in Nat /\ Pass \in Nat /\ Sample + MaxLate = Pass
  /\ AgeCap \in Nat /\ Pulse + Pass < AgeCap
  /\ Ticks(BOOT_STEP_MS) \in Nat /\ Ticks(BOOT_STEP_MS) + MaxLate \in Nat
<1>1. \A ms \in Nat : Ticks(ms) \in Nat
  BY Parameters, Division DEF Ticks
<1>2. Ticks(25) \in Nat /\ Ticks(100) \in Nat /\ Ticks(200) \in Nat /\ Ticks(500) \in Nat
  BY <1>1
<1>3. QED
  BY <1>2, Parameters DEF Sample, Pulse, Pass, AgeCap, TICK_MS, BOOT_STEP_MS, PUBLISH_PULSE_MS

\* A pass is no longer than a boot colour.
LEMMA PassShort == Sample <= Ticks(BOOT_STEP_MS)
<1>1. \A d, q, r, p, t \in Nat : d > 0 /\ d * q <= 25 /\ 500 = d * p + t /\ t < d => q <= p
  OBVIOUS
<1>2. PICK q \in Nat, r \in Nat : q = 25 \div TickMs /\ r = 25 % TickMs /\ r = 25 - TickMs * q
  BY Parameters, Division, Remainder
<1>3. PICK p \in Nat, t \in Nat : /\ p = 500 \div TickMs /\ t = 500 % TickMs /\ t < TickMs
                                  /\ t = 500 - TickMs * p
  BY Parameters, Division, Remainder
<1>4. TickMs * q <= 25
  BY <1>2, Parameters
<1>5. 500 = TickMs * p + t
  BY <1>3, Parameters
<1>6. q <= p
  BY <1>1, <1>3, <1>4, <1>5, Parameters
<1>7. QED
  BY <1>2, <1>3, <1>6 DEF Sample, Ticks, TICK_MS, BOOT_STEP_MS

\* What the table of FSD 11.3 says of an update and of an operating device.
LEMMA Patterns ==
  /\ current \in Indications => Rendered \in SUBSET Colours
  /\ current = "Updating" => Rendered # {}
  /\ current = "Operational" => (Rendered = {} \/ now < Read(pulse_until))
  /\ now < Read(pulse_until) => Rendered = {"green"}
<1>1. now < Read(pulse_until) => Rendered = {"green"}
  BY DEF Rendered
<1>2. ~(now < Read(pulse_until)) =>
         Rendered = pattern_for(current).a \/ Rendered = pattern_for(current).b
  BY DEF Rendered
<1>3. current = "Updating" => pattern_for(current).a = {"blue"} /\ pattern_for(current).b = {"green"}
  BY DEF pattern_for, Pattern
<1>4. current = "Operational" => pattern_for(current).a = {} /\ pattern_for(current).b = {}
  BY DEF pattern_for, Pattern
<1>5. current \in Indications =>
         pattern_for(current).a \in SUBSET Colours /\ pattern_for(current).b \in SUBSET Colours
  BY DEF pattern_for, Pattern, Indications, Colours
<1>6. {"green"} \in SUBSET Colours /\ {"green"} # {} /\ {"blue"} # {}
  BY DEF Colours
<1>7. QED
  BY <1>1, <1>2, <1>3, <1>4, <1>5, <1>6, Zenon

-----------------------------------------------------------------------------
(* Type correctness.                                                        *)

TypeInv == TypeOK /\ pulse_until \in [hi : Nat, lo : 0..Word - 1]

\* The parts of TypeOK that no call touches, and those the LED task leaves alone.
LedTypes ==
    /\ step \in 0..4 /\ light \in SUBSET Colours
    /\ elapsed \in 0..ElapsedMod - 1 /\ wake \in 0..Ticks(BOOT_STEP_MS) + MaxLate
    /\ now \in 0..MaxTime

CallTypes ==
    /\ stage \in {"boot", "joining", "portal", "running", "retrying"}
    /\ updating \in BOOLEAN /\ current \in Indications
    /\ pulse_until \in [hi : Nat, lo : 0..Word - 1]
    /\ storing \in Nat \cup {None}

AgeTypes ==
    since \in 0..AgeCap /\ published \in 0..AgeCap /\ seen \in BOOLEAN /\ steady \in 0..9

LEMMA Parts == TypeInv <=> LedTypes /\ CallTypes /\ AgeTypes
<1>1. pulse_until \in [hi : Nat, lo : 0..Word - 1] => pulse_until.hi \in Nat /\ pulse_until.lo \in 0..Word - 1
  OBVIOUS
<1>2. {since, published} \subseteq 0..AgeCap <=> since \in 0..AgeCap /\ published \in 0..AgeCap
  BY Zenon
<1>3. QED
  BY <1>1, <1>2, Zenon DEF TypeInv, TypeOK, LedTypes, CallTypes, AgeTypes
LEMMA Zeros ==
  /\ 0 \in 0..Ticks(BOOT_STEP_MS) + MaxLate /\ 0 \in 0..9 /\ 0 \in 0..ElapsedMod - 1 /\ 0 \in 0..MaxTime
  /\ 0 \in 0..AgeCap /\ AgeCap \in 0..AgeCap /\ 0 \in 0..4
  /\ Words(0) \in [hi : Nat, lo : 0..Word - 1] /\ Read(Words(0)) = 0
  BY Parameters, Periods, WholeRead

LEMMA Ageing == \A a \in 0..AgeCap : Older(a) \in 0..AgeCap
  BY Periods DEF Older

\* A start, the first one or a later one.
LEMMA StartTypes ==
  /\ Init => TypeInv
  /\ Restart => TypeInv'
<1>1. /\ "boot" \in {"boot", "joining", "portal", "running", "retrying"}
      /\ "Boot" \in Indications /\ {} \in SUBSET Colours
      /\ FALSE \in BOOLEAN /\ TRUE \in BOOLEAN /\ None \in Nat \cup {None}
  BY DEF Indications
<1>2. ASSUME Init PROVE LedTypes /\ CallTypes /\ AgeTypes
  BY <1>1, <1>2, Zeros, Zenon DEF Init, PoweredOn, LedTypes, CallTypes, AgeTypes
<1>3. ASSUME Restart PROVE LedTypes' /\ CallTypes' /\ AgeTypes'
  BY <1>1, <1>3, Zeros, Zenon DEF Restart, PoweredOn, LedTypes, CallTypes, AgeTypes
<1>4. QED
  BY <1>2, <1>3, Parts, PTL

\* The callers of the indicator.
LEMMA CallsKeepTypes ==
  ASSUME TypeInv,
         \/ ShowConnecting \/ EnterPortal \/ Joined \/ WifiLost \/ WifiBack
         \/ UpdateBegins \/ UpdateFails \/ PublishBegins \/ PublishEnds
  PROVE  TypeInv'
<1> USE DEF LedTypes, CallTypes, AgeTypes
<1>1. LedTypes /\ CallTypes /\ AgeTypes
  BY Parts
<1>2. LedTypes'
  BY <1>1 DEF ShowConnecting, EnterPortal, Joined, WifiLost, WifiBack, UpdateBegins, UpdateFails,
              PublishBegins, PublishEnds, Calls, led
<1>3. CASE ShowConnecting \/ EnterPortal \/ Joined \/ WifiLost \/ WifiBack \/ UpdateBegins \/ UpdateFails
  <2>1. /\ stage' \in {"boot", "joining", "portal", "running", "retrying"}
        /\ updating' \in BOOLEAN /\ current' \in Indications /\ since' \in {since, 0}
    BY <1>1, <1>3 DEF ShowConnecting, EnterPortal, Joined, WifiLost, WifiBack, UpdateBegins,
                      UpdateFails, indicate, Indications
  <2>2. UNCHANGED <<pulse_until, storing, published, seen, steady>>
    BY <1>3 DEF ShowConnecting, EnterPortal, Joined, WifiLost, WifiBack, UpdateBegins,
                UpdateFails, Calls
  <2>3. CallTypes' /\ AgeTypes'
    BY <1>1, <2>1, <2>2, Zeros
  <2>4. QED
    BY <1>2, <2>3, Parts, PTL
<1>4. CASE PublishBegins
  <2>1. now + Pulse \in Nat
    BY <1>1, Periods, Parameters
  <2>2. Words(now + Pulse) \in [hi : Nat, lo : 0..Word - 1]
    BY <2>1, WholeRead
  <2>3. pulse_until' \in [hi : Nat, lo : 0..Word - 1] /\ storing' \in Nat \cup {None}
    BY <1>1, <1>4, <2>1, <2>2 DEF PublishBegins, PulseEnd
  <2>4. CallTypes' /\ AgeTypes'
    BY <1>1, <1>4, <2>3 DEF PublishBegins, ages
  <2>5. QED
    BY <1>2, <2>4, Parts, PTL
<1>5. CASE PublishEnds
  <2>1. pulse_until' \in [hi : Nat, lo : 0..Word - 1]
    BY <1>1, <1>5, WholeRead DEF PublishEnds
  <2>2. CallTypes' /\ AgeTypes'
    BY <1>1, <1>5, <2>1, Zeros DEF PublishEnds
  <2>3. QED
    BY <1>2, <2>2, Parts, PTL
<1>6. QED
  BY <1>3, <1>4, <1>5

\* The LED task and the time it sleeps.
LEMMA LedKeepsTypes ==
  ASSUME TypeInv, BootColour \/ Render \/ Tick
  PROVE  TypeInv'
<1> USE DEF LedTypes, CallTypes, AgeTypes
<1>1. LedTypes /\ CallTypes /\ AgeTypes
  BY Parts
<1>2. CallTypes'
  BY <1>1 DEF BootColour, Render, Tick, calls
<1>3. CASE BootColour
  <2>1. step' \in 0..4 /\ wake' \in 0..Ticks(BOOT_STEP_MS) + MaxLate /\ elapsed' = elapsed /\ now' = now
    BY <1>1, <1>3, Periods, Parameters DEF BootColour, Sleep
  <2>2. light' \in SUBSET Colours
    <3>1. step \in 0..2
      BY <1>1, <1>3 DEF BootColour
    <3>2. <<"red", "green", "blue">>[step + 1] \in Colours
      BY <3>1 DEF Colours
    <3>3. QED
      BY <1>3, <3>2 DEF BootColour
  <2>3. LedTypes' /\ AgeTypes'
    BY <1>1, <1>3, <2>1, <2>2, Zeros DEF BootColour, ages
  <2>4. QED
    BY <1>2, <2>3, Parts, PTL
<1>4. CASE Render
  <2>1. step' \in 0..4 /\ now' = now
    BY <1>4 DEF Render
  <2>2. wake' \in 0..Ticks(BOOT_STEP_MS) + MaxLate
    BY <1>4, Periods, Parameters, PassShort DEF Render, Sleep
  <2>3. elapsed' \in 0..ElapsedMod - 1
    <3>1. elapsed + TICK_MS \in Nat
      BY <1>1, Parameters DEF TICK_MS
    <3>2. QED
      BY <1>4, <3>1, Parameters, Division DEF Render
  <2>4. light' \in SUBSET Colours
    BY <1>1, <1>4, Patterns DEF Render
  <2>5. seen' \in BOOLEAN
    BY <1>4, Zenon DEF Render
  <2>6. steady' \in 0..9
    BY <1>1, <1>4 DEF Render, CountSteady
  <2>7. LedTypes' /\ AgeTypes'
    BY <1>1, <1>4, <2>1, <2>2, <2>3, <2>4, <2>5, <2>6, Zeros DEF Render
  <2>8. QED
    BY <1>2, <2>7, Parts, PTL
<1>5. CASE Tick
  <2>1. now' \in 0..MaxTime
    BY <1>1, <1>5, Parameters DEF Tick
  <2>2. wake' \in 0..Ticks(BOOT_STEP_MS) + MaxLate
    BY <1>1, <1>5, Periods DEF Tick
  <2>3. LedTypes'
    BY <1>1, <1>5, <2>1, <2>2 DEF Tick
  <2>4. AgeTypes'
    BY <1>1, <1>5, Ageing DEF Tick
  <2>5. QED
    BY <1>2, <2>3, <2>4, Parts, PTL
<1>6. QED
  BY <1>3, <1>4, <1>5

LEMMA TypeStep == TypeInv /\ [Next]_vars => TypeInv'
<1> SUFFICES ASSUME TypeInv, [Next]_vars
             PROVE  TypeInv'
  OBVIOUS
<1>1. CASE UNCHANGED vars
  BY <1>1 DEF TypeInv, TypeOK, vars, calls, led, ages
<1>2. QED
  BY <1>1, StartTypes, CallsKeepTypes, LedKeepsTypes DEF Next

\* The callers, the LED task and the two words of the pulse's end stay within
\* their types, for every tick rate and word size.
THEOREM TypeCorrect == Spec => []TypeOK
<1>1. Spec => []TypeInv
  BY StartTypes, TypeStep, PTL DEF Spec
<1>2. TypeInv => TypeOK
  BY DEF TypeInv
<1>3. QED
  BY <1>1, <1>2, PTL
-----------------------------------------------------------------------------
(* Updates.                                                                 *)

\* While the boot colours last the task sleeps through them, or is held up;
\* afterwards that never takes longer than a pass.
BootStep == Ticks(BOOT_STEP_MS) + MaxLate

Awake ==
    /\ step = 4 => wake <= Pass
    /\ step = 0 => now + wake <= 0
    /\ step = 1 => now + wake <= BootStep
    /\ step = 2 => now + wake <= 2 * BootStep
    /\ step = 3 => now + wake <= 3 * BootStep

LEMMA AwakeHolds ==
  /\ Init => Awake
  /\ TypeInv /\ Awake /\ [Next]_vars => Awake'
<1>1. Init => Awake
  BY Periods DEF Init, PoweredOn, Awake
<1>2. ASSUME TypeInv, Awake, [Next]_vars
      PROVE  Awake'
  <2>1. step \in 0..4 /\ now \in Nat /\ wake \in Nat
    BY <1>2, Parameters, Periods DEF TypeInv, TypeOK
  <2>2. CASE Restart
    BY <2>2, Periods DEF Restart, PoweredOn, Awake
  <2>3. CASE UNCHANGED led /\ UNCHANGED now
    BY <1>2, <2>3 DEF led, Awake
  <2>4. CASE BootColour
    <3> DEFINE T == BootStep
    <3>1. /\ T \in Nat /\ wake = 0 /\ wake' \in Nat /\ wake' <= T /\ now' = now
          /\ step' = step + 1 /\ step \in {0, 1, 2}
      BY <2>1, <2>4, Periods, Parameters DEF BootColour, Sleep, BootStep
    <3> HIDE DEF T
    <3>2. /\ step = 0 => now <= 0
          /\ step = 1 => now <= T
          /\ step = 2 => now <= 2 * T
      BY <1>2, <2>1, <3>1 DEF Awake, T
    <3>3. /\ step' = 1 => now' + wake' <= T
          /\ step' = 2 => now' + wake' <= 2 * T
          /\ step' = 3 => now' + wake' <= 3 * T
      <4>1. /\ step = 0 => now + T <= T
            /\ step = 1 => now + T <= 2 * T
            /\ step = 2 => now + T <= 3 * T
        BY <2>1, <3>1, <3>2
      <4>2. now' + wake' <= now + T
        <5>1. \A a, b, c \in Nat : a <= b => c + a <= c + b
          OBVIOUS
        <5>2. now + wake' <= now + T
          BY <2>1, <3>1, <5>1, Zenon
        <5>3. QED
          BY <3>1, <5>2, Zenon
      <4>3. /\ step' = 1 => step = 0
            /\ step' = 2 => step = 1
            /\ step' = 3 => step = 2
        BY <3>1
      <4>4. \A a, b, c \in Nat : a <= b /\ b <= c => a <= c
        OBVIOUS
      <4>5. now' + wake' \in Nat /\ now + T \in Nat /\ 2 * T \in Nat /\ 3 * T \in Nat
        <5>1. \A a, b \in Nat : a + b \in Nat /\ 2 * a \in Nat /\ 3 * a \in Nat
          OBVIOUS
        <5>2. now' \in Nat
          BY <2>1, <3>1, Zenon
        <5>3. QED
          BY <2>1, <3>1, <5>1, <5>2, Zenon
      <4>6. QED
        BY <3>1, <4>1, <4>2, <4>3, <4>4, <4>5, Zenon
    <3>4. step' # 0 /\ step' # 4
      BY <3>1
    <3>5. QED
      BY <3>3, <3>4, Zenon DEF Awake, T
  <2>5. CASE Render
    BY <2>5, Periods, Parameters DEF Render, Sleep, Awake
  <2>6. CASE Tick
    <3>1. now + 1 + (wake - 1) = now + wake /\ wake - 1 <= wake
      BY <2>1
    <3>2. now' + wake' = now + wake
      BY <2>1, <2>6, <3>1, Zenon DEF Tick
    <3>3. wake' <= Pass \/ step' # 4
      BY <1>2, <2>1, <2>6, Periods DEF Tick, Awake
    <3>4. QED
      BY <1>2, <2>6, <3>2, <3>3, Zenon DEF Tick, Awake, led
  <2>7. QED
    BY <1>2, <2>2, <2>3, <2>4, <2>5, <2>6
       DEF Next, ShowConnecting, EnterPortal, Joined, WifiLost, WifiBack, UpdateBegins, UpdateFails,
           PublishBegins, PublishEnds, Calls, vars
<1>3. QED
  BY <1>1, <1>2

\* An update's pattern has been rendered, or the task will look before the
\* indication is a pass old.
LitInv == step = 4 /\ current = "Updating" => light # {} \/ since + wake <= Pass

\* What indicate does to the age of the indication.
LEMMA Indicated ==
  ASSUME NEW i, indicate(i) PROVE current' = i /\ (since' = 0 \/ (since' = since /\ current' = current))
  BY DEF indicate

LEMMA TimePasses ==
  ASSUME TypeInv, Tick
  PROVE  /\ since' + wake' <= since + wake /\ published' + wake' <= published + wake
         /\ published' <= published + 1
         /\ published < AgeCap => published' = published + 1 /\ published' + wake' = published + wake
         /\ now' = now + 1
<1> DEFINE d == wake - 1
<1>1. /\ since \in Nat /\ published \in Nat /\ wake \in Nat /\ wake > 0 /\ AgeCap \in Nat
      /\ now \in Nat
  BY Parameters, Periods, Parts DEF Tick, LedTypes, AgeTypes
<1>2. wake' = d /\ since' = Older(since) /\ published' = Older(published) /\ now' = now + 1
  BY DEF Tick
<1>3. /\ Older(since) + d <= since + wake
      /\ Older(published) + d <= published + wake
      /\ Older(published) <= published + 1
      /\ published < AgeCap => /\ Older(published) = published + 1
                               /\ Older(published) + d = published + wake
  BY <1>1 DEF Older
<1> HIDE DEF d
<1>4. QED
  BY <1>2, <1>3, Zenon

\* Once the update pattern is a pass old, however long that pass, the light is never off until the update
\* has ended (FR-LED-04), for every tick rate and word size, whatever
\* publications and lost connections come in between.
THEOREM NeverDark == Spec => []NeverOffUpdating
<1>1. Init => LitInv
  BY DEF Init, PoweredOn, LitInv
<1>2. TypeInv /\ Awake /\ LitInv /\ [Next]_vars => LitInv'
  <2> SUFFICES ASSUME TypeInv, Awake, LitInv, [Next]_vars
               PROVE  LitInv'
    OBVIOUS
  <2>1. since \in Nat /\ wake \in Nat /\ Pass \in Nat
    BY Periods, Parts DEF LedTypes, AgeTypes
  <2>2. CASE \/ ShowConnecting \/ EnterPortal \/ Joined \/ UpdateBegins \/ UpdateFails
    <3>1. PICK i : indicate(i) /\ UNCHANGED led
      BY <2>2 DEF ShowConnecting, EnterPortal, Joined, UpdateBegins, UpdateFails, Calls
    <3>2. since' = 0 \/ (since' = since /\ current' = current)
      BY <3>1, Indicated
    <3>3. step = 4 => 0 + wake <= Pass
      BY <2>1 DEF Awake
    <3>4. step' = step /\ wake' = wake /\ light' = light
      BY <3>1 DEF led
    <3>5. QED
      BY <3>2, <3>3, <3>4, Zenon DEF LitInv
  <2>3. CASE Restart \/ BootColour
    <3>1. step \in 0..4
      BY Parts DEF LedTypes
    <3>2. step' # 4
      BY <2>3, <3>1 DEF Restart, PoweredOn, BootColour
    <3>3. QED
      BY <3>2 DEF LitInv
  <2>4. CASE Render
    <3>1. light' = Rendered /\ current' = current
      BY <2>4 DEF Render, calls
    <3>2. QED
      BY <3>1, Patterns DEF LitInv
  <2>5. CASE Tick
    <3>1. UNCHANGED <<step, current, light>>
      BY <2>5 DEF Tick, calls
    <3>2. since' + wake' <= since + wake
      BY <2>5, TimePasses
    <3>3. since' \in Nat /\ wake' \in Nat
      BY <2>1, <2>5, Periods DEF Tick, Older
    <3>4. since + wake <= Pass => since' + wake' <= Pass
      <4>1. \A a, b, c \in Nat : a <= b /\ b <= c => a <= c
        OBVIOUS
      <4>2. since + wake \in Nat
        BY <2>1
      <4>3. \A a, b \in Nat : a + b \in Nat
        OBVIOUS
      <4>4. QED
        BY <2>1, <3>2, <3>3, <4>1, <4>2, <4>3, Zenon
    <3>5. QED
      BY <3>1, <3>4, Zenon DEF LitInv
  <2>6. CASE WifiLost \/ WifiBack \/ PublishBegins \/ PublishEnds \/ UNCHANGED vars
    BY <2>6 DEF WifiLost, WifiBack, PublishBegins, PublishEnds, Calls, vars, calls, led, ages, LitInv
  <2>7. QED
    BY <2>2, <2>3, <2>4, <2>5, <2>6 DEF Next
<1>3. TypeInv /\ LitInv => NeverOffUpdating
  <2>1. TypeInv => since \in Nat /\ wake \in Nat /\ Pass \in Nat
    BY Periods, Parts DEF LedTypes, AgeTypes
  <2>2. QED
    BY <2>1 DEF LitInv, NeverOffUpdating, Settled
<1>4. QED
  BY <1>1, <1>2, <1>3, StartTypes, TypeStep, AwakeHolds, PTL DEF Spec

-----------------------------------------------------------------------------
(* Publications.                                                            *)

\* A pulse is being stored for less than MaxPreempt ticks, by a device whose
\* boot colours are over.
StoringInv ==
    storing # None =>
        /\ step = 4
        /\ storing <= now + Pulse
        /\ now + Pulse <= storing + MaxPreempt

\* A publication that has not turned the light green is younger than the time
\* until the task looks, and its pulse is not over.
UnseenInv ==
    storing = None /\ ~seen =>
        /\ step = 4
        /\ published + wake <= Pass
        /\ now + Pulse <= Read(pulse_until) + published + MaxPreempt

LEMMA BootIsOver ==
  ASSUME 3 * (Ticks(BOOT_STEP_MS) + MaxLate) < CycleGap, TypeInv, Awake, now >= CycleGap
  PROVE  step = 4
<1> DEFINE T == BootStep
<1>1. T \in Nat /\ now \in Nat /\ wake \in Nat /\ step \in 0..4 /\ CycleGap \in Nat
  BY Parameters, Periods, Parts DEF LedTypes, BootStep
<1>2. /\ step = 0 => now + wake <= 0
      /\ step = 1 => now + wake <= T
      /\ step = 2 => now + wake <= 2 * T
      /\ step = 3 => now + wake <= 3 * T
  BY DEF Awake
<1> HIDE DEF T
<1>3. 3 * T < CycleGap
  BY DEF T, BootStep
<1>4. QED
  BY <1>1, <1>2, <1>3

\* The callers that have nothing to do with publications.
Bystander ==
    \/ ShowConnecting \/ EnterPortal \/ Joined \/ WifiLost \/ WifiBack
    \/ UpdateBegins \/ UpdateFails \/ UNCHANGED vars

LEMMA Bystanders ==
  Bystander => UNCHANGED <<pulse_until, storing, step, light, wake, now, published, seen>>
  BY DEF Bystander, ShowConnecting, EnterPortal, Joined, WifiLost, WifiBack, UpdateBegins,
         UpdateFails, Calls, led, vars, calls, ages

LEMMA StoringHolds ==
  ASSUME 3 * (Ticks(BOOT_STEP_MS) + MaxLate) < CycleGap
  PROVE  /\ Init => StoringInv
         /\ TypeInv /\ Awake /\ StoringInv /\ [Next]_vars => StoringInv'
<1>1. Init => StoringInv
  BY DEF Init, PoweredOn, StoringInv
<1>2. ASSUME TypeInv, Awake, StoringInv, [Next]_vars
      PROVE  StoringInv'
  <2>1. /\ storing # None => storing \in Nat
        /\ now \in Nat /\ Pulse \in Nat /\ MaxPreempt \in Nat /\ step \in 0..4
    BY <1>2, Parameters, Periods, Parts DEF LedTypes, CallTypes
  <2>2. CASE Bystander
    BY <1>2, <2>2, Bystanders DEF StoringInv
  <2>3. CASE Restart \/ PublishEnds
    BY <2>3 DEF Restart, PoweredOn, PublishEnds, StoringInv
  <2>4. CASE PublishBegins
    <3>1. step' = 4
      BY <1>2, <2>4, BootIsOver DEF PublishBegins, led
    <3>2. storing' = now + Pulse /\ now' = now
      BY <2>4 DEF PublishBegins, PulseEnd
    <3>3. now + Pulse <= now + Pulse /\ now + Pulse <= (now + Pulse) + MaxPreempt
      BY <2>1
    <3>4. QED
      BY <3>1, <3>2, <3>3, Zenon DEF StoringInv
  <2>5. CASE BootColour \/ Render
    <3>1. /\ UNCHANGED <<storing, now>>
          /\ step = 4 => step' = 4
      BY <2>1, <2>5 DEF BootColour, Render, calls
    <3>2. QED
      BY <1>2, <3>1, Zenon DEF StoringInv
  <2>6. CASE Tick
    <3>1. UNCHANGED <<storing, step>> /\ now' = now + 1
      BY <2>6 DEF Tick, calls
    <3>2. CASE storing # None
      <4>1. now - (storing - Pulse) < MaxPreempt
        BY <2>6, <3>2 DEF Tick
      <4>2. storing <= (now + 1) + Pulse /\ (now + 1) + Pulse <= storing + MaxPreempt
        BY <1>2, <2>1, <3>2, <4>1 DEF StoringInv
      <4>3. QED
        BY <1>2, <3>1, <3>2, <4>2, Zenon DEF StoringInv
    <3>3. QED
      BY <3>1, <3>2 DEF StoringInv
  <2>7. QED
    BY <1>2, <2>2, <2>3, <2>4, <2>5, <2>6 DEF Next, Bystander
<1>3. QED
  BY <1>1, <1>2

LEMMA Numbers ==
  ASSUME TypeInv
  PROVE  /\ since \in Nat /\ published \in Nat /\ published \in 0..AgeCap /\ wake \in Nat /\ now \in Nat
         /\ step \in 0..4 /\ seen \in BOOLEAN /\ (storing # None => storing \in Nat)
         /\ Read(pulse_until) \in Nat
         /\ Pass \in Nat /\ Pulse \in Nat /\ AgeCap \in Nat /\ MaxPreempt \in Nat
<1>1. pulse_until.hi \in Nat /\ pulse_until.lo \in Nat
  BY Parameters, Parts DEF CallTypes
<1>2. Read(pulse_until) \in Nat
  BY <1>1, Parameters DEF Read
<1>3. QED
  BY <1>2, Parameters, Periods, Parts DEF LedTypes, CallTypes, AgeTypes

\* A publication turns the light green within a pass (FR-LED-02), for every
\* word size, if the boot colours end before the first cycle does and what
\* holds up the main task between the two stores, and the LED task before it
\* looks, leaves some of the pulse: Pass has MaxLate in it.  The code bounds
\* neither, and a task held up for longer does miss the pulse.
THEOREM GreenSeen ==
  ASSUME 3 * (Ticks(BOOT_STEP_MS) + MaxLate) < CycleGap, MaxPreempt + Pass < Pulse
  PROVE  Spec => []PublicationSeen
<1>1. Init => UnseenInv
  BY DEF Init, PoweredOn, UnseenInv
<1>2. TypeInv /\ Awake /\ StoringInv /\ UnseenInv /\ [Next]_vars => UnseenInv'
  <2> SUFFICES ASSUME TypeInv, Awake, StoringInv, UnseenInv, [Next]_vars
               PROVE  UnseenInv'
    OBVIOUS
  <2>1. CASE Bystander
    BY <2>1, Bystanders DEF UnseenInv
  <2>2. CASE Restart \/ PublishBegins
    <3>1. storing' # None \/ seen' = TRUE
      <4>1. now + Pulse # None
        BY Numbers DEF None
      <4>2. QED
        BY <2>2, <4>1 DEF Restart, PublishBegins, PulseEnd
    <3>2. QED
      BY <3>1 DEF UnseenInv
  <2>3. CASE PublishEnds
    <3>1. storing # None /\ storing \in Nat /\ pulse_until' = Words(storing) /\ published' = 0
          /\ wake' = wake /\ now' = now /\ step' = step
      BY <2>3, Numbers DEF PublishEnds, led
    <3>2. Read(pulse_until') = storing
      BY <3>1, WholeRead
    <3>3. step = 4 /\ now + Pulse <= storing + MaxPreempt
      BY <3>1 DEF StoringInv
    <3>4. 0 + wake <= Pass /\ now + Pulse <= storing + 0 + MaxPreempt
      BY <3>1, <3>3, Numbers DEF Awake
    <3>5. QED
      BY <3>1, <3>2, <3>3, <3>4, Zenon DEF UnseenInv
  <2>4. CASE BootColour
    <3>1. UNCHANGED <<storing, seen>> /\ step # 4
      BY <2>4, Numbers DEF BootColour, calls, ages
    <3>2. QED
      BY <3>1 DEF UnseenInv
  <2>5. CASE Render
    <3>1. storing' = storing /\ wake = 0 /\ (seen' <=> seen \/ Rendered = {"green"})
      BY <2>5, Zenon DEF Render, calls
    <3>2. CASE storing = None /\ ~seen
      <4>1. now < Read(pulse_until)
        BY <3>1, <3>2, Numbers DEF UnseenInv
      <4>2. seen'
        BY <3>1, <4>1, Patterns
      <4>3. QED
        BY <4>2 DEF UnseenInv
    <3>3. QED
      BY <3>1, <3>2, Zenon DEF UnseenInv
  <2>6. CASE Tick
    <3>1. UNCHANGED <<storing, seen, pulse_until, step>>
      BY <2>6 DEF Tick, calls
    <3>2. CASE storing = None /\ ~seen
      <4>1. step = 4 /\ published + wake <= Pass /\ now + Pulse <= Read(pulse_until) + published + MaxPreempt
        BY <3>2 DEF UnseenInv
      <4>2. published < AgeCap
        BY <4>1, Numbers, Periods
      <4>3. published' = published + 1 /\ published' + wake' = published + wake /\ now' = now + 1
        BY <2>6, <4>2, TimePasses
      <4>4. (now + 1) + Pulse <= Read(pulse_until) + (published + 1) + MaxPreempt
        BY <4>1, Numbers
      <4>5. QED
        BY <3>1, <4>1, <4>3, <4>4, Zenon DEF UnseenInv
    <3>3. QED
      BY <3>1, <3>2, Zenon DEF UnseenInv
  <2>7. QED
    BY <2>1, <2>2, <2>3, <2>4, <2>5, <2>6 DEF Next, Bystander
<1>3. TypeInv /\ UnseenInv => PublicationSeen
  BY Numbers DEF UnseenInv, PublicationSeen
<1>4. QED
  BY <1>1, <1>2, <1>3, StartTypes, TypeStep, AwakeHolds, StoringHolds, PTL DEF Spec

\* Outside a publication the pulse is over or its end is at most a pulse after
\* the last publication; and an operating device is dark unless its indication
\* or its publication is still too young to have been rendered.
PulseInv ==
    storing = None =>
        /\ Read(pulse_until) <= now \/ Read(pulse_until) + published <= now + Pulse
        /\ step = 4 /\ current = "Operational" =>
              \/ light = {} \/ since + wake <= Pass \/ published + wake <= Pulse + Pass

LEMMA PulseHolds ==
  /\ Init => PulseInv
  /\ TypeInv /\ Awake /\ StoringInv /\ PulseInv /\ [Next]_vars => PulseInv'
<1>1. Init => PulseInv
  BY Zeros DEF Init, PoweredOn, PulseInv
<1>2. TypeInv /\ Awake /\ StoringInv /\ PulseInv /\ [Next]_vars => PulseInv'
  <2> SUFFICES ASSUME TypeInv, Awake, StoringInv, PulseInv, [Next]_vars
               PROVE  PulseInv'
    OBVIOUS
  <2>1. CASE Bystander
    <3>1. UNCHANGED <<pulse_until, storing, step, light, wake, now, published>>
      BY <2>1, Bystanders
    <3>2. UNCHANGED <<current, since>> \/ since' = 0
      BY <2>1 DEF Bystander, ShowConnecting, EnterPortal, Joined, WifiLost, WifiBack,
                  UpdateBegins, UpdateFails, indicate, vars, calls, ages
    <3>3. step = 4 => 0 + wake <= Pass
      BY Numbers DEF Awake
    <3>4. QED
      BY <3>1, <3>2, <3>3, Zenon DEF PulseInv
  <2>2. CASE Restart
    <3>1. pulse_until' = Words(0) /\ now' = 0 /\ step' = 0
      BY <2>2 DEF Restart, PoweredOn
    <3>2. Read(pulse_until') = 0
      BY <3>1, Zeros
    <3>3. QED
      BY <3>1, <3>2 DEF PulseInv
  <2>3. CASE PublishBegins
    <3>1. storing' # None
      BY <2>3, Numbers DEF PublishBegins, PulseEnd, None
    <3>2. QED
      BY <3>1 DEF PulseInv
  <2>4. CASE PublishEnds
    <3>1. storing # None /\ storing \in Nat /\ pulse_until' = Words(storing) /\ published' = 0
          /\ wake' = wake /\ now' = now
      BY <2>4, Numbers DEF PublishEnds, led
    <3>2. Read(pulse_until') = storing
      BY <3>1, WholeRead
    <3>3. step = 4 /\ storing <= now + Pulse
      BY <3>1 DEF StoringInv
    <3>4. storing + 0 <= now + Pulse /\ 0 + wake <= Pulse + Pass
      BY <3>1, <3>3, Numbers DEF Awake
    <3>5. QED
      BY <3>1, <3>2, <3>4, Zenon DEF PulseInv
  <2>5. CASE BootColour
    <3>1. UNCHANGED <<pulse_until, storing, now, published>> /\ step' # 4
      BY <2>5, Numbers DEF BootColour, calls, ages
    <3>2. QED
      BY <3>1, Zenon DEF PulseInv
  <2>6. CASE Render
    <3>1. UNCHANGED <<pulse_until, storing, now, published, current>> /\ light' = Rendered
          /\ wake' \in Nat /\ wake' <= Pass
      BY <2>6, Periods, Parameters DEF Render, Sleep, calls
    <3>2. storing = None /\ current = "Operational" =>
            Rendered = {} \/ published + wake' <= Pulse + Pass
      BY <3>1, Patterns, Numbers DEF PulseInv
    <3>3. QED
      BY <3>1, <3>2, Zenon DEF PulseInv
  <2>7. CASE Tick
    <3>1. UNCHANGED <<pulse_until, storing, current, light, step>>
      BY <2>7 DEF Tick, calls
    <3>2. /\ since' + wake' <= since + wake /\ published' + wake' <= published + wake
          /\ published' <= published + 1 /\ now' = now + 1
      BY <2>7, TimePasses
    <3>3. since' \in Nat /\ wake' \in Nat /\ published' \in Nat
      BY <2>7, Numbers DEF Tick, Older
    <3>4. /\ since + wake <= Pass => since' + wake' <= Pass
          /\ published + wake <= Pulse + Pass => published' + wake' <= Pulse + Pass
      <4>1. \A a, b, c \in Nat : a <= b /\ b <= c => a <= c
        OBVIOUS
      <4>2. \A a, b \in Nat : a + b \in Nat
        OBVIOUS
      <4>3. QED
        BY <3>2, <3>3, <4>1, <4>2, Numbers, Zenon
    <3>5. /\ Read(pulse_until) <= now => Read(pulse_until) <= now + 1
          /\ Read(pulse_until) + published <= now + Pulse =>
               Read(pulse_until) + published' <= (now + 1) + Pulse
      <4>1. \A r, p, q, n, u \in Nat : q <= p + 1 /\ r + p <= n + u => r + q <= (n + 1) + u
        OBVIOUS
      <4>2. QED
        BY <3>2, <3>3, <4>1, Numbers
    <3>6. QED
      BY <3>1, <3>2, <3>4, <3>5, Zenon DEF PulseInv
  <2>8. QED
    BY <2>1, <2>2, <2>3, <2>4, <2>5, <2>6, <2>7 DEF Next, Bystander
<1>3. QED
  BY <1>1, <1>2

\* Between publications an operating device is dark (FR-LED-05), for every word
\* size, if the boot colours end before the first cycle does: no pulse, read
\* whole or torn, outlasts its publication by more than a pulse and a pass.
THEOREM DarkBetween ==
  ASSUME 3 * (Ticks(BOOT_STEP_MS) + MaxLate) < CycleGap
  PROVE  Spec => []DarkWhenIdle
<1>1. TypeInv /\ PulseInv => DarkWhenIdle
  BY Numbers DEF PulseInv, DarkWhenIdle, Settled, NoPulse
<1>2. QED
  BY <1>1, StartTypes, TypeStep, AwakeHolds, StoringHolds, PulseHolds, PTL DEF Spec

-----------------------------------------------------------------------------
(* The blinking of an update.                                               *)

\* Where in the period elapsed is, and where in its half.
Phase(e) == e % 200
Into(e)  == IF Phase(e) < 100 THEN Phase(e) ELSE Phase(e) - 100

\* What the last pass showed of an update, elapsed having moved on by TICK_MS.
Shown(e) == IF 25 <= Phase(e) /\ Phase(e) < 125 THEN {"blue"} ELSE {"green"}

\* What the next pass shows of it.
Colour(e) == IF Phase(e) < 100 THEN {"blue"} ELSE {"green"}

\* How many passes can have shown one colour when elapsed is e: up to four, but
\* up to four more where elapsed has wrapped in the blue half.
Run(e) ==
    IF e >= 125 /\ Into(e) >= 25
      THEN IF Into(e) < 50 THEN 1 ELSE IF Into(e) < 75 THEN 2 ELSE 3
    ELSE IF e >= 125 \/ e < 25 THEN 4
    ELSE IF e < 50 THEN 5 ELSE IF e < 75 THEN 6
    ELSE IF e < 100 THEN 7 ELSE 8

\* While passes are counted the light shows the phase of the last one, and has
\* done so for no more passes than its run.
ShownInv ==
    steady > 0 =>
        /\ step = 4
        /\ elapsed >= 25 => light = Shown(elapsed)
        /\ steady <= Run(elapsed)

LEMMA PhaseAdvances ==
  \A e \in Nat : /\ Phase(e) \in 0..199
                 /\ Phase(e + 25) = IF Phase(e) < 175 THEN Phase(e) + 25 ELSE Phase(e) - 175
                 /\ e < 200 => Phase(e) = e
<1> SUFFICES ASSUME NEW e \in Nat
             PROVE  /\ Phase(e) \in 0..199
                    /\ Phase(e + 25) = IF Phase(e) < 175 THEN Phase(e) + 25 ELSE Phase(e) - 175
                    /\ e < 200 => Phase(e) = e
  OBVIOUS
<1>1. PICK q \in Nat, s \in 0..199 : q = e \div 200 /\ s = e % 200 /\ s = e - 200 * q
  BY Division, Remainder
<1>2. PICK r \in Nat, t \in 0..199 : /\ r = (e + 25) \div 200 /\ t = (e + 25) % 200
                                     /\ t = (e + 25) - 200 * r
  <2>1. e + 25 \in Nat
    OBVIOUS
  <2>2. QED
    BY <2>1, Division, Remainder
<1>3. t = IF s < 175 THEN s + 25 ELSE s - 175
  BY <1>1, <1>2
<1>4. e < 200 => s = e
  BY <1>1
<1>5. Phase(e) = s /\ Phase(e + 25) = t
  BY <1>1, <1>2 DEF Phase
<1>6. QED
  BY <1>3, <1>4, <1>5

\* Adding less than the modulus wraps at most once.
LEMMA WrapsOnce ==
  ASSUME NEW M \in Nat \ {0}, NEW n \in Nat, n < 2 * M
  PROVE  n % M = IF n < M THEN n ELSE n - M
<1>1. PICK q \in Nat, r \in 0..M - 1 : q = n \div M /\ r = n % M /\ r = n - M * q
  BY Division, Remainder
<1>2. q = 0 \/ q = 1 \/ \E k \in Nat : q = k + 2
  <2>1. q = 0 \/ q = 1 \/ (q - 2 \in Nat /\ q = (q - 2) + 2)
    OBVIOUS
  <2>2. QED
    BY <2>1
<1>3. ASSUME NEW k \in Nat, q = k + 2 PROVE FALSE
  <2>1. M * q = M * k + 2 * M /\ M * k \in Nat
    BY <1>3
  <2>2. QED
    BY <1>1, <2>1
<1>4. CASE q = 0
  BY <1>1, <1>4
<1>5. CASE q = 1
  BY <1>1, <1>5
<1>6. QED
  BY <1>2, <1>3, <1>4, <1>5

LEMMA RunBounds == \A e \in Nat : Run(e) \in 1..8
  BY DEF Run

\* What the next pass shows: the other colour, or the same one, in a run that
\* has a pass more.
LEMMA RunGrows ==
  ASSUME 125 <= ElapsedMod, NEW e \in 0 .. ElapsedMod - 1
  PROVE  LET n == (e + 25) % ElapsedMod IN
             /\ n \in Nat
             /\ n >= 25 => Shown(n) = Colour(e)
             /\ (e >= 25 /\ Shown(e) # Colour(e)) \/ Run(e) + 1 <= Run(n)
<1> DEFINE n == (e + 25) % ElapsedMod
           s == Phase(e)
<1>1. e \in Nat /\ ElapsedMod \in Nat
  BY Parameters
<1>2. n = IF e + 25 < ElapsedMod THEN e + 25 ELSE e + 25 - ElapsedMod
  <2>1. ElapsedMod \in Nat \ {0} /\ e + 25 \in Nat /\ e + 25 < 2 * ElapsedMod
    BY <1>1
  <2>2. \A k \in Nat : k < 2 * ElapsedMod =>
          k % ElapsedMod = IF k < ElapsedMod THEN k ELSE k - ElapsedMod
    BY <2>1, WrapsOnce
  <2>3. QED
    BY <2>1, <2>2
<1> HIDE DEF n
<1>3. n \in Nat /\ (n < 25 \/ n = e + 25)
  BY <1>1, <1>2
<1>4. /\ s \in 0..199 /\ Phase(e + 25) = IF s < 175 THEN s + 25 ELSE s - 175
      /\ e < 200 => s = e
  BY <1>1, PhaseAdvances, Zenon
<1> HIDE DEF s
<1>5. n >= 25 => Shown(n) = Colour(e)
  <2>1. n >= 25 => n = e + 25
    BY <1>3
  <2>2. n >= 25 => (25 <= Phase(n) /\ Phase(n) < 125 <=> s < 100)
    BY <1>4, <2>1
  <2>3. QED
    BY <2>2 DEF Shown, Colour, s
<1>6. ASSUME ~(e >= 25 /\ Shown(e) # Colour(e))
      PROVE  Run(e) + 1 <= Run(n)
  <2>1. e < 25 \/ (25 <= s /\ s < 125 <=> s < 100)
    <3>1. {"blue"} # {"green"}
      OBVIOUS
    <3>2. QED
      BY <1>1, <1>6, <3>1 DEF Shown, Colour, s
  <2>2. e < 25 \/ (e >= 25 /\ e < 100) \/ (e >= 125 /\ Into(e) >= 25)
    BY <1>1, <1>4, <2>1 DEF Into, s
  <2>3. CASE e < 25
    <3>1. n = e + 25
      BY <1>1, <1>2, <2>3
    <3>2. Run(e) = 4 /\ Run(n) = 5
      BY <1>1, <2>3, <3>1 DEF Run
    <3>3. QED
      BY <1>1, <3>2
  <2>4. CASE e >= 25 /\ e < 100
    <3>1. n = e + 25
      BY <1>1, <1>2, <2>4
    <3>2. \/ e < 50 /\ Run(e) = 5 /\ Run(n) = 6
          \/ e < 75 /\ Run(e) = 6 /\ Run(n) = 7
          \/ Run(e) = 7 /\ Run(n) = 8
      BY <1>1, <2>4, <3>1 DEF Run
    <3>3. QED
      BY <1>1, <3>2
  <2>5. CASE e >= 125 /\ Into(e) >= 25
    <3>1. Run(e) = IF Into(e) < 50 THEN 1 ELSE IF Into(e) < 75 THEN 2 ELSE 3
      BY <2>5 DEF Run
    <3>2. CASE n < 25
      <4>1. Run(n) = 4
        BY <1>3, <3>2 DEF Run
      <4>2. QED
        BY <1>1, <3>1, <4>1
    <3>3. CASE n = e + 25
      <4>1. Into(n) = IF Into(e) < 75 THEN Into(e) + 25 ELSE Into(e) - 75
        BY <1>4, <3>3 DEF Into, s
      <4>2. n >= 125 /\ Into(e) \in 0..99
        BY <1>1, <1>4, <2>5, <3>3 DEF Into, s
      <4>3. \/ Into(e) < 50 /\ Run(e) = 1 /\ Run(n) = 2
            \/ Into(e) < 75 /\ Run(e) = 2 /\ Run(n) = 3
            \/ Run(e) = 3 /\ Run(n) = 4
        BY <2>5, <3>1, <4>1, <4>2 DEF Run
      <4>4. QED
        BY <1>1, <4>3
    <3>4. QED
      BY <1>3, <3>2, <3>3
  <2>6. QED
    BY <2>2, <2>3, <2>4, <2>5
<1>7. QED
  BY <1>3, <1>5, <1>6 DEF n, s

LEMMA BlinkParts ==
  ASSUME TypeInv
  PROVE  elapsed \in 0 .. ElapsedMod - 1 /\ elapsed \in Nat /\ steady \in 0..9 /\ step \in 0..4
  BY Parameters, Parts DEF LedTypes, AgeTypes

\* A pass over an update whose pulses are over.
LEMMA UpdateRendered ==
  ASSUME current = "Updating", ~(now < Read(pulse_until))
  PROVE  Rendered = Colour(elapsed)
<1>1. /\ pattern_for(current).a = {"blue"} /\ pattern_for(current).b = {"green"}
      /\ pattern_for(current).period = 200
  BY DEF pattern_for, Pattern
<1>2. Rendered = IF elapsed % 200 < 200 \div 2 THEN {"blue"} ELSE {"green"}
  <2>1. 200 # 0
    OBVIOUS
  <2>2. QED
    BY <1>1, <2>1, Zenon DEF Rendered
<1>3. 200 \div 2 = 100
  OBVIOUS
<1>4. QED
  BY <1>2, <1>3 DEF Colour, Phase

LEMMA RenderShows ==
  ASSUME 125 <= ElapsedMod, TypeInv, ShownInv, Render
  PROVE  ShownInv'
<1> DEFINE n == (elapsed + 25) % ElapsedMod
<1>1. step' = 4 /\ elapsed' = n /\ light' = Rendered /\ CountSteady
  BY DEF Render, TICK_MS
<1>2. /\ n \in Nat /\ (n >= 25 => Shown(n) = Colour(elapsed))
      /\ (elapsed >= 25 /\ Shown(elapsed) # Colour(elapsed)) \/ Run(elapsed) + 1 <= Run(n)
  BY BlinkParts, RunGrows
<1> HIDE DEF n
<1>3. steady \in 0..9 /\ Run(elapsed) \in 1..8 /\ Run(n) \in 1..8
  BY <1>2, BlinkParts, RunBounds
<1>4. CASE current # "Updating" \/ now < Read(pulse_until)
  <2>1. steady' = 0
    BY <1>1, <1>4 DEF CountSteady
  <2>2. QED
    BY <2>1 DEF ShownInv
<1>5. CASE current = "Updating" /\ ~(now < Read(pulse_until))
  <2>1. Rendered = Colour(elapsed) /\ (n >= 25 => light' = Shown(n))
    BY <1>1, <1>2, <1>5, UpdateRendered
  <2>2. steady' <= Run(n)
    <3>1. CASE steady = 0 \/ Rendered # light
      BY <1>1, <1>3, <1>5, <3>1 DEF CountSteady
    <3>2. CASE steady > 0 /\ Rendered = light
      <4>1. steady <= Run(elapsed) /\ (elapsed >= 25 => light = Shown(elapsed))
        BY <3>2 DEF ShownInv
      <4>2. Run(elapsed) + 1 <= Run(n)
        BY <1>2, <2>1, <3>2, <4>1
      <4>3. steady' \in {steady + 1, steady}
        BY <1>1, <1>3, <1>5, <3>2 DEF CountSteady
      <4>4. QED
        BY <1>3, <4>1, <4>2, <4>3
    <3>3. QED
      BY <1>3, <3>1, <3>2
  <2>3. QED
    BY <1>1, <2>1, <2>2, Zenon DEF ShownInv
<1>6. QED
  BY <1>4, <1>5

LEMMA ShownHolds ==
  ASSUME 125 <= ElapsedMod
  PROVE  /\ Init => ShownInv
         /\ TypeInv /\ ShownInv /\ [Next]_vars => ShownInv'
<1>1. Init => ShownInv
  BY DEF Init, ShownInv
<1>2. ASSUME TypeInv, ShownInv, [Next]_vars
      PROVE  ShownInv'
  <2>1. CASE Bystander \/ PublishBegins \/ PublishEnds \/ Tick
    <3>1. UNCHANGED <<steady, step, light, elapsed>>
      BY <2>1 DEF Bystander, ShowConnecting, EnterPortal, Joined, WifiLost, WifiBack, UpdateBegins,
                  UpdateFails, PublishBegins, PublishEnds, Tick, Calls, led, vars, calls, ages
    <3>2. QED
      BY <1>2, <3>1, Zenon DEF ShownInv
  <2>2. CASE Restart
    BY <2>2 DEF Restart, ShownInv
  <2>3. CASE BootColour
    <3>1. step # 4 /\ steady' = steady
      BY <1>2, <2>3, BlinkParts DEF BootColour, ages
    <3>2. steady' = 0
      BY <1>2, <3>1, BlinkParts DEF ShownInv
    <3>3. QED
      BY <3>2 DEF ShownInv
  <2>4. CASE Render
    BY <1>2, <2>4, RenderShows
  <2>5. QED
    BY <1>2, <2>1, <2>2, <2>3, <2>4 DEF Next, Bystander
<1>3. QED
  BY <1>1, <1>2

\* An update blinks (FR-LED-05): however late its passes are, at most eight in
\* a row show one colour between pulses, also when elapsed wraps, for every tick
\* rate, word size and MaxLate.  At the code's 2^32 that is 125 <= ElapsedMod.
THEOREM UpdateBlinks ==
  ASSUME 125 <= ElapsedMod
  PROVE  Spec => []Alternates
<1>1. TypeInv /\ ShownInv => Alternates
  <2> SUFFICES ASSUME TypeInv, ShownInv
               PROVE  Alternates
    OBVIOUS
  <2>1. steady \in 0..9 /\ Run(elapsed) \in 1..8
    BY BlinkParts, RunBounds
  <2>2. QED
    BY <2>1 DEF ShownInv, Alternates
<1>2. QED
  BY <1>1, StartTypes, TypeStep, ShownHolds, PTL DEF Spec
=============================================================================
