---------------------------- MODULE MeterLoopProofs ----------------------------
(***************************************************************************)
(* Proofs about MeterLoop, for every time scale, every number of candidate *)
(* line settings and both builds.  LoopInv adds to TypeOK what the         *)
(* simulated source keeps; WatchdogInv and LockInv concern the production  *)
(* build and say how long a pass has lasted and how far probing has come.  *)
(* TrailInv and TelegramInv say how far the loop can trail behind the      *)
(* meter, and what of the telegram is where.                               *)
(***************************************************************************)
EXTENDS MeterLoop, SequenceTheorems, TLAPS

SimInv == source = "sim" /\ ~gap_pending => sent < MaxTelegram

LoopInv == TypeOK /\ SimInv

-----------------------------------------------------------------------------
(* The helpers of the model.                                                *)

LEMMA Parameters ==
         /\ Gap \in Nat /\ Watchdog \in Nat /\ MaxCycle \in Nat /\ ReadMax \in Nat
         /\ RxBuffer \in Nat /\ SimGap \in Nat /\ Lines \in Nat /\ RightLine \in Nat
         /\ MaxStall \in Nat /\ ClockMod \in Nat /\ MinTelegram \in Nat /\ MaxTelegram \in Nat
         /\ MaxPause \in Nat /\ MinSilence \in Nat /\ MaxTrickle \in Nat /\ ChanceFrames \in Nat
         /\ RightLine < Lines /\ MaxPause < MinSilence /\ Gap < ClockMod
         /\ 1 <= MaxTelegram /\ 1 <= ReadMax /\ ReadMax <= MaxCycle
<1>1. \A n \in {Gap, Watchdog, MaxCycle, ReadMax, RxBuffer, SimGap, Lines, RightLine, ChanceFrames,
                MaxStall, ClockMod, MinTelegram, MaxTelegram, MaxTrickle, MaxPause,
                MinSilence} : n \in Nat
  BY MeterLoopAssumption, Zenon DEF MeterLoopAssumption
<1>2. /\ Gap \in Nat /\ Watchdog \in Nat /\ MaxCycle \in Nat /\ ReadMax \in Nat
      /\ RxBuffer \in Nat /\ SimGap \in Nat /\ Lines \in Nat /\ RightLine \in Nat
      /\ MaxStall \in Nat /\ ClockMod \in Nat /\ MinTelegram \in Nat /\ MaxTelegram \in Nat
      /\ MaxPause \in Nat /\ MinSilence \in Nat /\ MaxTrickle \in Nat /\ ChanceFrames \in Nat
  BY <1>1, Zenon
<1>3. QED
  BY <1>2, MeterLoopAssumption DEF MeterLoopAssumption

LEMMA ModRange == \A n \in Nat, m \in Nat : m > 0 => n % m \in 0..m - 1
  OBVIOUS

LEMMA ModSmall == \A n \in Nat, m \in Nat : n < m => n % m = n
  OBVIOUS

LEMMA SumBound == \A a, b, m \in Nat : a <= 1 /\ b <= m => a + b <= 1 + m
  OBVIOUS

LEMMA Builds == source \in Sources => source \in {"uart", "sim"}
  BY MeterLoopAssumption DEF MeterLoopAssumption

\* What is collected fits the buffer, whatever was there before.
LEMMA CollectedFits ==
  ASSUME cycle \in Seq(Chunk), Len(cycle) <= MaxCycle,
         NEW bytes \in Seq(Chunk), Len(bytes) <= MaxCycle
  PROVE  Collected(bytes) \in Seq(Chunk) /\ Len(Collected(bytes)) <= MaxCycle
<1> USE Parameters
<1>1. cycle \o bytes \in Seq(Chunk) /\ Len(cycle \o bytes) = Len(cycle) + Len(bytes)
  OBVIOUS
<1>2. QED
  BY <1>1 DEF Collected

LEMMA ProbeTypes ==
  ASSUME TypeOK, NEW outcome, ProbeLine(outcome)
  PROVE  undecoded' \in 0..1 /\ candidate' \in 0..Lines - 1
<1>1. Lines \in Nat /\ Lines > 0 /\ candidate \in 0..Lines - 1 /\ undecoded \in 0..1
  BY Parameters DEF TypeOK
<1>2. (candidate + 1) % Lines \in 0..Lines - 1
  BY <1>1, ModRange
<1>3. QED
  BY <1>1, <1>2 DEF ProbeLine

\* A burst is counted as a chance frame only while the bound allows it.
LEMMA ChanceTypes ==
  ASSUME TypeOK, NEW outcome \in Outcomes, CountChance(outcome)
  PROVE  chances' \in 0..ChanceFrames
<1>1. candidate # RightLine /\ outcome = "framed" => chances < ChanceFrames
  BY DEF Outcomes
<1>2. QED
  BY <1>1, Parameters DEF CountChance, TypeOK

LEMMA ArrivalTypes ==
  ASSUME TypeOK, NEW t \in 0..2, NEW i \in 1..MaxTelegram, Arrives(t, i)
  PROVE  /\ tele' \in 0..2 /\ sent' \in 0..MaxTelegram /\ quiet' \in 0..QuietCap
         /\ slow' \in 0..MaxTrickle /\ rx' \in Seq(Chunk) /\ Len(rx') <= RxBuffer
<1> USE Parameters DEF TypeOK
<1>1. [tele |-> t, idx |-> i] \in Chunk
  BY DEF Chunk
<1>2. rx' \in Seq(Chunk) /\ Len(rx') <= RxBuffer
  BY <1>1 DEF Arrives
<1>3. QED
  BY <1>2 DEF Arrives, QuietCap

-----------------------------------------------------------------------------
(* Type correctness.                                                        *)

LEMMA LoopInit == Init => LoopInv
<1> SUFFICES ASSUME Init PROVE LoopInv
  OBVIOUS
<1> USE DEF Init
<1>1. cycle \in Seq(Chunk) /\ Len(cycle) = 0 /\ rx \in Seq(Chunk) /\ Len(rx) = 0
  OBVIOUS
<1>2. quiet \in 0..QuietCap /\ bursts \in 0..BurstCap /\ Len(cycle) <= MaxCycle /\ Len(rx) <= RxBuffer
  BY <1>1, Parameters DEF QuietCap, BurstCap
<1>3. /\ 0 \in 0..ClockMod - 1 /\ 0 \in 0..Lines - 1 /\ 0 \in 0..Watchdog
      /\ 0 \in 0..MaxTelegram /\ 0 \in 0..1 /\ 0 \in 0..2 /\ 0 \in Nat
      /\ 0 \in 0..MaxTrickle /\ 0 \in 0..ChanceFrames
  BY Parameters
<1>4. TypeOK
  BY <1>1, <1>2, <1>3, Zenon DEF TypeOK
<1>5. SimInv
  BY Parameters DEF SimInv
<1>6. QED
  BY <1>4, <1>5 DEF LoopInv

LEMMA PassTypes ==
  ASSUME NextPass PROVE fed' \in 0..Watchdog /\ timedout' \in BOOLEAN
<1>1. fed' \in 0..Watchdog
  BY Parameters DEF NextPass
<1>2. QED
  BY <1>1 DEF NextPass

\* The steps of the UART build's loop.
LEMMA UartKeepsTypes ==
  ASSUME LoopInv, ReadBytes \/ ReadNothing \/ Published
  PROVE  LoopInv'
<1> USE DEF LoopInv, SimInv
<1>1. CASE ReadBytes
  <2> DEFINE n == IF Len(rx) < ReadMax THEN Len(rx) ELSE ReadMax
  <2>1. /\ SubSeq(rx, 1, n) \in Seq(Chunk) /\ Len(SubSeq(rx, 1, n)) <= MaxCycle
        /\ SubSeq(rx, n + 1, Len(rx)) \in Seq(Chunk)
        /\ Len(SubSeq(rx, n + 1, Len(rx))) <= RxBuffer
    BY Parameters DEF TypeOK
  <2>2. cycle' \in Seq(Chunk) /\ Len(cycle') <= MaxCycle
    BY <1>1, <2>1, CollectedFits DEF ReadBytes, TypeOK
  <2>3. rx' \in Seq(Chunk) /\ Len(rx') <= RxBuffer
    BY <1>1, <2>1 DEF ReadBytes
  <2>4. TypeOK'
    BY <1>1, <2>2, <2>3, PassTypes DEF ReadBytes, TypeOK, meter, probe
  <2>5. QED
    BY <1>1, <2>4 DEF ReadBytes, meter
<1>2. CASE ReadNothing
  <2>1. CASE StillQuiet
    <3>1. TypeOK'
      BY <1>2, <2>1, PassTypes DEF ReadNothing, StillQuiet, TypeOK, meter, probe
    <3>2. QED
      BY <1>2, <3>1 DEF ReadNothing, meter
  <2>2. CASE Decode
    <3>1. undecoded' \in 0..1 /\ candidate' \in 0..Lines - 1
      BY <2>2, ProbeTypes DEF Decode
    <3>2. bursts' \in 0..BurstCap /\ stall' \in Nat
      BY <2>2, Parameters DEF Decode, TypeOK, BurstCap
    <3>3. chances' \in 0..ChanceFrames
      BY <2>2, ChanceTypes DEF Decode
    <3>4. QED
      BY <1>2, <2>2, <3>1, <3>2, <3>3 DEF ReadNothing, Decode, TypeOK, meter, probe
  <2>3. QED
    BY <1>2, <2>1, <2>2 DEF ReadNothing
<1>3. CASE Published
  <2>1. cycle' \in Seq(Chunk) /\ Len(cycle') = 0
    BY <1>3 DEF Published
  <2>2. Len(cycle') <= MaxCycle
    BY <2>1, Parameters
  <2>3. TypeOK'
    BY <1>3, <2>1, <2>2, PassTypes DEF Published, TypeOK, meter, probe
  <2>4. QED
    BY <1>3, <2>3 DEF Published, meter
<1>4. QED
  BY <1>1, <1>2, <1>3

\* The steps of the simulated build's loop.
LEMMA SimKeepsTypes ==
  ASSUME LoopInv, SimRead \/ SimGapBegins \/ SimGapEnds
  PROVE  LoopInv'
<1> USE DEF LoopInv, SimInv
<1>1. CASE SimRead
  <2> DEFINE chunk == [tele |-> tele, idx |-> sent + 1]
  <2>1. sent + 1 \in 1..MaxTelegram
    BY <1>1, Parameters DEF SimRead, TypeOK
  <2>2. <<chunk>> \in Seq(Chunk) /\ Len(<<chunk>>) <= MaxCycle
    BY <2>1, Parameters DEF TypeOK, Chunk
  <2>3. cycle' \in Seq(Chunk) /\ Len(cycle') <= MaxCycle
    BY <1>1, <2>2, CollectedFits DEF SimRead, TypeOK
  <2>4. quiet' \in 0..QuietCap /\ sent' \in 0..MaxTelegram /\ gap_pending' \in BOOLEAN
    BY <1>1, <2>1, Parameters DEF SimRead, QuietCap
  <2>5. TypeOK'
    BY <1>1, <2>3, <2>4, PassTypes DEF SimRead, TypeOK, probe
  <2>6. SimInv'
    <3>1. sent' \in 1..MaxTelegram /\ (sent' # MaxTelegram => sent' < MaxTelegram)
      BY <1>1, <2>1, Parameters DEF SimRead
    <3>2. ~gap_pending' => sent' # MaxTelegram
      BY <1>1, Zenon DEF SimRead
    <3>3. QED
      BY <3>1, <3>2, Zenon
  <2>7. QED
    BY <2>5, <2>6
<1>2. CASE SimGapBegins
  BY <1>2, Parameters DEF SimGapBegins, TypeOK, meter, probe
<1>3. CASE SimGapEnds
  <2>1. undecoded' \in 0..1 /\ candidate' \in 0..Lines - 1
    BY <1>3, ProbeTypes DEF SimGapEnds, Decode
  <2>2. bursts' \in 0..BurstCap /\ stall' \in Nat /\ tele' \in 0..2 /\ sent' \in 0..MaxTelegram
    BY <1>3, Parameters DEF SimGapEnds, Decode, Rewind, TypeOK, BurstCap
  <2>3. chances' \in 0..ChanceFrames
    BY <1>3, ChanceTypes DEF SimGapEnds, Decode
  <2>4. TypeOK'
    BY <1>3, <2>1, <2>2, <2>3 DEF SimGapEnds, Decode, Rewind, TypeOK
  <2>5. QED
    BY <1>3, <2>4, Parameters DEF SimGapEnds, Rewind
<1>4. QED
  BY <1>1, <1>2, <1>3

\* Time passes.
LEMMA TickKeepsTypes ==
  ASSUME LoopInv, Tick
  PROVE  LoopInv'
<1> USE Parameters DEF LoopInv
<1>1. now' \in 0..ClockMod - 1
  BY ModRange DEF Tick, TypeOK
<1>2. fed' \in 0..Watchdog /\ stall' \in Nat
  BY DEF Tick, TypeOK
<1>3. CASE source = "uart" /\ (NextChunk \/ NextTelegram) /\ UNCHANGED timedout
  <2>1. PICK t \in 0..2, i \in 1..MaxTelegram : Arrives(t, i)
    BY <1>3 DEF NextChunk, NextTelegram, TypeOK
  <2>2. /\ tele' \in 0..2 /\ sent' \in 0..MaxTelegram /\ quiet' \in 0..QuietCap
        /\ slow' \in 0..MaxTrickle /\ rx' \in Seq(Chunk) /\ Len(rx') <= RxBuffer
    BY <2>1, ArrivalTypes
  <2>3. QED
    BY <1>1, <1>2, <1>3, <2>2 DEF Tick, TypeOK, SimInv, loop, probe
<1>4. CASE MeterSilent /\ timedout' = (pc = "read")
  <2>1. quiet' \in 0..QuietCap /\ timedout' \in BOOLEAN
    BY <1>4 DEF MeterSilent, TypeOK, QuietCap
  <2>2. QED
    BY <1>1, <1>2, <1>4, <2>1 DEF Tick, MeterSilent, TypeOK, SimInv, loop, probe
<1>5. CASE source = "uart" /\ Trickles /\ UNCHANGED timedout
  <2>1. quiet' \in 0..QuietCap /\ slow' \in 0..MaxTrickle
    BY <1>5 DEF Trickles, TypeOK, QuietCap
  <2>2. QED
    BY <1>1, <1>2, <1>5, <2>1 DEF Tick, Trickles, TypeOK, SimInv, loop, probe
<1>6. QED
  BY <1>3, <1>4, <1>5 DEF Tick

LEMMA LoopStep == LoopInv /\ [Next]_vars => LoopInv'
<1> SUFFICES ASSUME LoopInv, [Next]_vars
             PROVE  LoopInv'
  OBVIOUS
<1>1. CASE UNCHANGED vars
  BY <1>1 DEF LoopInv, TypeOK, SimInv, vars, loop, meter, probe
<1>2. QED
  BY <1>1, UartKeepsTypes, SimKeepsTypes, TickKeepsTypes DEF Next, Loop

\* The loop, the driver's buffer and the cycle buffer stay within their types
\* and their memory: a burst longer than the buffer cannot overrun it.
THEOREM TypeCorrect == Spec => []TypeOK
<1>1. Spec => []LoopInv
  BY LoopInit, LoopStep, PTL DEF Spec
<1>2. LoopInv => TypeOK
  BY DEF LoopInv
<1>3. QED
  BY <1>1, <1>2, PTL

-----------------------------------------------------------------------------
(* The watchdog.                                                            *)

\* The most ticks that n chunks take to arrive.
Pace(n) == n * (MaxTrickle + 1)

LEMMA PaceGrows ==
  /\ Pace(0) = 0
  /\ \A n \in Nat : Pace(n) \in Nat /\ Pace(n + 1) = Pace(n) + MaxTrickle + 1
  /\ \A n, m \in Nat : n <= m => Pace(n) <= Pace(m)
<1> DEFINE w == MaxTrickle + 1
<1>1. w \in Nat
  BY Parameters
<1>2. \A n \in Nat : n * w \in Nat /\ (n + 1) * w = n * w + w
  <2> HIDE DEF w
  <2>1. QED
    BY <1>1
<1>3. \A n, m \in Nat : n <= m => n * w <= m * w
  <2> HIDE DEF w
  <2>1. SUFFICES ASSUME NEW n \in Nat, NEW m \in Nat, n <= m PROVE n * w <= m * w
    OBVIOUS
  <2>2. m * w = n * w + (m - n) * w /\ (m - n) * w >= 0 /\ n * w \in Nat
    BY <1>1, <2>1
  <2>3. QED
    BY <1>1, <2>2
<1>4. QED
  BY <1>1, <1>2, <1>3, Parameters DEF Pace

\* A read that still waits has lasted no longer than the chunks it found in the
\* driver and the part of the next one took to arrive, plus the one tick in
\* which it gave up; a publish began after a read that found nothing.
WatchdogInv ==
    /\ pc = "gap" => source = "sim"
    /\ source = "uart" =>
        /\ pc = "read" => /\ fed <= Pace(ReadMax)
                          /\ fed <= Pace(Len(rx)) + IF timedout THEN 1 ELSE slow
                          /\ timedout => slow = 0
        /\ pc = "publish" => fed + stall <= 1 + MaxStall

\* A pass of the loop lasts no longer than one full read takes to arrive, or one
\* read that finds nothing and the publish after it, whatever the meter's pace
\* and the length of a publish: nothing else keeps the loop from the watchdog.
THEOREM PassesBounded ==
  ASSUME ReadMax <= RxBuffer
  PROVE  Spec => []PassBounded
<1> USE Parameters
<1>1. Init => WatchdogInv
  <2>1. Init => fed = 0 /\ slow = 0 /\ pc = "read" /\ rx = <<>> /\ ~timedout
    BY DEF Init
  <2>2. Pace(ReadMax) \in Nat /\ Pace(Len(<<>>)) = 0
    BY PaceGrows
  <2>3. QED
    BY <2>1, <2>2 DEF WatchdogInv
<1>2. LoopInv /\ WatchdogInv /\ [Next]_vars => WatchdogInv'
  <2> SUFFICES ASSUME LoopInv, WatchdogInv, [Next]_vars
               PROVE  WatchdogInv'
    OBVIOUS
  <2>1. /\ rx \in Seq(Chunk) /\ fed \in 0..Watchdog /\ stall \in Nat /\ slow \in 0..MaxTrickle
        /\ timedout \in BOOLEAN /\ source \in {"uart", "sim"}
    BY Builds DEF LoopInv, TypeOK
  <2>2. /\ slow' \in Nat /\ fed' \in Nat /\ Len(rx) \in Nat /\ Len(rx') \in Nat
        /\ Pace(Len(rx)) \in Nat /\ Pace(Len(rx')) \in Nat /\ Pace(ReadMax) \in Nat
    <3>1. LoopInv'
      BY LoopStep
    <3>2. slow' \in Nat /\ fed' \in Nat
      BY <3>1 DEF LoopInv, TypeOK
    <3>3. Len(rx) \in Nat /\ Len(rx') \in Nat
      <4>1. rx' \in Seq(Chunk)
        BY <3>1, Zenon DEF LoopInv, TypeOK
      <4>2. QED
        BY <2>1, <4>1
    <3>4. Pace(Len(rx)) \in Nat /\ Pace(Len(rx')) \in Nat /\ Pace(ReadMax) \in Nat
      BY <3>3, PaceGrows, Zenon
    <3>5. QED
      BY <3>2, <3>3, <3>4
  <2>3. ASSUME pc' = "read", fed' = 0, timedout' = FALSE, source' = source PROVE WatchdogInv'
    BY <2>2, <2>3 DEF WatchdogInv, Pace
  <2>4. CASE ReadBytes
    BY <2>3, <2>4 DEF ReadBytes, NextPass
  <2>5. CASE ReadNothing
    <3>1. CASE StillQuiet
      BY <2>3, <2>5, <3>1 DEF ReadNothing, StillQuiet, NextPass
    <3>2. CASE Decode
      <4>1. stall' <= MaxStall /\ stall' \in Nat /\ fed' = fed /\ pc' = "publish"
        BY <2>5, <3>2 DEF ReadNothing, Decode
      <4>2. fed <= 1
        <5>1. pc = "read" /\ source = "uart" /\ rx = <<>> /\ timedout
          BY <2>5 DEF ReadNothing
        <5>2. Len(rx) = 0
          BY <5>1
        <5>3. Pace(Len(rx)) = 0
          BY <5>2, PaceGrows, Zenon
        <5>4. QED
          BY <2>1, <5>1, <5>3 DEF WatchdogInv
      <4>3. fed' + stall' <= 1 + MaxStall
        <5>1. fed \in Nat /\ MaxStall \in Nat
          BY <2>1
        <5>2. fed + stall' <= 1 + MaxStall
          BY <4>1, <4>2, <5>1, SumBound, Zenon
        <5>3. QED
          BY <4>1, <5>2, Zenon
      <4>4. QED
        BY <4>1, <4>3 DEF WatchdogInv
    <3>3. QED
      BY <2>5, <3>1, <3>2 DEF ReadNothing
  <2>6. CASE Published
    BY <2>3, <2>6 DEF Published, NextPass
  <2>7. CASE SimRead \/ SimGapBegins \/ SimGapEnds
    <3>1. source = "sim" /\ source' = source
      BY <2>7 DEF SimRead, SimGapBegins, SimGapEnds, Decode, WatchdogInv
    <3>2. QED
      BY <3>1 DEF WatchdogInv
  <2>8. CASE Tick
    <3>1. source' = source /\ pc' = pc
      BY <2>8 DEF Tick, loop
    <3>2. CASE source = "uart" /\ pc = "read"
      <4>1. /\ Len(rx) < ReadMax /\ ~timedout /\ fed' <= fed + 1
            /\ fed <= Pace(Len(rx)) + slow
        BY <2>1, <2>8, <3>2 DEF Tick, Blocked, WatchdogInv
      <4>2. Pace(Len(rx)) + MaxTrickle + 1 <= Pace(ReadMax)
        <5>1. Len(rx) + 1 <= ReadMax /\ Len(rx) + 1 \in Nat
          BY <2>2, <4>1
        <5>2. Pace(Len(rx) + 1) <= Pace(ReadMax)
          BY <5>1, PaceGrows, Zenon
        <5>3. Pace(Len(rx) + 1) = Pace(Len(rx)) + MaxTrickle + 1
          BY <2>2, PaceGrows, Zenon
        <5>4. QED
          BY <5>2, <5>3, Zenon
      <4>3. fed' <= Pace(Len(rx)) + slow + 1 /\ fed' <= Pace(ReadMax)
        <5>1. fed \in Nat /\ slow \in Nat /\ slow <= MaxTrickle
          BY <2>1
        <5>2. QED
          BY <2>2, <4>1, <4>2, <5>1
      <4>4. CASE (NextChunk \/ NextTelegram) /\ UNCHANGED timedout
        <5>1. Len(rx') = Len(rx) + 1
          BY <2>1, <4>1, <4>4 DEF NextChunk, NextTelegram, Arrives
        <5>2. slow' = 0 /\ ~timedout'
          BY <4>1, <4>4 DEF NextChunk, NextTelegram, Arrives
        <5>3. Pace(Len(rx')) = Pace(Len(rx)) + MaxTrickle + 1
          BY <2>2, <5>1, PaceGrows, Zenon
        <5>4. fed' <= Pace(Len(rx'))
          <6>1. slow \in Nat /\ slow <= MaxTrickle
            BY <2>1
          <6>2. QED
            BY <2>2, <4>3, <5>3, <6>1
        <5>5. fed' <= Pace(Len(rx')) + slow'
          BY <2>2, <5>2, <5>4
        <5>6. QED
          BY <3>1, <3>2, <4>3, <5>2, <5>5 DEF WatchdogInv
      <4>5. CASE Trickles /\ UNCHANGED timedout
        <5>1. rx' = rx /\ slow' = slow + 1 /\ ~timedout'
          BY <4>1, <4>5 DEF Trickles
        <5>2. Pace(Len(rx')) = Pace(Len(rx))
          BY <5>1
        <5>3. fed' <= Pace(Len(rx')) + slow'
          <6>1. slow \in Nat
            BY <2>1
          <6>2. QED
            BY <2>2, <4>3, <5>1, <5>2, <6>1
        <5>4. QED
          BY <3>1, <3>2, <4>3, <5>1, <5>2, <5>3 DEF WatchdogInv
      <4>6. CASE MeterSilent /\ timedout' = (pc = "read")
        <5>1. rx' = rx /\ timedout' /\ slow = 0 /\ slow' = 0
          BY <3>2, <4>6 DEF MeterSilent
        <5>2. Pace(Len(rx')) = Pace(Len(rx))
          BY <5>1
        <5>3. fed' <= Pace(Len(rx')) + 1
          <6>1. slow = 0
            BY <5>1
          <6>2. QED
            BY <2>2, <4>3, <5>2, <6>1
        <5>4. QED
          BY <3>1, <3>2, <4>3, <5>1, <5>3 DEF WatchdogInv
      <4>7. QED
        BY <2>8, <4>4, <4>5, <4>6 DEF Tick
    <3>3. CASE source = "uart" /\ pc = "publish"
      BY <2>1, <2>8, <3>1, <3>3 DEF Tick, Blocked, WatchdogInv
    <3>4. QED
      BY <2>8, <3>1, <3>2, <3>3 DEF Tick, Blocked, WatchdogInv
  <2>9. CASE UNCHANGED vars
    BY <2>9 DEF vars, loop, meter, WatchdogInv
  <2>10. QED
    BY <2>4, <2>5, <2>6, <2>7, <2>8, <2>9 DEF Next, Loop
<1>3. LoopInv /\ WatchdogInv => PassBounded
  BY DEF LoopInv, TypeOK, WatchdogInv, PassBounded, Pace
<1>4. QED
  BY <1>1, <1>2, <1>3, LoopInit, LoopStep, PTL DEF Spec

-----------------------------------------------------------------------------
(* Line settings.                                                           *)

\* A wrong candidate has had two bursts, and up to two more for each that looked
\* like a frame, which takes back the doubt of the one before it.
LockInv ==
    source = "uart" =>
        /\ candidate <= RightLine
        /\ candidate < RightLine => bursts <= 2 * candidate + undecoded + 2 * chances
        /\ candidate = RightLine => undecoded = 0

\* Two bursts on every wrong candidate, and two for each that looked like a
\* frame by chance, are enough: the production build locks on to the meter's
\* settings for any number of candidates and chance frames, provided that a
\* burst received with the right ones always decodes.
THEOREM LineFound ==
  ASSUME ~Noise
  PROVE  Spec => []LocksOn
<1> USE Parameters
<1>1. Init => LockInv
  BY DEF Init, LockInv
<1>2. LoopInv /\ LockInv /\ [Next]_vars => LockInv'
  <2> SUFFICES ASSUME LoopInv, LockInv, [Next]_vars, source' = "uart"
               PROVE  LockInv'
    BY DEF LockInv
  <2>1. /\ candidate \in 0..Lines - 1 /\ undecoded \in 0..1 /\ bursts \in 0..BurstCap
        /\ chances \in 0..ChanceFrames
    BY DEF LoopInv, TypeOK
  <2>2. CASE Decode
    <3>1. source = "uart"
      BY <2>2 DEF Decode
    <3>2. PICK outcome \in Outcomes : ProbeLine(outcome) /\ CountChance(outcome)
      BY <2>2 DEF Decode
    <3>3. CASE candidate = RightLine
      BY <2>1, <2>2, <3>1, <3>2, <3>3 DEF Decode, Outcomes, ProbeLine, LockInv
    <3>4. CASE candidate < RightLine
      <4>1. (candidate + 1) % Lines = candidate + 1
        BY <2>1, <3>4, ModSmall
      <4>2. outcome \in {"framed", "unframed"}
        BY <3>2, <3>4, <2>1 DEF Outcomes
      <4>3. bursts' <= bursts + 1 /\ bursts' \in Nat
        BY <2>1, <2>2 DEF Decode, BurstCap
      <4>4. CASE outcome = "framed"
        <5>1. undecoded' = 0 /\ candidate' = candidate /\ chances' = chances + 1
          BY <2>1, <3>2, <3>4, <4>4 DEF ProbeLine, CountChance
        <5>2. QED
          BY <2>1, <3>1, <3>4, <4>3, <5>1 DEF LockInv
      <4>5. CASE outcome = "unframed"
        <5>1. chances' = chances
          BY <3>2, <4>5 DEF CountChance
        <5>2. \/ undecoded = 0 /\ undecoded' = 1 /\ candidate' = candidate
              \/ undecoded = 1 /\ undecoded' = 0 /\ candidate' = candidate + 1
          BY <2>1, <3>1, <3>2, <4>1, <4>5 DEF ProbeLine
        <5>3. QED
          BY <2>1, <3>1, <3>4, <4>3, <5>1, <5>2 DEF LockInv
      <4>6. QED
        BY <4>2, <4>4, <4>5
    <3>5. QED
      BY <2>1, <3>1, <3>3, <3>4 DEF LockInv
  <2>3. CASE ~Decode
    <3>1. UNCHANGED <<candidate, undecoded, bursts, chances, source>>
      BY <2>3 DEF Next, Loop, ReadBytes, ReadNothing, StillQuiet, Published, SimRead,
                  SimGapBegins, SimGapEnds, Tick, vars, loop, probe
    <3>2. QED
      BY <3>1 DEF LockInv
  <2>4. QED
    BY <2>2, <2>3
<1>3. LoopInv /\ LockInv => LocksOn
  BY DEF LoopInv, TypeOK, LockInv, LocksOn
<1>4. QED
  BY <1>1, <1>2, <1>3, LoopInit, LoopStep, PTL DEF Spec

-----------------------------------------------------------------------------
(* Silence.                                                                 *)

\* What cycle_ended compares with the gap.
Elapsed == (now + ClockMod - last_byte) % ClockMod

LEMMA Wrapped ==
  ASSUME NEW n \in Nat, NEW m \in Nat, n < 2 * m
  PROVE  n % m = IF n < m THEN n ELSE n - m
<1>1. CASE n < m
  BY <1>1, ModSmall
<1>2. CASE n >= m
  <2>1. n % m = n - m * (n \div m) /\ n % m \in 0..m - 1 /\ n \div m \in Int
    BY <1>2
  <2>2. n \div m = 1
    BY <1>2, <2>1
  <2>3. QED
    BY <1>2, <2>1, <2>2
<1>3. QED
  BY <1>1, <1>2

LEMMA Difference ==
  ASSUME NEW t \in 0..ClockMod - 1, NEW u \in 0..ClockMod - 1
  PROVE  (t + ClockMod - u) % ClockMod = IF u <= t THEN t - u ELSE t + ClockMod - u
<1> DEFINE d == t + ClockMod - u
<1>1. d \in Nat /\ d < 2 * ClockMod /\ ClockMod \in Nat
  BY Parameters
<1>2. d % ClockMod = IF d < ClockMod THEN d ELSE d - ClockMod
  <2> HIDE DEF d
  <2>1. QED
    BY <1>1, Wrapped
<1>3. QED
  BY <1>1, <1>2

LEMMA ElapsedType == ASSUME TypeOK PROVE Elapsed \in 0..ClockMod - 1
  BY Difference, Parameters DEF TypeOK, Elapsed

\* The gap is measured from the return of the read.
LEMMA ElapsedRestarts ==
  ASSUME TypeOK, last_byte' = now, now' = now
  PROVE  Elapsed' = 0
<1>1. now \in 0..ClockMod - 1 /\ Elapsed' = (now + ClockMod - now) % ClockMod
  BY DEF TypeOK, Elapsed
<1>2. QED
  BY <1>1, Difference, Parameters

\* It counts ticks, until the clock has gone round.
LEMMA ElapsedGrows ==
  ASSUME TypeOK, now' = (now + 1) % ClockMod, last_byte' = last_byte
  PROVE  /\ Elapsed' \in Nat /\ Elapsed' <= Elapsed + 1
         /\ Elapsed + 1 < ClockMod => Elapsed' = Elapsed + 1
<1>1. now \in 0..ClockMod - 1 /\ last_byte \in 0..ClockMod - 1 /\ ClockMod \in Nat
  BY Parameters DEF TypeOK
<1>2. now' = IF now + 1 < ClockMod THEN now + 1 ELSE 0
  <2> DEFINE n == now + 1
  <2>1. n \in Nat /\ n <= ClockMod /\ ClockMod > 0
    BY <1>1
  <2>2. n % ClockMod = IF n < ClockMod THEN n ELSE 0
    <3> HIDE DEF n
    <3>1. CASE n < ClockMod
      BY <1>1, <2>1, <3>1, ModSmall
    <3>2. CASE n = ClockMod
      BY <1>1, <2>1, <3>2, Wrapped
    <3>3. QED
      BY <1>1, <2>1, <3>1, <3>2
  <2>3. QED
    BY <2>2
<1>3. Elapsed = IF last_byte <= now THEN now - last_byte ELSE now + ClockMod - last_byte
  BY <1>1, Difference DEF Elapsed
<1>4. Elapsed' = IF last_byte <= now' THEN now' - last_byte ELSE now' + ClockMod - last_byte
  <2>1. now' \in 0..ClockMod - 1
    BY <1>1, <1>2
  <2>2. QED
    BY <1>1, <2>1, Difference DEF Elapsed
<1>5. QED
  BY <1>1, <1>2, <1>3, <1>4

-----------------------------------------------------------------------------
(* How far the loop trails behind the meter.                                *)

\* A read that waits has not got what it asked for.  With nothing in the driver
\* the silence measured is at least the time since the read, and longer by no
\* more than a publish held that read up, and one tick for the read itself.
TrailInv ==
    /\ pc = "gap" => source = "sim"
    /\ pc = "read" /\ timedout => Len(rx) < ReadMax
    /\ slow > 0 => source = "uart" /\ quiet = 0 /\ (pc = "read" => ~timedout)
    /\ source = "sim" => rx = <<>> /\ (pc = "read" /\ cycle # <<>> => quiet = 0)
    /\ source = "uart" /\ pc = "publish" =>
        stall <= MaxStall /\ (rx # <<>> => quiet + stall <= MaxStall)
    /\ source = "uart" /\ pc = "read" /\ rx # <<>> =>
        quiet <= MaxStall + IF timedout THEN 1 ELSE 0
    /\ source = "uart" /\ pc = "read" /\ rx = <<>> /\ cycle # <<>> /\ slow = 0 =>
        /\ Elapsed <= Gap /\ (timedout \/ Elapsed < Gap)
        /\ Elapsed <= quiet /\ quiet <= Elapsed + MaxStall + 1

\* What the steps below need of the types.
LEMMA Numbers ==
  ASSUME LoopInv
  PROVE  /\ quiet \in 0..QuietCap /\ QuietCap = MinSilence + Gap + MaxStall /\ QuietCap \in Nat
         /\ stall \in Nat /\ sent \in 0..MaxTelegram /\ tele \in 0..2
         /\ Elapsed \in 0..ClockMod - 1 /\ timedout \in BOOLEAN /\ source \in {"uart", "sim"}
         /\ slow \in 0..MaxTrickle
         /\ rx \in Seq(Chunk) /\ cycle \in Seq(Chunk) /\ Len(rx) \in Nat /\ Len(cycle) \in Nat
  BY Builds, ElapsedType, Parameters DEF LoopInv, TypeOK, QuietCap

LEMMA Counts ==
  ASSUME LoopInv
  PROVE  /\ quiet \in Nat /\ stall \in Nat /\ sent \in Nat /\ Elapsed \in Nat /\ slow \in Nat
         /\ MaxStall \in Nat /\ MaxPause \in Nat /\ MinSilence \in Nat /\ MinTelegram \in Nat
         /\ Gap \in Nat /\ MaxPause < MinSilence /\ Gap < ClockMod /\ ClockMod \in Nat
         /\ quiet <= QuietCap /\ QuietCap = MinSilence + Gap + MaxStall
         /\ source \in {"uart", "sim"} /\ timedout \in BOOLEAN
  BY Numbers, Parameters

\* A sequence cut in two.
LEMMA RestEmpty ==
  ASSUME NEW S, NEW s \in Seq(S), NEW n \in 0..Len(s)
  PROVE  SubSeq(s, n + 1, Len(s)) = <<>> <=> n = Len(s)
<1> DEFINE r == SubSeq(s, n + 1, Len(s))
<1>1. r \in Seq(S) /\ Len(r) = Len(s) - n
  OBVIOUS
<1>2. r = <<>> <=> Len(r) = 0
  <2> HIDE DEF r
  <2>1. QED BY <1>1, EmptySeq
<1>3. QED BY <1>1, <1>2

LEMMA Rejoined ==
  ASSUME NEW S, NEW s \in Seq(S), NEW n \in 0..Len(s)
  PROVE  SubSeq(s, 1, n) \o SubSeq(s, n + 1, Len(s)) = s
<1> DEFINE l == SubSeq(s, 1, n)
           r == SubSeq(s, n + 1, Len(s))
<1>1. l \in Seq(S) /\ Len(l) = n /\ \A i \in 1..n : l[i] = s[i]
  OBVIOUS
<1>2. r \in Seq(S) /\ Len(r) = Len(s) - n /\ \A i \in 1..Len(s) - n : r[i] = s[n + i]
  OBVIOUS
<1>3. QED
  <2> HIDE DEF l, r
  <2>1. /\ l \o r \in Seq(S) /\ Len(l \o r) = Len(s)
        /\ \A i \in 1..Len(s) : (l \o r)[i] = IF i <= n THEN l[i] ELSE r[i - n]
    BY <1>1, <1>2, ConcatProperties
  <2>2. \A i \in 1..Len(s) : (l \o r)[i] = s[i]
    BY <1>1, <1>2, <2>1
  <2>3. l \o r = s
    BY <2>1, <2>2, SeqEqual
  <2>4. QED BY <2>3 DEF l, r

\* What a read takes from the driver, and what it leaves there.
LEMMA ReadTakes ==
  ASSUME LoopInv, ReadBytes
  PROVE  \E bytes \in Seq(Chunk) :
           /\ cycle' = Collected(bytes) /\ bytes \o rx' = rx
           /\ rx' \in Seq(Chunk) /\ bytes # <<>>
           /\ rx' = <<>> <=> Len(rx) <= ReadMax
<1> DEFINE n     == IF Len(rx) < ReadMax THEN Len(rx) ELSE ReadMax
           bytes == SubSeq(rx, 1, n)
<1>1. rx \in Seq(Chunk) /\ n \in 1..Len(rx) /\ (n = Len(rx) <=> Len(rx) <= ReadMax)
  <2>1. rx \in Seq(Chunk) /\ Len(rx) \in Nat /\ rx # <<>> /\ ReadMax \in Nat /\ 1 <= ReadMax
    BY Numbers, Parameters DEF ReadBytes
  <2>2. Len(rx) >= 1
    BY <2>1, EmptySeq
  <2>3. QED BY <2>1, <2>2
<1>2. cycle' = Collected(bytes) /\ rx' = SubSeq(rx, n + 1, Len(rx))
  BY DEF ReadBytes
<1>3. bytes \in Seq(Chunk) /\ Len(bytes) = n /\ SubSeq(rx, n + 1, Len(rx)) \in Seq(Chunk)
  <2> HIDE DEF n
  <2>1. QED BY <1>1
<1>4. SubSeq(rx, n + 1, Len(rx)) = <<>> <=> n = Len(rx)
  <2> HIDE DEF n
  <2>1. n \in 0..Len(rx) BY <1>1
  <2>2. QED BY <1>1, <2>1, RestEmpty, Zenon
<1>5. bytes \o SubSeq(rx, n + 1, Len(rx)) = rx
  <2> HIDE DEF n
  <2>1. n \in 0..Len(rx) BY <1>1
  <2>2. QED BY <1>1, <2>1, Rejoined, Zenon
<1>6. bytes # <<>>
  <2> HIDE DEF n, bytes
  <2>1. Len(bytes) > 0 BY <1>1, <1>3
  <2>2. QED BY <2>1, EmptySeq
<1>7. QED
  <2> HIDE DEF n, bytes
  <2>1. QED BY <1>1, <1>2, <1>3, <1>4, <1>5, <1>6, Zenon

LEMMA TrailReads ==
  ASSUME 1 <= Gap, LoopInv, TrailInv, ReadBytes
  PROVE  TrailInv'
<1>1. /\ pc = "read" /\ pc' = "read" /\ rx # <<>> /\ timedout' = FALSE /\ last_byte' = now
      /\ UNCHANGED <<quiet, slow, source, now, stall>>
  BY DEF ReadBytes, NextPass, meter
<1>2. rx' = <<>> <=> Len(rx) <= ReadMax
  BY ReadTakes, Zenon
<1>3. Elapsed' = 0
  BY <1>1, ElapsedRestarts DEF LoopInv
<1>4. CASE source = "uart"
  <2>1. quiet <= MaxStall + 1 /\ (~timedout => quiet <= MaxStall)
    BY <1>1, <1>4, Numbers, Parameters DEF TrailInv
  <2>2. rx' # <<>> => ~timedout
    <3>1. Len(rx) \in Nat /\ ReadMax \in Nat /\ (timedout => Len(rx) < ReadMax)
      BY <1>1, Numbers, Parameters DEF TrailInv
    <3>2. QED
      BY <1>2, <3>1
  <2>3. quiet \in Nat /\ MaxStall \in Nat /\ Gap \in Nat
    BY Numbers, Parameters
  <2>4. QED
    BY <1>1, <1>3, <1>4, <2>1, <2>2, <2>3 DEF TrailInv
<1>5. CASE source = "sim"
  BY <1>1, <1>5 DEF TrailInv
<1>6. QED
  BY <1>4, <1>5, Numbers

LEMMA TrailPauses ==
  ASSUME LoopInv, TrailInv, ReadNothing \/ Published
  PROVE  TrailInv'
<1> USE Numbers, Parameters
<1>1. CASE ReadNothing
  <2>1. /\ pc = "read" /\ source = "uart" /\ rx = <<>> /\ timedout
        /\ UNCHANGED <<source, quiet, slow, rx, cycle, now, last_byte>>
    BY <1>1 DEF ReadNothing, StillQuiet, Decode, meter
  <2>2. CASE StillQuiet
    <3>1. cycle # <<>> => Elapsed < Gap
      BY <2>2 DEF StillQuiet, CycleEnded, Elapsed
    <3>2. Elapsed' = Elapsed /\ pc' = "read" /\ timedout' = FALSE
      BY <2>1, <2>2 DEF Elapsed, StillQuiet, NextPass
    <3>3. QED
      BY <2>1, <3>1, <3>2 DEF TrailInv
  <2>3. CASE Decode
    <3>1. pc' = "publish" /\ stall' <= MaxStall
      BY <2>3 DEF Decode
    <3>2. QED
      BY <2>1, <3>1 DEF TrailInv
  <2>4. QED
    BY <1>1, <2>2, <2>3 DEF ReadNothing
<1>2. CASE Published
  <2>1. /\ pc = "publish" /\ pc' = "read" /\ stall = 0 /\ cycle' = <<>> /\ timedout' = FALSE
        /\ UNCHANGED <<source, quiet, slow, rx>>
    BY <1>2 DEF Published, NextPass, meter
  <2>2. QED
    BY <2>1 DEF TrailInv
<1>3. QED
  BY <1>1, <1>2

LEMMA TrailSim ==
  ASSUME LoopInv, TrailInv, SimRead \/ SimGapBegins \/ SimGapEnds
  PROVE  TrailInv'
<1>1. source = "sim" /\ source' = source /\ rx' = rx /\ rx = <<>> /\ slow' = slow
  BY DEF SimRead, SimGapBegins, SimGapEnds, Decode, Rewind, TrailInv, meter
<1>2. pc' = "read" => quiet' = 0 /\ timedout' = FALSE
  BY DEF SimRead, SimGapBegins, SimGapEnds, Decode, NextPass
<1>3. QED
  BY <1>1, <1>2 DEF TrailInv

\* A chunk that arrives finds room, or a driver that is full and not empty.
LEMMA Arrived ==
  ASSUME 1 <= RxBuffer, rx \in Seq(Chunk), NEW t \in 0..2, NEW i \in 1..MaxTelegram, Arrives(t, i)
  PROVE  rx' # <<>> /\ quiet' = 0
<1>1. [tele |-> t, idx |-> i] \in Chunk
  BY DEF Chunk
<1>2. CASE Len(rx) < RxBuffer
  <2>1. rx' = Append(rx, [tele |-> t, idx |-> i])
    BY <1>2 DEF Arrives
  <2>2. Len(rx') = Len(rx) + 1 /\ Len(rx) \in Nat
    BY <1>1, <2>1
  <2>3. QED
    BY <2>2 DEF Arrives
<1>3. CASE ~(Len(rx) < RxBuffer)
  <2>1. rx' = rx /\ Len(rx) # 0
    BY <1>3, Parameters DEF Arrives
  <2>2. QED
    BY <2>1 DEF Arrives
<1>4. QED
  BY <1>2, <1>3

LEMMA TrailTime ==
  ASSUME 1 <= RxBuffer, LoopInv, TrailInv, Tick
  PROVE  TrailInv'
<1> USE Numbers, Parameters
<1>1. /\ Blocked /\ UNCHANGED <<pc, cycle, last_byte, source>>
      /\ stall' = IF stall > 0 THEN stall - 1 ELSE 0
      /\ now' = (now + 1) % ClockMod
  BY DEF Tick, loop
<1>2. /\ Elapsed' <= Elapsed + 1
      /\ Elapsed + 1 < ClockMod => Elapsed' = Elapsed + 1
  BY <1>1, ElapsedGrows DEF LoopInv
<1>3. CASE source = "uart" /\ (NextChunk \/ NextTelegram) /\ UNCHANGED timedout
  <2>1. PICK t \in 0..2, i \in 1..MaxTelegram : Arrives(t, i)
    BY <1>3 DEF NextChunk, NextTelegram
  <2>2. rx' # <<>> /\ quiet' = 0 /\ slow' = 0
    BY <2>1, Arrived DEF Arrives
  <2>3. CASE pc = "read"
    <3>1. ~timedout' /\ pc' = "read" /\ source' = "uart"
      BY <1>1, <1>3, <2>3 DEF Blocked
    <3>2. quiet' <= MaxStall
      BY <2>2
    <3>3. QED
      BY <2>2, <3>1, <3>2 DEF TrailInv
  <2>4. CASE pc = "publish"
    <3>1. stall <= MaxStall /\ stall > 0
      BY <1>1, <1>3, <2>4 DEF TrailInv, Blocked
    <3>2. stall' <= MaxStall /\ quiet' + stall' <= MaxStall
      BY <1>1, <2>2, <3>1
    <3>3. QED
      BY <1>1, <1>3, <2>2, <2>4, <3>2 DEF TrailInv
  <2>5. QED
    BY <1>1, <1>3, <2>3, <2>4 DEF TrailInv, Blocked
<1>4. CASE MeterSilent /\ timedout' = (pc = "read")
  <2>1. /\ rx' = rx /\ quiet' = IF quiet < QuietCap THEN quiet + 1 ELSE quiet
        /\ slow = 0 /\ slow' = 0
    BY <1>4 DEF MeterSilent
  <2>2. CASE source = "uart" /\ pc = "read"
    <3>1. Len(rx) < ReadMax /\ ~timedout /\ timedout'
      BY <1>1, <1>4, <2>2 DEF Blocked
    <3>2. CASE rx = <<>> /\ cycle # <<>>
      <4>1. Elapsed < Gap /\ Elapsed <= quiet /\ quiet <= Elapsed + MaxStall + 1
        BY <2>1, <2>2, <3>1, <3>2 DEF TrailInv
      <4>2. Elapsed' = Elapsed + 1
        BY <1>2, <4>1
      <4>3. Elapsed' <= quiet' /\ quiet' <= Elapsed' + MaxStall + 1 /\ Elapsed' <= Gap
        BY <2>1, <4>1, <4>2
      <4>4. QED
        BY <1>1, <2>1, <2>2, <3>1, <3>2, <4>3 DEF TrailInv
    <3>3. CASE rx # <<>>
      <4>1. quiet' <= MaxStall + 1
        BY <2>1, <2>2, <3>1, <3>3 DEF TrailInv
      <4>2. QED
        BY <1>1, <2>1, <2>2, <3>1, <3>3, <4>1 DEF TrailInv
    <3>4. CASE rx = <<>> /\ cycle = <<>>
      BY <1>1, <2>1, <2>2, <3>1, <3>4 DEF TrailInv
    <3>5. QED
      BY <3>2, <3>3, <3>4
  <2>3. CASE source = "uart" /\ pc = "publish"
    BY <1>1, <2>1, <2>3 DEF TrailInv, Blocked
  <2>4. CASE source = "sim"
    <3>1. pc # "read" /\ pc' # "read"
      BY <1>1, <2>4 DEF Blocked
    <3>2. QED
      BY <1>1, <2>1, <2>4, <3>1 DEF TrailInv
  <2>5. QED
    BY <1>1, <2>2, <2>3, <2>4 DEF Blocked, TrailInv
<1>5. CASE source = "uart" /\ Trickles /\ UNCHANGED timedout
  <2>1. rx' = rx /\ quiet' = 0 /\ slow' = slow + 1 /\ slow' # 0 /\ slow' > 0
    BY <1>5 DEF Trickles
  <2>2. CASE pc = "read"
    BY <1>1, <1>5, <2>1, <2>2 DEF TrailInv, Blocked
  <2>3. CASE pc = "publish"
    BY <1>1, <1>5, <2>1, <2>3 DEF TrailInv, Blocked
  <2>4. QED
    BY <1>1, <1>5, <2>2, <2>3 DEF Blocked, TrailInv
<1>6. QED
  BY <1>3, <1>4, <1>5 DEF Tick

LEMMA TrailInit == Init => TrailInv
  BY DEF Init, TrailInv

LEMMA TrailStep ==
  ASSUME 1 <= Gap, 1 <= RxBuffer, LoopInv, TrailInv, [Next]_vars
  PROVE  TrailInv'
<1>1. CASE UNCHANGED vars
  BY <1>1 DEF TrailInv, Elapsed, vars, loop, meter
<1>2. QED
  BY <1>1, TrailReads, TrailPauses, TrailSim, TrailTime DEF Next, Loop

\* A burst that has ended is decoded within two reads of the gap and what the
\* publish before it held the loop up, in both builds and also where the clock
\* wraps: the loop never waits for a silence that it has already heard.
THEOREM DecodedPromptly ==
  ASSUME 1 <= Gap, 1 <= RxBuffer
  PROVE  Spec => []PromptDecode
<1>1. LoopInv /\ TrailInv => PromptDecode
  <2> SUFFICES ASSUME LoopInv, TrailInv, cycle # <<>>, pc = "read"
               PROVE  quiet <= Gap + 2 + MaxStall
    BY DEF PromptDecode
  <2> USE Numbers, Parameters
  <2>1. CASE source = "uart"
    <3>1. CASE slow = 0
      BY <2>1, <3>1 DEF TrailInv
    <3>2. CASE slow > 0
      BY <3>2 DEF TrailInv
    <3>3. QED
      BY <3>1, <3>2
  <2>2. CASE source = "sim"
    BY <2>2 DEF TrailInv
  <2>3. QED
    BY <2>1, <2>2
<1>2. LoopInv /\ TrailInv /\ [Next]_vars => TrailInv'
  BY TrailStep
<1>3. QED
  BY <1>1, <1>2, TrailInit, LoopInit, LoopStep, PTL DEF Spec

-----------------------------------------------------------------------------
(* What of a telegram is where.                                             *)

\* The first n chunks of telegram t.
Whole(t, n) == [i \in 1..n |-> [tele |-> t, idx |-> i]]

\* A complete telegram that arrived during a publish has been over for less
\* than this when the loop reads again: its own length is part of the stall.
Late == IF MaxStall < MinTelegram THEN 1 ELSE MaxStall - MinTelegram + 1

\* The cycle and what is still in the driver are together what the meter has
\* sent of its current telegram, and a telegram that is over has been over for
\* too short a time for the next one to have begun.
TelegramInv ==
    /\ Unfinished => quiet <= MaxPause
    /\ source = "uart" /\ pc = "publish" =>
        IF rx = <<>> THEN quiet > MaxPause
        ELSE rx = Whole(tele, sent) /\ sent >= 1 /\ sent + quiet + stall <= MaxStall
    /\ source = "uart" /\ pc = "read" =>
        IF cycle = <<>> /\ rx = <<>> THEN quiet > MaxPause
        ELSE /\ cycle \o rx = Whole(tele, sent) /\ sent >= 1
             /\ IF rx = <<>> THEN Unfinished \/ quiet <= Elapsed + Late
                ELSE Unfinished \/ quiet < Late + IF timedout THEN 1 ELSE 0
    /\ source = "sim" =>
        /\ pc = "read" => cycle = Whole(tele, sent) /\ (gap_pending => Elapsed = 0)
        /\ pc = "gap" => cycle = Whole(tele, sent) /\ (Elapsed <= quiet \/ quiet >= MinSilence)
        /\ pc = "publish" => sent = 0 /\ ~gap_pending

LEMMA WholeType ==
  ASSUME NEW t \in 0..2, NEW n \in 0..MaxTelegram
  PROVE  Whole(t, n) \in Seq(Chunk) /\ Len(Whole(t, n)) = n
<1>1. n \in Nat /\ \A i \in 1..n : [tele |-> t, idx |-> i] \in Chunk
  BY Parameters DEF Chunk
<1>2. Whole(t, n) \in [1..n -> Chunk]
  BY <1>1 DEF Whole
<1>3. QED
  BY <1>1, <1>2

LEMMA WholeEmpty == \A t : Whole(t, 0) = <<>>
  BY DEF Whole

LEMMA WholeGrows ==
  ASSUME NEW t \in 0..2, NEW n \in 0..MaxTelegram - 1
  PROVE  Append(Whole(t, n), [tele |-> t, idx |-> n + 1]) = Whole(t, n + 1)
<1> DEFINE c == [tele |-> t, idx |-> n + 1]
           s == Append(Whole(t, n), c)
<1>1. n \in 0..MaxTelegram /\ n + 1 \in 0..MaxTelegram /\ n \in Nat /\ c \in Chunk
  BY Parameters DEF Chunk
<1>2. /\ Whole(t, n) \in Seq(Chunk) /\ Len(Whole(t, n)) = n
      /\ Whole(t, n + 1) \in Seq(Chunk) /\ Len(Whole(t, n + 1)) = n + 1
  BY <1>1, WholeType
<1>3. /\ \A i \in 1..n : Whole(t, n)[i] = [tele |-> t, idx |-> i]
      /\ \A i \in 1..n + 1 : Whole(t, n + 1)[i] = [tele |-> t, idx |-> i]
  BY <1>1 DEF Whole
<1>4. /\ s \in Seq(Chunk) /\ Len(s) = n + 1
      /\ \A i \in 1..n : s[i] = Whole(t, n)[i]
      /\ s[n + 1] = c
  <2> HIDE DEF c
  <2>1. QED BY <1>1, <1>2
<1>5. \A i \in 1..n + 1 : s[i] = Whole(t, n + 1)[i]
  <2> HIDE DEF s
  <2>1. TAKE i \in 1..n + 1
  <2>2. CASE i = n + 1 BY <1>1, <1>3, <1>4, <2>2
  <2>3. CASE i # n + 1
    <3>1. i \in 1..n BY <1>1, <2>3
    <3>2. QED BY <1>3, <1>4, <3>1
  <2>4. QED BY <2>2, <2>3
<1>6. s = Whole(t, n + 1)
  <2> HIDE DEF s
  <2>1. QED BY <1>2, <1>4, <1>5, SeqEqual
<1>7. QED BY <1>6

\* One more chunk behind what is there.
LEMMA OneMore ==
  ASSUME NEW s \in Seq(Chunk), NEW r \in Seq(Chunk), NEW c \in Chunk
  PROVE  s \o Append(r, c) = Append(s \o r, c)
<1>1. Append(r, c) = r \o <<c>> /\ Append(s \o r, c) = (s \o r) \o <<c>>
  BY AppendIsConcat, ConcatProperties
<1>2. <<c>> \in Seq(Chunk)
  OBVIOUS
<1>3. s \o (r \o <<c>>) = (s \o r) \o <<c>>
  BY <1>2, ConcatAssociative
<1>4. QED
  BY <1>1, <1>3

\* The meter's pauses inside a telegram are shorter than the gap and its pauses
\* between telegrams longer; a publish is over, and the gap measured anew,
\* before the telegram after the one that arrived meanwhile; a telegram fits
\* the driver's buffer and the cycle buffer.
Timing ==
    /\ MaxPause < Gap /\ Gap < MinSilence
    /\ MaxStall + Gap < MinSilence + MinTelegram
    /\ MaxTelegram <= RxBuffer /\ MaxTelegram <= MaxCycle

LEMMA TimingNumbers ==
  ASSUME Timing
  PROVE  /\ 1 <= Gap /\ 1 <= RxBuffer
         /\ Late \in Nat /\ 1 <= Late /\ Late + Gap <= MinSilence
         /\ MaxStall - MinTelegram < Late
  BY Parameters DEF Timing, Late

\* What the loop may rely on in every step.
LEMMA Sent ==
  ASSUME LoopInv
  PROVE  Whole(tele, sent) \in Seq(Chunk) /\ Len(Whole(tele, sent)) = sent
  BY Numbers, WholeType

\* A read moves bytes from the driver to the cycle and loses none.
LEMMA Collecting ==
  ASSUME Timing, LoopInv, NEW bytes \in Seq(Chunk), NEW rest \in Seq(Chunk),
         cycle \o (bytes \o rest) = Whole(tele, sent)
  PROVE  Collected(bytes) \o rest = Whole(tele, sent)
<1>1. cycle \in Seq(Chunk) /\ sent <= MaxCycle /\ sent \in Nat /\ MaxCycle \in Nat
  BY Numbers, Parameters DEF Timing
<1>2. (cycle \o bytes) \o rest = Whole(tele, sent)
  <2>1. (cycle \o bytes) \o rest = cycle \o (bytes \o rest)
    <3>1. \A s, t, u \in Seq(Chunk) : (s \o t) \o u = s \o (t \o u)
      BY ConcatAssociative
    <3>2. QED
      BY <1>1, <3>1, Zenon
  <2>2. QED
    BY <2>1, Zenon
<1>3. Len(cycle) + Len(bytes) + Len(rest) = sent
  <2>1. bytes \o rest \in Seq(Chunk) /\ Len(bytes \o rest) = Len(bytes) + Len(rest)
    BY ConcatProperties
  <2>2. Len(cycle \o (bytes \o rest)) = Len(cycle) + Len(bytes \o rest)
    BY <1>1, <2>1, ConcatProperties
  <2>3. Len(Whole(tele, sent)) = sent
    BY Sent
  <2>4. Len(cycle) \in Nat /\ Len(bytes) \in Nat /\ Len(rest) \in Nat
    BY <1>1
  <2>5. QED
    BY <2>1, <2>2, <2>3, <2>4
<1>4. ~(Len(cycle) + Len(bytes) > MaxCycle)
  <2>1. Len(cycle) \in Nat /\ Len(bytes) \in Nat /\ Len(rest) \in Nat
    BY <1>1
  <2>2. QED
    BY <1>1, <1>3, <2>1
<1>5. QED
  BY <1>2, <1>4 DEF Collected

\* Nothing of the telegram has been lost while any of it is still to be read.
LEMMA Together ==
  ASSUME TelegramInv, LoopInv, source = "uart", rx # <<>>
  PROVE  /\ pc = "read" => cycle \o rx = Whole(tele, sent) /\ sent >= 1
         /\ pc = "publish" => rx = Whole(tele, sent) /\ sent >= 1
  BY DEF TelegramInv

LEMMA TelegramReads ==
  ASSUME Timing, LoopInv, TrailInv, TelegramInv, ReadBytes
  PROVE  TelegramInv'
<1>1. /\ pc = "read" /\ pc' = "read" /\ rx # <<>> /\ timedout' = FALSE /\ last_byte' = now
      /\ UNCHANGED <<quiet, source, now, stall, tele, sent>>
  BY DEF ReadBytes, NextPass, meter
<1>2. PICK bytes \in Seq(Chunk) : /\ cycle' = Collected(bytes) /\ bytes \o rx' = rx
                                  /\ rx' \in Seq(Chunk) /\ bytes # <<>>
                                  /\ rx' = <<>> <=> Len(rx) <= ReadMax
  BY ReadTakes
<1>3. source = "uart"
  BY <1>1, Numbers DEF TrailInv
<1>4. cycle' \o rx' = Whole(tele, sent)
  <2>1. cycle \o (bytes \o rx') = Whole(tele, sent)
    BY <1>1, <1>2, <1>3, Together
  <2>2. Collected(bytes) \o rx' = Whole(tele, sent)
    BY <1>2, <2>1, Collecting
  <2>3. QED
    BY <1>2, <2>2
<1>5. ~(cycle' = <<>> /\ rx' = <<>>)
  <2> SUFFICES ASSUME cycle' = <<>>, rx' = <<>> PROVE FALSE
    OBVIOUS
  <2>1. <<>> \o <<>> = Whole(tele, sent)
    BY <1>4, Zenon
  <2>2. Len(<<>> \o <<>>) = 0
    BY ConcatProperties
  <2>3. Len(Whole(tele, sent)) = 0
    BY <2>1, <2>2, Zenon
  <2>4. QED
    BY <1>1, <1>3, <2>3, Sent, Together, Numbers
<1>6. sent >= 1 /\ Unfinished' = Unfinished
  BY <1>1, <1>3, Together DEF Unfinished
<1>7. Elapsed' = 0
  BY <1>1, ElapsedRestarts DEF LoopInv
<1>8. rx' # <<>> => ~timedout
  <2>1. Len(rx) \in Nat /\ ReadMax \in Nat /\ (timedout => Len(rx) < ReadMax)
    BY <1>1, Numbers, Parameters DEF TrailInv
  <2>2. QED
    BY <1>2, <2>1
<1>9. IF rx' = <<>> THEN Unfinished \/ quiet <= Late ELSE Unfinished \/ quiet < Late
  <2>1. Unfinished \/ quiet < Late + IF timedout THEN 1 ELSE 0
    BY <1>1, <1>3 DEF TelegramInv
  <2>2. Late \in Nat /\ quiet \in Nat
    BY TimingNumbers, Numbers
  <2>3. QED
    BY <1>8, <2>1, <2>2
<1>10. QED
  <2>1. Unfinished' => quiet' <= MaxPause
    BY <1>1, <1>6 DEF TelegramInv
  <2>2. Late \in Nat /\ quiet \in Nat /\ Late' = Late /\ MaxPause' = MaxPause
    BY TimingNumbers, Numbers DEF Late
  <2>3. IF rx' = <<>> THEN Unfinished' \/ quiet' <= Elapsed' + Late
        ELSE Unfinished' \/ quiet' < Late + IF timedout' THEN 1 ELSE 0
    BY <1>1, <1>6, <1>7, <1>9, <2>2
  <2>4. cycle' \o rx' = Whole(tele', sent') /\ sent' >= 1
    BY <1>1, <1>4, <1>6
  <2>5. QED
    BY <1>1, <1>3, <1>5, <2>1, <2>2, <2>3, <2>4, Zenon DEF TelegramInv

\* Where the production build decodes: the silence has lasted as long as the
\* gap, so the telegram is over and all of it has been collected.
LEMMA AllCollected ==
  ASSUME Timing, LoopInv, TrailInv, TelegramInv, ReadNothing, Decode
  PROVE  cycle = Whole(tele, sent) /\ quiet > MaxPause
<1>1. pc = "read" /\ source = "uart" /\ rx = <<>> /\ cycle # <<>> /\ Elapsed >= Gap
  BY DEF ReadNothing, Decode, CycleEnded, Elapsed
<1>2. quiet > MaxPause
  <2>1. timedout /\ slow \in Nat
    BY Numbers DEF ReadNothing
  <2>2. slow = 0
    BY <1>1, <2>1 DEF TrailInv
  <2>3. QED
    BY <1>1, <2>2, Numbers, Parameters DEF TrailInv, Timing
<1>3. cycle \o <<>> = Whole(tele, sent)
  BY <1>1 DEF TelegramInv
<1>4. cycle \o <<>> = cycle
  BY Numbers, ConcatEmptySeq
<1>5. QED
  BY <1>2, <1>3, <1>4

LEMMA TelegramPauses ==
  ASSUME Timing, LoopInv, TrailInv, TelegramInv, ReadNothing \/ Published
  PROVE  TelegramInv'
<1> USE Numbers, Parameters, TimingNumbers
<1>1. UNCHANGED <<tele, sent, quiet, rx, source, now, last_byte>>
  BY DEF ReadNothing, StillQuiet, Decode, Published, meter
<1>2. /\ Unfinished' = Unfinished /\ Elapsed' = Elapsed /\ Late' = Late
      /\ (Unfinished' => quiet' <= MaxPause)
  BY <1>1 DEF Unfinished, Elapsed, Late, TelegramInv
<1>3. CASE ReadNothing
  <2>1. pc = "read" /\ source = "uart" /\ rx = <<>>
    BY <1>3 DEF ReadNothing
  <2>2. CASE StillQuiet
    <3>1. pc' = "read" /\ cycle' = cycle
      BY <2>2 DEF StillQuiet
    <3>2. QED
      BY <1>1, <1>2, <2>1, <3>1, Zenon DEF TelegramInv
  <2>3. CASE Decode
    <3>1. pc' = "publish" /\ quiet > MaxPause
      BY <1>3, <2>3, AllCollected DEF Decode
    <3>2. QED
      BY <1>1, <1>2, <2>1, <3>1 DEF TelegramInv
  <2>4. QED
    BY <1>3, <2>2, <2>3 DEF ReadNothing
<1>4. CASE Published
  <2>1. pc = "publish" /\ pc' = "read" /\ stall = 0 /\ cycle' = <<>> /\ timedout' = FALSE /\ gap_pending' = gap_pending
    BY <1>4 DEF Published, NextPass
  <2>2. CASE source = "uart" /\ rx = <<>>
    BY <1>1, <1>2, <2>1, <2>2 DEF TelegramInv
  <2>3. CASE source = "uart" /\ rx # <<>>
    <3>1. rx = Whole(tele, sent) /\ sent >= 1 /\ sent + quiet <= MaxStall
      BY <2>1, <2>3 DEF TelegramInv
    <3>2. <<>> \o rx = rx
      BY ConcatEmptySeq
    <3>3. Unfinished \/ quiet < Late
      BY <3>1 DEF Unfinished
    <3>4. cycle' \o rx' = Whole(tele', sent')
      BY <1>1, <2>1, <3>1, <3>2
    <3>5. QED
      BY <1>1, <1>2, <2>1, <2>3, <3>1, <3>3, <3>4 DEF TelegramInv
  <2>4. CASE source = "sim"
    <3>1. sent = 0 /\ ~gap_pending
      BY <2>1, <2>4 DEF TelegramInv
    <3>2. cycle' = Whole(tele', sent')
      BY <1>1, <2>1, <3>1, WholeEmpty
    <3>3. QED
      BY <1>1, <1>2, <2>1, <2>4, <3>1, <3>2 DEF TelegramInv
  <2>5. QED
    BY <2>2, <2>3, <2>4
<1>5. QED
  BY <1>3, <1>4

LEMMA TelegramSim ==
  ASSUME Timing, LoopInv, TrailInv, TelegramInv, SimRead \/ SimGapBegins \/ SimGapEnds
  PROVE  TelegramInv'
<1> USE Numbers, Parameters, TimingNumbers
<1>1. source = "sim" /\ source' = source
  BY DEF SimRead, SimGapBegins, SimGapEnds, Decode, TrailInv
<1>2. CASE SimRead
  <2> DEFINE c == [tele |-> tele, idx |-> sent + 1]
  <2>1. /\ pc = "read" /\ pc' = "read" /\ ~gap_pending /\ sent' = sent + 1 /\ quiet' = 0
        /\ cycle' = Collected(<<c>>) /\ last_byte' = now /\ UNCHANGED <<tele, now>>
    BY <1>2 DEF SimRead
  <2>2. Elapsed' = 0
    BY <2>1, ElapsedRestarts DEF LoopInv
  <2>3. sent \in 0..MaxTelegram - 1 /\ c \in Chunk
    BY <1>1, <2>1 DEF LoopInv, SimInv, Chunk
  <2>4. cycle = Whole(tele, sent)
    BY <1>1, <2>1 DEF TelegramInv
  <2>5. cycle' = Append(cycle, c)
    <3>1. Len(cycle) = sent /\ Len(<<c>>) = 1
      BY <2>4, Sent
    <3>2. ~(Len(cycle) + Len(<<c>>) > MaxCycle)
      <4>1. sent \in Nat /\ sent + 1 <= MaxCycle
        BY <2>3 DEF Timing
      <4>2. QED
        BY <3>1, <4>1
    <3>3. cycle' = cycle \o <<c>>
      BY <2>1, <3>2 DEF Collected
    <3>4. Append(cycle, c) = cycle \o <<c>>
      BY <2>3, AppendIsConcat
    <3>5. QED
      BY <3>3, <3>4
  <2>6. cycle' = Whole(tele', sent')
    BY <2>1, <2>3, <2>4, <2>5, WholeGrows
  <2>7. QED
    BY <1>1, <2>1, <2>2, <2>6 DEF TelegramInv
<1>3. CASE SimGapBegins
  <2>1. /\ pc = "read" /\ gap_pending /\ pc' = "gap"
        /\ UNCHANGED <<cycle, tele, sent, quiet, now, last_byte>>
    BY <1>3 DEF SimGapBegins, meter
  <2>2. cycle' = Whole(tele', sent') /\ Elapsed' = 0 /\ Unfinished' = Unfinished
    BY <1>1, <2>1 DEF TelegramInv, Elapsed, Unfinished
  <2>3. QED
    BY <1>1, <2>1, <2>2 DEF TelegramInv
<1>4. CASE SimGapEnds
  <2>1. pc' = "publish" /\ sent' = 0 /\ ~gap_pending'
    BY <1>4 DEF SimGapEnds, Decode, Rewind
  <2>2. QED
    BY <1>1, <2>1 DEF TelegramInv, Unfinished
<1>5. QED
  BY <1>2, <1>3, <1>4

\* A chunk that the driver has room for.
LEMMA Stored ==
  ASSUME LoopInv, NEW t \in 0..2, NEW i \in 1..MaxTelegram, Arrives(t, i), Len(rx) < RxBuffer
  PROVE  /\ rx' = Append(rx, [tele |-> t, idx |-> i]) /\ rx' # <<>>
         /\ [tele |-> t, idx |-> i] \in Chunk
         /\ tele' = t /\ sent' = i /\ quiet' = 0
<1>1. [tele |-> t, idx |-> i] \in Chunk /\ rx \in Seq(Chunk)
  BY Numbers DEF Chunk
<1>2. rx' = Append(rx, [tele |-> t, idx |-> i])
  BY DEF Arrives
<1>3. Append(rx, [tele |-> t, idx |-> i]) # <<>>
  BY <1>1
<1>4. QED
  BY <1>1, <1>2, <1>3 DEF Arrives

\* The next chunk of the telegram that is being read.
LEMMA ChunkFollows ==
  ASSUME Timing, LoopInv, TelegramInv, source = "uart", NextChunk
  PROVE  /\ pc = "read" /\ ~(cycle = <<>> /\ rx = <<>>) => cycle \o rx' = Whole(tele', sent')
         /\ pc = "publish" /\ rx # <<>> => rx' = Whole(tele', sent')
         /\ rx' # <<>> /\ quiet' = 0 /\ sent' = sent + 1 /\ tele' = tele
<1> USE Numbers, Parameters
<1> DEFINE c == [tele |-> tele, idx |-> sent + 1]
<1>1. sent \in 0..MaxTelegram - 1 /\ sent > 0 /\ Arrives(tele, sent + 1)
  BY DEF NextChunk
<1>2. Append(Whole(tele, sent), c) = Whole(tele, sent + 1)
  BY <1>1, WholeGrows
<1>3. CASE pc = "read" /\ ~(cycle = <<>> /\ rx = <<>>)
  <2>1. cycle \o rx = Whole(tele, sent)
    BY <1>3 DEF TelegramInv
  <2>2. Len(cycle) + Len(rx) = sent
    <3>1. Len(cycle \o rx) = Len(cycle) + Len(rx)
      BY ConcatProperties
    <3>2. QED
      BY <2>1, <3>1, Sent
  <2>3. Len(rx) < RxBuffer
    BY <1>1, <2>2 DEF Timing
  <2>4. /\ rx' = Append(rx, c) /\ rx' # <<>> /\ c \in Chunk
        /\ tele' = tele /\ sent' = sent + 1 /\ quiet' = 0
    BY <1>1, <2>3, Stored
  <2>5. cycle \o Append(rx, c) = Append(cycle \o rx, c)
    <3>1. \A s, r \in Seq(Chunk), d \in Chunk : s \o Append(r, d) = Append(s \o r, d)
      BY OneMore
    <3>2. QED
      BY <2>4, <3>1, Zenon
  <2>6. cycle \o rx' = Whole(tele', sent')
    BY <1>2, <2>1, <2>4, <2>5, Zenon
  <2>7. QED
    BY <1>3, <2>4, <2>6
<1>4. CASE pc # "read" /\ rx # <<>>
  <2>1. CASE pc = "publish"
    <3>1. rx = Whole(tele, sent) /\ Len(rx) = sent
      BY <1>4, <2>1, Sent DEF TelegramInv
    <3>2. Len(rx) < RxBuffer
      BY <1>1, <3>1 DEF Timing
    <3>3. /\ rx' = Append(rx, c) /\ rx' # <<>>
          /\ tele' = tele /\ sent' = sent + 1 /\ quiet' = 0
      BY <1>1, <3>2, Stored
    <3>4. QED
      BY <1>2, <1>4, <3>1, <3>3
  <2>2. CASE pc # "publish"
    <3>1. rx' # <<>> /\ quiet' = 0
      BY <1>1, TimingNumbers, Arrived
    <3>2. QED
      BY <1>1, <1>4, <2>2, <3>1 DEF Arrives
  <2>3. QED
    BY <2>1, <2>2
<1>5. CASE rx = <<>>
  <2>1. rx' # <<>> /\ quiet' = 0
    BY <1>1, TimingNumbers, Arrived
  <2>2. QED
    BY <1>1, <1>3, <1>5, <2>1 DEF Arrives
<1>6. QED
  BY <1>3, <1>4, <1>5

\* The first chunk of a telegram finds the driver empty.
LEMMA TelegramBegins ==
  ASSUME Timing, LoopInv, NextTelegram, rx = <<>>
  PROVE  rx' = Whole(tele', sent') /\ rx' # <<>> /\ quiet' = 0 /\ sent' = 1
<1> USE Numbers, Parameters
<1> DEFINE t == (tele + 1) % 3
           c == [tele |-> t, idx |-> 1]
<1>1. t \in 0..2 /\ 1 \in 1..MaxTelegram /\ Arrives(t, 1)
  BY ModRange DEF NextTelegram
<1>2. Len(rx) < RxBuffer
  <2>1. Len(rx) = 0
    OBVIOUS
  <2>2. QED
    BY <2>1 DEF Timing
<1>3. rx' = Append(<<>>, c) /\ rx' # <<>> /\ tele' = t /\ sent' = 1 /\ quiet' = 0
  <2> HIDE DEF t
  <2>1. QED
    BY <1>1, <1>2, Stored
<1>4. Append(Whole(t, 0), c) = Whole(t, 1)
  <2> HIDE DEF t
  <2>1. 0 \in 0..MaxTelegram - 1 /\ 0 + 1 = 1
    OBVIOUS
  <2>2. \A n \in 0..MaxTelegram - 1 :
          Append(Whole(t, n), [tele |-> t, idx |-> n + 1]) = Whole(t, n + 1)
    BY <1>1, WholeGrows
  <2>3. Append(Whole(t, 0), [tele |-> t, idx |-> 0 + 1]) = Whole(t, 0 + 1)
    BY <2>1, <2>2, Zenon
  <2>4. QED
    BY <2>3
<1>5. QED
  <2> HIDE DEF t
  <2>1. QED
    BY <1>3, <1>4, WholeEmpty

\* No telegram begins while any of the one before is unread: this is where the
\* length of a publish matters.
LEMMA NoneBegins ==
  ASSUME Timing, LoopInv, TrailInv, TelegramInv, source = "uart", Blocked, NextTelegram
  PROVE  rx = <<>> /\ (pc = "read" => cycle = <<>>)
<1> USE Numbers, Parameters, TimingNumbers
<1>1. quiet >= MinSilence /\ ~Unfinished
  BY DEF NextTelegram, TelegramInv
<1>2. pc = "read" \/ pc = "publish"
  BY DEF Blocked, TrailInv
<1>3. CASE pc = "read"
  <2>1. ~timedout /\ slow = 0
    BY <1>1, <1>3 DEF Blocked, TrailInv
  <2>2. ASSUME rx # <<>> PROVE FALSE
    <3>1. quiet < Late
      BY <1>1, <1>3, <2>1, <2>2 DEF TelegramInv
    <3>2. QED
      BY <1>1, <3>1
  <2>3. ASSUME rx = <<>>, cycle # <<>> PROVE FALSE
    <3>1. quiet <= Elapsed + Late
      BY <1>1, <1>3, <2>3 DEF TelegramInv
    <3>2. Elapsed < Gap
      BY <1>3, <2>1, <2>3 DEF TrailInv
    <3>3. QED
      BY <1>1, <3>1, <3>2
  <2>4. QED
    BY <2>2, <2>3
<1>4. CASE pc = "publish"
  <2>1. ASSUME rx # <<>> PROVE FALSE
    <3>1. sent >= 1 /\ sent + quiet + stall <= MaxStall
      BY <1>4, <2>1 DEF TelegramInv
    <3>2. /\ sent \in Nat /\ quiet \in Nat /\ stall \in Nat /\ MaxStall \in Nat
          /\ MinTelegram \in Nat /\ MinSilence \in Nat /\ Gap \in Nat
      BY Counts
    <3>3. sent >= MinTelegram
      BY <1>1, <3>1, <3>2 DEF Unfinished
    <3>4. MaxStall + Gap < MinSilence + MinTelegram
      BY DEF Timing
    <3>5. QED
      BY <1>1, <3>1, <3>2, <3>3, <3>4
  <2>2. QED
    BY <1>4, <2>1
<1>5. QED
  BY <1>2, <1>3, <1>4

LEMMA TelegramArrives ==
  ASSUME Timing, LoopInv, LoopInv', TrailInv, TelegramInv, Tick,
         source = "uart", NextChunk \/ NextTelegram, UNCHANGED timedout
  PROVE  TelegramInv'
<1>1. /\ Blocked /\ UNCHANGED <<pc, cycle, source, gap_pending>>
      /\ stall' = IF stall > 0 THEN stall - 1 ELSE 0
  BY DEF Tick, loop
<1>2. pc = "read" \/ (pc = "publish" /\ stall > 0)
  <2>1. pc # "gap"
    BY DEF TrailInv
  <2>2. Blocked
    BY <1>1
  <2>3. QED
    BY <2>1, <2>2, Zenon DEF Blocked
<1>3. rx' # <<>> /\ quiet' = 0 /\ sent' >= 1
  <2>1. CASE NextChunk
    BY Counts, <2>1, ChunkFollows
  <2>2. CASE NextTelegram
    BY Counts, <1>1, <2>2, NoneBegins, TelegramBegins
  <2>3. QED
    BY Counts, <2>1, <2>2
<1>4. CASE pc = "read"
  <2>1. cycle \o rx' = Whole(tele', sent')
    <3>1. CASE NextChunk
      <4>1. ~(cycle = <<>> /\ rx = <<>>)
        BY Counts, <1>4, <3>1 DEF NextChunk, TelegramInv
      <4>2. QED
        BY Counts, <1>4, <3>1, <4>1, ChunkFollows
    <3>2. CASE NextTelegram
      <4>1. rx = <<>> /\ cycle = <<>>
        BY Counts, <1>1, <1>4, <3>2, NoneBegins
      <4>2. rx' = Whole(tele', sent')
        BY Counts, <3>2, <4>1, TelegramBegins
      <4>3. tele' \in 0..2 /\ sent' \in 0..MaxTelegram
        BY Counts, <3>2, ModRange, Numbers, Parameters DEF NextTelegram, Arrives
      <4>4. rx' \in Seq(Chunk)
        BY Counts, <4>2, <4>3, WholeType
      <4>5. <<>> \o rx' = rx'
        BY Counts, <4>4, ConcatEmptySeq
      <4>6. QED
        BY Counts, <4>1, <4>2, <4>5
    <3>3. QED
      BY Counts, <3>1, <3>2
  <2>2. Late' = Late /\ 1 <= Late /\ Late \in Nat
    BY Counts, TimingNumbers DEF Late
  <2>3. QED
    BY Counts, <1>1, <1>3, <1>4, <2>1, <2>2 DEF TelegramInv
<1>5. CASE pc = "publish" /\ stall > 0
  <2>1. rx' = Whole(tele', sent') /\ sent' + stall' <= MaxStall
    <3>1. CASE NextChunk
      <4>1. rx # <<>>
        BY Counts, <1>5, <3>1 DEF NextChunk, TelegramInv
      <4>2. sent + quiet + stall <= MaxStall
        BY Counts, <1>5, <4>1 DEF TelegramInv
      <4>3. sent' = sent + 1 /\ rx' = Whole(tele', sent')
        BY Counts, <1>5, <3>1, <4>1, ChunkFollows
      <4>4. QED
        BY Counts, <1>1, <1>5, <4>2, <4>3
    <3>2. CASE NextTelegram
      <4>1. rx = <<>>
        BY Counts, <1>1, <3>2, NoneBegins
      <4>2. sent' = 1 /\ rx' = Whole(tele', sent')
        BY Counts, <3>2, <4>1, TelegramBegins
      <4>3. stall <= MaxStall
        BY Counts, <1>5 DEF TrailInv
      <4>4. QED
        BY Counts, <1>1, <1>5, <4>2, <4>3
    <3>3. QED
      BY Counts, <3>1, <3>2
  <2>2. pc' = "publish" /\ source' = source /\ (Unfinished' => quiet' <= MaxPause)
    BY Counts, <1>1, <1>3, <1>5
  <2>3. sent' + quiet' + stall' <= MaxStall
    <3>1. sent' \in Nat /\ stall' \in Nat /\ quiet' \in Nat
      BY DEF LoopInv, TypeOK
    <3>2. QED
      BY <1>3, <2>1, <3>1
  <2>4. QED
    BY Counts, <1>3, <2>1, <2>2, <2>3 DEF TelegramInv
<1>6. QED
  BY Counts, <1>2, <1>4, <1>5

LEMMA TelegramWaits ==
  ASSUME Timing, LoopInv, LoopInv', TrailInv, TelegramInv, Tick,
         MeterSilent, timedout' = (pc = "read")
  PROVE  TelegramInv'
<1>1. /\ Blocked /\ UNCHANGED <<pc, cycle, last_byte, source, gap_pending, tele, sent, rx>>
      /\ stall' = IF stall > 0 THEN stall - 1 ELSE 0
      /\ now' = (now + 1) % ClockMod
      /\ quiet' = IF quiet < QuietCap THEN quiet + 1 ELSE quiet
      /\ (Unfinished => quiet < MaxPause) /\ slow = 0
  BY DEF Tick, loop, MeterSilent
<1>2. /\ Elapsed' \in Nat /\ Elapsed' <= Elapsed + 1
      /\ Elapsed + 1 < ClockMod => Elapsed' = Elapsed + 1
  BY Counts, <1>1, ElapsedGrows DEF LoopInv
<1>3. /\ Late' = Late /\ Unfinished' = Unfinished /\ quiet' <= quiet + 1 /\ quiet' >= quiet
      /\ quiet' \in Nat /\ (Unfinished' => quiet' <= MaxPause)
  BY Counts, <1>1 DEF Late, Unfinished
<1>4. CASE source = "uart" /\ pc = "read"
  <2>1. ~timedout /\ timedout'
    BY Counts, <1>1, <1>4 DEF Blocked
  <2>2. CASE cycle = <<>> /\ rx = <<>>
    BY Counts, <1>1, <1>3, <1>4, <2>2 DEF TelegramInv
  <2>3. CASE ~(cycle = <<>> /\ rx = <<>>)
    <3>1. cycle \o rx = Whole(tele, sent) /\ sent >= 1
      BY Counts, <1>4, <2>3 DEF TelegramInv
    <3>2. CASE rx = <<>>
      <4>1. Elapsed < Gap
        BY Counts, <1>1, <1>4, <2>1, <2>3, <3>2 DEF TrailInv
      <4>2. Elapsed' = Elapsed + 1
        BY Counts, <1>2, <4>1
      <4>3. Unfinished \/ quiet <= Elapsed + Late
        BY Counts, <1>4, <2>3, <3>2 DEF TelegramInv
      <4>4. Unfinished' \/ quiet' <= Elapsed' + Late'
        <5>1. Late \in Nat
          BY Counts, TimingNumbers
        <5>2. QED
          BY <1>3, <4>2, <4>3, <5>1, Counts
      <4>5. QED
        BY Counts, <1>1, <1>3, <1>4, <2>3, <3>1, <3>2, <4>4 DEF TelegramInv
    <3>3. CASE rx # <<>>
      <4>1. Unfinished \/ quiet < Late
        BY Counts, <1>4, <2>1, <3>3, TimingNumbers DEF TelegramInv
      <4>2. Unfinished' \/ quiet' < Late' + 1
        <5>1. Late \in Nat
          BY Counts, TimingNumbers
        <5>2. QED
          BY <1>3, <4>1, <5>1, Counts
      <4>3. QED
        BY Counts, <1>1, <1>3, <1>4, <2>1, <3>1, <3>3, <4>2 DEF TelegramInv
    <3>4. QED
      BY Counts, <3>2, <3>3
  <2>4. QED
    BY Counts, <2>2, <2>3
<1>5. CASE source = "uart" /\ pc = "publish"
  <2>1. stall > 0
    BY Counts, <1>1, <1>5 DEF Blocked
  <2>2. CASE rx = <<>>
    BY Counts, <1>1, <1>3, <1>5, <2>2 DEF TelegramInv
  <2>3. CASE rx # <<>>
    <3>1. rx = Whole(tele, sent) /\ sent >= 1 /\ sent + quiet + stall <= MaxStall
      BY Counts, <1>5, <2>3 DEF TelegramInv
    <3>2. sent + quiet' + stall' <= MaxStall
      BY Counts, <1>1, <1>3, <2>1, <3>1
    <3>3. QED
      BY Counts, <1>1, <1>3, <1>5, <2>3, <3>1, <3>2 DEF TelegramInv
  <2>4. QED
    BY Counts, <2>2, <2>3
<1>6. CASE source = "sim" /\ pc = "gap"
  <2>1. cycle = Whole(tele, sent) /\ (Elapsed <= quiet \/ quiet >= MinSilence)
    BY Counts, <1>6 DEF TelegramInv
  <2>2. Elapsed' <= quiet' \/ quiet' >= MinSilence
    BY Counts, <1>1, <1>2, <2>1
  <2>3. cycle' = Whole(tele', sent')
    BY Counts, <1>1, <2>1
  <2>4. QED
    BY Counts, <1>1, <1>3, <1>6, <2>2, <2>3 DEF TelegramInv
<1>7. CASE source = "sim" /\ pc = "publish"
  BY Counts, <1>1, <1>3, <1>7 DEF TelegramInv
<1>8. QED
  BY Counts, <1>1, <1>4, <1>5, <1>6, <1>7 DEF Blocked, TrailInv

\* While a chunk trickles in the meter is not silent and nothing is complete.
LEMMA TelegramTrickles ==
  ASSUME Timing, LoopInv, TrailInv, TelegramInv, Tick,
         source = "uart", Trickles, UNCHANGED timedout
  PROVE  TelegramInv'
<1>1. /\ Blocked /\ UNCHANGED <<pc, cycle, source, gap_pending, tele, sent, rx>>
      /\ stall' = IF stall > 0 THEN stall - 1 ELSE 0
      /\ quiet' = 0 /\ quiet <= MaxPause /\ sent > 0
  BY DEF Tick, loop, Trickles
<1>2. /\ Late \in Nat /\ Late' = Late /\ 1 <= Late
      /\ Unfinished' = Unfinished /\ (Unfinished' => quiet' <= MaxPause)
  BY <1>1, Counts, TimingNumbers DEF Late, Unfinished
<1>3. CASE pc = "read"
  <2>1. ~(cycle = <<>> /\ rx = <<>>)
    BY <1>1, <1>3, Counts DEF TelegramInv
  <2>2. cycle' \o rx' = Whole(tele', sent') /\ sent' >= 1
    BY <1>1, <1>3, <2>1 DEF TelegramInv
  <2>3. Elapsed' \in Nat /\ ~timedout'
    <3>1. now' = (now + 1) % ClockMod /\ last_byte' = last_byte
      BY DEF Tick, loop
    <3>2. QED
      BY <1>1, <1>3, <3>1, ElapsedGrows DEF LoopInv, Blocked
  <2>4. IF rx' = <<>> THEN quiet' <= Elapsed' + Late
        ELSE quiet' < Late + IF timedout' THEN 1 ELSE 0
    <3>1. 0 <= Elapsed' + Late /\ 0 < Late /\ Late + 0 = Late
      <4>1. \A m, n \in Nat : 1 <= n => 0 <= m + n /\ 0 < n /\ n + 0 = n
        OBVIOUS
      <4>2. QED
        BY <1>2, <2>3, <4>1, Zenon
    <3>2. (IF timedout' THEN 1 ELSE 0) = 0
      BY <2>3
    <3>3. QED
      BY <1>1, <3>1, <3>2, Zenon
  <2>5. QED
    BY <1>1, <1>2, <1>3, <2>1, <2>2, <2>4, Zenon DEF TelegramInv
<1>4. CASE pc = "publish"
  <2>1. stall > 0 /\ rx # <<>>
    BY <1>1, <1>4, Counts DEF Blocked, TelegramInv
  <2>2. rx = Whole(tele, sent) /\ sent + quiet + stall <= MaxStall
    BY <1>4, <2>1 DEF TelegramInv
  <2>3. sent' + quiet' + stall' <= MaxStall /\ sent' >= 1
    BY <1>1, <2>1, <2>2, Counts
  <2>4. rx' = Whole(tele', sent')
    BY <1>1, <2>2
  <2>5. QED
    BY <1>1, <1>2, <1>4, <2>1, <2>3, <2>4 DEF TelegramInv
<1>5. QED
  BY <1>1, <1>3, <1>4 DEF Blocked, TrailInv

LEMMA TelegramInit == Timing /\ Init => TelegramInv
<1> SUFFICES ASSUME Timing, Init PROVE TelegramInv
  OBVIOUS
<1>1. ~Unfinished /\ quiet > MaxPause /\ cycle = <<>> /\ rx = <<>> /\ ~gap_pending /\ pc = "read"
  BY Parameters DEF Init, Unfinished
<1>2. cycle = Whole(tele, sent)
  BY WholeEmpty DEF Init
<1>3. QED
  BY <1>1, <1>2, Parameters DEF TelegramInv

LEMMA TelegramStep ==
  ASSUME Timing, LoopInv, TrailInv, TelegramInv, [Next]_vars
  PROVE  TelegramInv'
<1>1. CASE UNCHANGED vars
  BY <1>1 DEF TelegramInv, Unfinished, Whole, Late, Elapsed, vars, loop, meter
<1>2. CASE Tick
  <2>1. LoopInv'
    BY LoopStep
  <2>2. QED
    BY <1>2, <2>1, TelegramArrives, TelegramWaits, TelegramTrickles DEF Tick
<1>3. QED
  BY <1>1, <1>2, TelegramReads, TelegramPauses, TelegramSim DEF Next, Loop

\* The simulated source decodes after a gap it chose itself.
LEMMA AllReplayed ==
  ASSUME Timing, LoopInv, TelegramInv, SimGapEnds, source = "sim"
  PROVE  cycle = Whole(tele, sent) /\ quiet > MaxPause
<1> USE Numbers, Parameters
<1>1. pc = "gap" /\ Elapsed >= Gap
  BY DEF SimGapEnds, Decode, CycleEnded, Elapsed
<1>2. QED
  BY <1>1 DEF TelegramInv, Timing

\* Every burst that is decoded is one telegram, all of it and nothing else, and
\* the meter has finished it, for both builds, whatever the length of a
\* telegram and however the clock wraps.  A publish may block, and telegrams
\* may arrive during it, for as long as MaxStall + Gap < MinSilence +
\* MinTelegram; beyond that bound the run meter_merge shows two of them merged.
THEOREM TelegramsWhole ==
  ASSUME Timing
  PROVE  Spec => DecodesWhole
<1> DEFINE Step == pc # "publish" /\ pc' = "publish" =>
                     /\ cycle = [i \in 1..sent |-> [tele |-> tele, idx |-> i]]
                     /\ quiet > MaxPause
<1>1. LoopInv /\ TrailInv /\ TelegramInv /\ [Next]_vars => [Step]_vars
  <2> SUFFICES ASSUME LoopInv, TrailInv, TelegramInv, Next, pc # "publish", pc' = "publish"
               PROVE  cycle = Whole(tele, sent) /\ quiet > MaxPause
    BY DEF Whole
  <2>1. (ReadNothing /\ Decode) \/ SimGapEnds
    BY DEF Next, Loop, ReadBytes, ReadNothing, StillQuiet, Published, SimRead, SimGapBegins,
           Tick, loop
  <2>2. CASE ReadNothing /\ Decode
    BY <2>2, AllCollected
  <2>3. CASE SimGapEnds
    <3>1. source = "sim"
      BY <2>3 DEF SimGapEnds, TrailInv
    <3>2. QED
      BY <2>3, <3>1, AllReplayed
  <2>4. QED
    BY <2>1, <2>2, <2>3
<1>2. LoopInv /\ TrailInv /\ [Next]_vars => TrailInv'
  BY TimingNumbers, TrailStep
<1>3. LoopInv /\ TrailInv /\ TelegramInv /\ [Next]_vars => TelegramInv'
  BY TelegramStep
<1>4. Init => LoopInv /\ TrailInv /\ TelegramInv
  BY LoopInit, TrailInit, TelegramInit
<1>5. QED
  BY <1>1, <1>2, <1>3, <1>4, LoopStep, PTL DEF Spec, DecodesWhole
=============================================================================
