------------------------------ MODULE MeterLoop ------------------------------
(***************************************************************************)
(* The main loop of app_main.cpp as a process in time: bytes arrive on the *)
(* meter UART, are collected into a cycle, silence ends the cycle, the     *)
(* cycle is decoded and published, and every pass feeds the task watchdog. *)
(*                                                                         *)
(* Time advances in ticks of 200 ms, the timeout of one read; it advances  *)
(* only while the loop is blocked (in a read that waits for more, in a     *)
(* publish call, in the simulated meter's delay), since everything else    *)
(* takes no time at this scale.  A chunk is what 2400 baud delivers in one *)
(* tick, about 44 bytes, or what takes longer but without a pause of a     *)
(* whole tick, so that a read never returns in the middle of one.  The     *)
(* clock is the code's 32-bit counter of milliseconds and wraps, at        *)
(* ClockMod here.                                                          *)
(*                                                                         *)
(* The meter, the UART driver's ring buffer and the time a publish call    *)
(* blocks are external; so is the DLMS parser, of which only the outcome   *)
(* matters.  Publisher models what a publish does; here it takes time.     *)
(***************************************************************************)
EXTENDS Naturals, Sequences

CONSTANTS
    Sources,       \* the builds considered: "uart" (production) and "sim"
    Gap,           \* CYCLE_GAP_MS, aggregator.h
    Watchdog,      \* the task watchdog's timeout
    MaxCycle,      \* MAX_CYCLE, in chunks
    ReadMax,       \* what one read returns at most: the 256-byte array
    RxBuffer,      \* RX_BUFFER, in chunks
    SimGap,        \* CYCLE_GAP_MS of sim_source.cpp
    Lines,         \* number of candidate line settings
    RightLine,     \* the candidate the meter really uses
    Noise,         \* can a burst on the right settings fail to decode?
    ChanceFrames,  \* bound: bursts on wrong settings that look like a frame
    MaxStall,      \* bound: ticks publish_cycle blocks
    ClockMod,      \* bound: the clock wraps here
    MinTelegram, MaxTelegram,   \* chunks of one telegram
    MaxTrickle,    \* bound: ticks a chunk may take beyond the one
    MaxPause,      \* longest silence inside a telegram
    MinSilence     \* shortest silence between telegrams

ASSUME MeterLoopAssumption ==
    /\ Sources \subseteq {"uart", "sim"} /\ Noise \in BOOLEAN
    /\ {Gap, Watchdog, MaxCycle, ReadMax, RxBuffer, SimGap, Lines, RightLine,
        ChanceFrames, MaxStall, ClockMod, MinTelegram, MaxTelegram, MaxTrickle,
        MaxPause, MinSilence} \subseteq Nat
    /\ RightLine < Lines /\ MaxPause < MinSilence /\ Gap < ClockMod
    /\ 1 <= MinTelegram /\ MinTelegram <= MaxTelegram /\ 1 <= ReadMax /\ ReadMax <= MaxCycle

VARIABLES
    \* ---- app_main
    pc,          \* in a read, in the simulated gap, or in publish_cycle
    cycle, last_byte, undecoded,
    candidate,   \* the line settings in use, meter_uart.cpp
    gap_pending, \* sim_source.cpp
    source,      \* the meter source compiled into the build
    \* ---- the driver and the clock
    now, rx,
    timedout,    \* the current read has waited 200 ms in vain
    stall,       \* ticks the current blocking call still takes
    fed,         \* ticks since the watchdog was fed
    \* ---- the meter
    tele,        \* the telegram last sent, modulo 3
    sent,        \* chunks of it sent so far
    quiet,       \* ticks since a byte was sent
    slow,        \* ticks the next chunk has been under way
    \* ---- bookkeeping of the model
    bursts,      \* bursts handed to the decoder, up to BurstCap
    chances      \* those of them that looked like a frame on wrong settings

loop  == <<pc, cycle, last_byte, undecoded, candidate, gap_pending, source>>
meter == <<tele, sent, quiet, slow>>
probe == <<bursts, chances>>
vars  == <<loop, now, rx, timedout, stall, fed, meter, probe>>

Chunk == [tele : 0..2, idx : 1..MaxTelegram]

\* quiet stops counting where nothing depends on it any more.
QuietCap == MinSilence + Gap + MaxStall

\* More bursts than it takes to try every candidate.
BurstCap == 2 * (Lines + ChanceFrames)

-----------------------------------------------------------------------------
Init ==
    /\ pc = "read" /\ cycle = <<>> /\ last_byte = 0 /\ undecoded = 0
    /\ candidate = 0 /\ gap_pending = FALSE /\ source \in Sources
    /\ now = 0 /\ rx = <<>> /\ timedout = FALSE /\ stall = 0 /\ fed = 0
    /\ tele = 0 /\ sent = 0 /\ quiet = MinSilence /\ slow = 0
    /\ bursts = 0 /\ chances = 0

-----------------------------------------------------------------------------
(* Pure helpers of the loop.                                                *)

Mut_CycleEnded_AnyQuietRead == cycle # <<>>

Mut_CycleEnded_PlainCompare ==
    cycle # <<>> /\ now >= last_byte + Gap

\* cycle_ended: the subtraction is modulo the width of the clock.
CycleEnded == cycle # <<>> /\ (now + ClockMod - last_byte) % ClockMod >= Gap

\* A chunk that does not fit takes the place of everything collected so far.
Collected(bytes) ==
    IF Len(cycle) + Len(bytes) > MaxCycle THEN bytes ELSE cycle \o bytes

\* What a burst looks like to the decoder: values, HDLC framing without
\* values, or nothing that resembles a frame.  On wrong settings it is garbage,
\* in which a flag may by chance be followed by the format byte of a frame.
Outcomes ==
    IF candidate # RightLine
      THEN {"unframed"} \cup {o \in {"framed"} : chances < ChanceFrames}
    ELSE IF Noise THEN {"decoded", "framed", "unframed"} ELSE {"decoded"}

CountChance(outcome) ==
    chances' = IF candidate # RightLine /\ outcome = "framed" THEN chances + 1 ELSE chances

Mut_ProbeLine_CountsOn(outcome) ==
    IF outcome # "unframed" THEN undecoded' = 0 /\ UNCHANGED candidate
    ELSE /\ undecoded' = undecoded + 1
         /\ candidate' = IF undecoded >= 1 /\ source = "uart" THEN (candidate + 1) % Lines
                         ELSE candidate

Mut_ProbeLine_SkipsLast(outcome) ==
    IF outcome # "unframed" THEN undecoded' = 0 /\ UNCHANGED candidate
    ELSE IF undecoded + 1 < 2 THEN undecoded' = undecoded + 1 /\ UNCHANGED candidate
    ELSE /\ undecoded' = 0
         /\ candidate' = IF source = "uart" THEN (candidate + 1) % (Lines - 1) ELSE candidate

\* Two bursts in a row without framing cast doubt on the line settings: the
\* next candidate is applied.
ProbeLine(outcome) ==
    IF outcome # "unframed" THEN undecoded' = 0 /\ UNCHANGED candidate
    ELSE IF undecoded + 1 < 2 THEN undecoded' = undecoded + 1 /\ UNCHANGED candidate
    ELSE /\ undecoded' = 0
         /\ candidate' = IF source = "uart" THEN (candidate + 1) % Lines ELSE candidate

\* The top of the loop feeds the watchdog and enters the next read.
NextPass == fed' = 0 /\ timedout' = FALSE

-----------------------------------------------------------------------------
(* The loop.                                                                *)

\* A read that returned bytes: uart_read_bytes returns what it was asked for,
\* or what it has once nothing has arrived for the timeout.
ReadBytes ==
    /\ pc = "read" /\ rx # <<>>
    /\ Len(rx) >= ReadMax \/ timedout
    /\ LET n == IF Len(rx) < ReadMax THEN Len(rx) ELSE ReadMax IN
         /\ cycle' = Collected(SubSeq(rx, 1, n))
         /\ rx' = SubSeq(rx, n + 1, Len(rx))
    /\ last_byte' = now
    /\ NextPass
    /\ UNCHANGED <<pc, undecoded, candidate, gap_pending, source, now, stall, meter, probe>>

Mut_StillQuiet_FedByDataOnly ==
    /\ ~CycleEnded
    /\ pc' = "read"
    /\ timedout' = FALSE
    /\ UNCHANGED <<cycle, last_byte, undecoded, candidate, now, rx, stall, fed, probe>>

\* A read that returned nothing before the cycle's end.
StillQuiet ==
    /\ ~CycleEnded
    /\ pc' = "read"
    /\ NextPass
    /\ UNCHANGED <<cycle, last_byte, undecoded, candidate, now, rx, stall, probe>>

\* A read that returned nothing and ended the cycle: the buffer is decoded,
\* the line settings are reconsidered, and publish_cycle begins.
Decode ==
    /\ CycleEnded
    /\ \E outcome \in Outcomes : ProbeLine(outcome) /\ CountChance(outcome)
    /\ bursts' = IF bursts < BurstCap THEN bursts + 1 ELSE bursts
    /\ pc' = "publish"
    /\ stall' \in 0..MaxStall
    /\ UNCHANGED <<cycle, last_byte, source, now, rx, timedout, fed>>

ReadNothing ==
    /\ pc = "read" /\ source = "uart" /\ rx = <<>> /\ timedout
    /\ StillQuiet \/ Decode
    /\ UNCHANGED <<gap_pending, source, meter>>

\* publish_cycle has returned and the buffer is emptied.
Published ==
    /\ pc = "publish" /\ stall = 0
    /\ cycle' = <<>>
    /\ pc' = "read"
    /\ NextPass
    /\ UNCHANGED <<last_byte, undecoded, candidate, gap_pending, source, now, rx, stall, meter, probe>>

-----------------------------------------------------------------------------
(* The simulated meter: chunks of the capture without delay, then a delay   *)
(* inside a single read, which returns nothing.                             *)

SimRead ==
    /\ source = "sim" /\ pc = "read" /\ ~gap_pending
    /\ sent' = sent + 1 /\ quiet' = 0
    /\ cycle' = Collected(<<[tele |-> tele, idx |-> sent + 1]>>)
    /\ gap_pending' = (sent + 1 = MaxTelegram)
    /\ last_byte' = now
    /\ NextPass
    /\ UNCHANGED <<pc, undecoded, candidate, source, now, rx, stall, tele, slow, probe>>

SimGapBegins ==
    /\ source = "sim" /\ pc = "read" /\ gap_pending
    /\ pc' = "gap" /\ stall' = SimGap
    /\ UNCHANGED <<cycle, last_byte, undecoded, candidate, gap_pending, source, now,
                   rx, timedout, fed, meter, probe>>

Rewind == gap_pending' = FALSE /\ sent' = 0 /\ tele' = (tele + 1) % 3 /\ UNCHANGED <<quiet, slow>>

SimGapEnds ==
    /\ pc = "gap" /\ stall = 0
    /\ Decode
    /\ Rewind

-----------------------------------------------------------------------------
(* Time and the meter.                                                      *)

\* A chunk has reached the driver; a full ring buffer loses it.
Arrives(t, i) ==
    /\ tele' = t /\ sent' = i /\ quiet' = 0 /\ slow' = 0
    /\ rx' = IF Len(rx) < RxBuffer THEN Append(rx, [tele |-> t, idx |-> i]) ELSE rx

Unfinished == sent > 0 /\ sent < MinTelegram

NextChunk     == sent > 0 /\ sent < MaxTelegram /\ quiet <= MaxPause /\ Arrives(tele, sent + 1)
NextTelegram  == quiet >= MinSilence /\ Arrives((tele + 1) % 3, 1)
MeterSilent   ==
    /\ slow = 0 /\ (Unfinished => quiet < MaxPause)
    /\ quiet' = IF quiet < QuietCap THEN quiet + 1 ELSE quiet
    /\ UNCHANGED <<tele, sent, slow, rx>>

\* The next chunk of a telegram trickles in: some of its bytes, close enough
\* together for the read to go on waiting, and not yet all of them.
Trickles ==
    /\ sent > 0 /\ sent < MaxTelegram /\ quiet <= MaxPause /\ slow < MaxTrickle
    /\ slow' = slow + 1 /\ quiet' = 0
    /\ UNCHANGED <<tele, sent, rx>>

Blocked ==
    \/ pc = "read" /\ source = "uart" /\ Len(rx) < ReadMax /\ ~timedout
    \/ pc \in {"gap", "publish"} /\ stall > 0

Tick ==
    /\ Blocked
    /\ now' = (now + 1) % ClockMod
    /\ fed' = IF fed < Watchdog THEN fed + 1 ELSE fed
    /\ stall' = IF stall > 0 THEN stall - 1 ELSE 0
    /\ \/ source = "uart" /\ (NextChunk \/ NextTelegram \/ Trickles) /\ UNCHANGED timedout
       \/ MeterSilent /\ timedout' = (pc = "read")
    /\ UNCHANGED <<loop, probe>>

-----------------------------------------------------------------------------
Loop == ReadBytes \/ ReadNothing \/ Published \/ SimRead \/ SimGapBegins \/ SimGapEnds

Next == Loop \/ Tick

Spec == Init /\ [][Next]_vars

-----------------------------------------------------------------------------
(* Properties.                                                              *)

\* The values the loop, the driver and the meter can take; neither the cycle
\* nor the ring buffer outgrows its memory.
TypeOK ==
    /\ pc \in {"read", "gap", "publish"}
    /\ cycle \in Seq(Chunk) /\ Len(cycle) <= MaxCycle
    /\ last_byte \in 0..ClockMod - 1 /\ now \in 0..ClockMod - 1
    /\ undecoded \in 0..1 /\ candidate \in 0..Lines - 1
    /\ gap_pending \in BOOLEAN /\ source \in Sources /\ timedout \in BOOLEAN
    /\ rx \in Seq(Chunk) /\ Len(rx) <= RxBuffer
    /\ stall \in Nat /\ fed \in 0..Watchdog
    /\ bursts \in 0..BurstCap /\ tele \in 0..2 /\ sent \in 0..MaxTelegram /\ quiet \in 0..QuietCap
    /\ slow \in 0..MaxTrickle /\ chances \in 0..ChanceFrames

\* What is handed to the decoder is exactly one telegram: all of it, in order,
\* nothing of the one before or after, and the meter has finished sending it
\* (FR-AGG-01, FR-AGG-02), also while the clock wraps.
DecodesWhole ==
    [][pc # "publish" /\ pc' = "publish" =>
         /\ cycle = [i \in 1..sent |-> [tele |-> tele, idx |-> i]]
         /\ quiet > MaxPause]_vars

\* A burst that has ended is decoded within two reads of the gap (the one that
\* waits for the burst to go on and the one that ends it), plus what the publish
\* before it held the loop up; in particular when the clock wraps in between.
PromptDecode ==
    cycle # <<>> /\ pc = "read" => quiet <= Gap + 2 + MaxStall

\* Every pass of the production build feeds the watchdog, and between two of
\* them lies no more than one full read, at the pace the meter's bytes trickle
\* in, or one read that found nothing and one publish (FR-WDT-03).
PassBounded ==
    source = "uart" =>
        fed <= IF pc = "publish" THEN 1 + MaxStall ELSE ReadMax * (MaxTrickle + 1)

\* What is said of the watchdog: no fault of the network or the meter makes it
\* fire in production (FR-WDT-05).
WatchdogFed == source = "uart" => fed < Watchdog

\* The production build finds the meter's line settings: two bursts on every
\* wrong candidate, and no more than two for each that looked like a frame by
\* chance, and it never leaves the right one again (meter_source_try_next_line),
\* whatever of a telegram those bursts were.
LocksOn == source = "uart" /\ bursts >= 2 * (RightLine + chances) => candidate = RightLine
=============================================================================
