---------------------------- MODULE MeasurementFeed ----------------------------
(***************************************************************************)
(* What the device promises of its measurements, with nothing of how: each *)
(* decoded set is offered to the broker at most once, while it is still    *)
(* the newest; sets under way arrive in order or are lost with everything  *)
(* behind them; nothing is ever repeated.  There is no promise that a set  *)
(* arrives: a reading is worth nothing once the next has been taken.       *)
(* Publisher implements this with its passes, its client and its outbox.   *)
(***************************************************************************)
EXTENDS Naturals, Sequences

CONSTANT MaxCycles   \* bound: sets stop being numbered here

VARIABLES
    latest,     \* number of the set decoded last
    pending,    \* it may still be sent
    inflight,   \* numbers of the sets on their way
    seen        \* the set forwarded last

vars == <<latest, pending, inflight, seen>>

Init == latest = 0 /\ pending = FALSE /\ inflight = <<>> /\ seen = 0

\* A cycle ends; a set without values is not pending.
Decode ==
    /\ ~pending
    /\ latest' = IF latest < MaxCycles THEN latest + 1 ELSE latest
    /\ pending' \in BOOLEAN
    /\ UNCHANGED <<inflight, seen>>

Send ==
    /\ pending /\ pending' = FALSE
    /\ inflight' = Append(inflight, latest)
    /\ UNCHANGED <<latest, seen>>

Drop == pending /\ pending' = FALSE /\ UNCHANGED <<latest, inflight, seen>>

Arrive ==
    /\ inflight # <<>>
    /\ seen' = Head(inflight) /\ inflight' = Tail(inflight)
    /\ UNCHANGED <<latest, pending>>

\* The connection dies, or the device with it.
Lose ==
    /\ inflight' = <<>>
    /\ pending' \in {pending, FALSE}
    /\ UNCHANGED <<latest, seen>>

Next == Decode \/ Send \/ Drop \/ Arrive \/ Lose

Spec == Init /\ [][Next]_vars
=============================================================================
