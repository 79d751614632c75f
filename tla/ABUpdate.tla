------------------------------- MODULE ABUpdate -------------------------------
(***************************************************************************)
(* What a firmware update over two slots promises, without slots, tasks or *)
(* resets: the device always has an image it can fall back on, and another *)
(* one takes its place only after it was offered, tried and accepted.      *)
(***************************************************************************)
CONSTANTS
    Good, Bad,    \* images that reach the broker, and that do not
    Factory,      \* the image the device starts with
    None          \* no candidate

VARIABLES
    installed,    \* the image to fall back on
    candidate,    \* the image that may replace it, or None
    trial         \* the candidate is the one that runs

vars == <<installed, candidate, trial>>

Init == installed = Factory /\ candidate = None /\ trial = FALSE

\* A complete image is in place; it will be tried, unless another download
\* withdraws it before.
Offer(i)  == ~trial /\ candidate' = i /\ UNCHANGED <<installed, trial>>
Withdraw  == ~trial /\ candidate' = None /\ UNCHANGED <<installed, trial>>

Try       == ~trial /\ candidate # None /\ trial' = TRUE /\ UNCHANGED <<installed, candidate>>

\* Only a candidate that works is accepted.
Accept ==
    /\ trial /\ candidate \in Good
    /\ installed' = candidate /\ candidate' = None /\ trial' = FALSE

\* A trial may end without acceptance, also that of a candidate that works: its
\* acceptance can fail or come too late.
Reject == trial /\ candidate' = None /\ trial' = FALSE /\ UNCHANGED installed

Next == (\E i \in Good \cup Bad : Offer(i)) \/ Withdraw \/ Try \/ Accept \/ Reject

Spec == Init /\ [][Next]_vars
=============================================================================
