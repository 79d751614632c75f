------------------------------ MODULE CycleDecode ------------------------------
(***************************************************************************)
(* What happens to one cycle's bytes once silence has ended it: the flags  *)
(* before the first frame are dropped (framing.h), the parser is called    *)
(* until the buffer is used up, each value it yields enters the            *)
(* measurement set (on_value, CycleSet), and the set becomes one message.  *)
(*                                                                         *)
(* The parser is external: a pass consumes some of the bytes it is given   *)
(* and yields any values.  MeterLoop models when a cycle ends, Publisher   *)
(* what becomes of the message.                                            *)
(*                                                                         *)
(* A byte is one of three classes.  A value is modelled by the number of   *)
(* characters it prints as, which is what the 512 bytes of CycleSet tell   *)
(* apart; two values of a label that differ, differ in it.                 *)
(***************************************************************************)
EXTENDS Naturals, Sequences, FiniteSets

CONSTANTS
    Labels,       \* labels of the OBIS table a numeric value can have
    LabelLen,     \* their lengths
    Widths,       \* for each label, the lengths of its values
    Capacity,     \* sizeof(json_)
    MaxValues,    \* MAX_VALUES
    MaxLabel,     \* MAX_LABEL
    MaxBytes      \* bound: the bytes of a cycle

Class  == {"flag", "format", "other"}    \* 0x7E, 0xA0..0xAF, anything else
Cycles == UNION {[1..n -> Class] : n \in 1..MaxBytes}

\* A label that is cut off would never be recognised as a duplicate.
ASSUME CycleAssumption ==
    /\ LabelLen \in [Labels -> 0..(MaxLabel - 1)]
    /\ Widths \in [Labels -> SUBSET (Nat \ {0})]
    /\ {Capacity, MaxValues, MaxLabel, MaxBytes} \subseteq Nat \ {0}

VARIABLES
    pc,
    left,       \* how many bytes of the cycle the parser has not consumed
    passes,     \* calls of the parser, modulo 2: a pass that does nothing is a step too
    labels,     \* labels_, in the set
    text,       \* json_: its entries, and whether each is there in full
    len,        \* len_
    closed,     \* closed_
    brace,      \* json_ ends with the closing brace
    identified, \* the meter's serial is known
    first       \* bookkeeping: the values this cycle decoded first

set  == <<labels, text, len, closed, brace>>
vars == <<pc, left, passes, set, identified, first>>

Entry == [label : Labels, value : Nat, whole : BOOLEAN]

Init ==
    /\ pc = "idle" /\ left = 0 /\ passes = 0
    /\ labels = {} /\ text = {} /\ len = 0 /\ closed = FALSE /\ brace = FALSE
    /\ identified = FALSE /\ first = {}

-----------------------------------------------------------------------------
(* framing.h.                                                               *)

Mut_LeadingFlags_AllFlags(bytes) ==
    LET skip[i \in 0..Len(bytes)] ==
          IF i < Len(bytes) /\ bytes[i + 1] = "flag" THEN skip[i + 1] ELSE i
    IN  skip[0]

\* A flag that no format byte follows opens no frame.
LeadingFlags(bytes) ==
    LET skip[i \in 0..Len(bytes)] ==
          IF i + 1 < Len(bytes) /\ bytes[i + 1] = "flag" /\ bytes[i + 2] # "format"
            THEN skip[i + 1] ELSE i
    IN  skip[0]

-----------------------------------------------------------------------------
(* CycleSet.                                                                *)

Clear ==
    labels' = {} /\ text' = {} /\ len' = 0 /\ closed' = FALSE /\ brace' = FALSE

Claim(l) == ~closed /\ Cardinality(labels) < MaxValues /\ l \notin labels

\* append: text that does not fit leaves the length where it was.
Fits(at, n) == at + n < Capacity
After(at, n) == IF Fits(at, n) THEN at + n ELSE at

Mut_Add_LastWins(l, w) ==
    /\ labels' = labels \cup {l}
    /\ len' = IF l \in labels THEN len ELSE len + LabelLen[l] + 4 + w
    /\ text' = {e \in text : e.label # l} \cup {[label |-> l, value |-> w, whole |-> TRUE]}
    /\ UNCHANGED <<closed, brace>>

Mut_Add_WithUnit(l, w) ==
    IF Claim(l) THEN
        LET key == LabelLen[l] + 4
            val == w + 12
            at  == After(len, key)
        IN  /\ labels' = labels \cup {l}
            /\ text' = text \cup {[label |-> l, value |-> w,
                                   whole |-> Fits(len, key) /\ Fits(at, val)]}
            /\ len' = After(at, val)
            /\ UNCHANGED <<closed, brace>>
    ELSE UNCHANGED set

\* add_integer and add_real: claim the label, then append "{" or ",", the label
\* in quotes, a colon, and the value.
Add(l, w) ==
    IF Claim(l) THEN
        LET key == LabelLen[l] + 4
            at  == After(len, key)
        IN  /\ labels' = labels \cup {l}
            /\ text' = text \cup {[label |-> l, value |-> w,
                                   whole |-> Fits(len, key) /\ Fits(at, w)]}
            /\ len' = After(at, w)
            /\ UNCHANGED <<closed, brace>>
    ELSE UNCHANGED set

\* json: reading the set closes it.
Close ==
    /\ closed' = TRUE
    /\ IF closed THEN UNCHANGED <<len, brace>>
       ELSE brace' = (len + 2 < Capacity) /\ len' = IF len + 2 < Capacity THEN len + 1 ELSE len
    /\ UNCHANGED <<labels, text>>

-----------------------------------------------------------------------------
(* The end of a cycle in app_main, and on_value.                            *)

Decode(bytes) ==
    /\ pc = "idle" /\ pc' = "parse"
    /\ Clear /\ first' = {}
    /\ left' = Len(bytes) - LeadingFlags(bytes) /\ passes' = 0
    /\ UNCHANGED identified

\* on_value for a numeric value the table knows; one it does not know changes
\* nothing.
OnNumber(l, w) ==
    /\ pc = "parse"
    /\ Add(l, w)
    /\ first' = IF \E v \in first : v[1] = l THEN first ELSE first \cup {<<l, w>>}
    /\ UNCHANGED <<pc, left, passes, identified>>

\* on_value for an identity.
OnIdentity ==
    /\ pc = "parse" /\ ~identified
    /\ identified' = TRUE
    /\ UNCHANGED <<pc, left, passes, set, first>>

Mut_PassEnds_Spins(n) ==
    /\ pc = "parse" /\ n <= left
    /\ left' = left - n /\ passes' = 1 - passes
    /\ pc' = IF left' = 0 THEN "publish" ELSE "parse"
    /\ UNCHANGED <<set, identified, first>>

\* The parser returns having consumed n bytes: none ends the loop.
PassEnds(n) ==
    /\ pc = "parse" /\ n <= left
    /\ left' = left - n /\ passes' = 1 - passes
    /\ pc' = IF n = 0 \/ left' = 0 THEN "publish" ELSE "parse"
    /\ UNCHANGED <<set, identified, first>>

\* publish_cycle: without a connection or a serial the set is left as it is,
\* and an empty one is not published.
PublishCycle ==
    /\ pc = "publish" /\ pc' = "idle"
    /\ left' = 0 /\ passes' = 0
    /\ \/ identified /\ labels # {} /\ Close
       \/ UNCHANGED set
    /\ UNCHANGED <<identified, first>>

-----------------------------------------------------------------------------
PassReturns == \E n \in 0..MaxBytes : PassEnds(n)

Next ==
    \/ \E bytes \in Cycles : Decode(bytes)
    \/ \E l \in Labels : \E w \in Widths[l] : OnNumber(l, w)
    \/ OnIdentity
    \/ PassReturns
    \/ PublishCycle

Spec == Init /\ [][Next]_vars

(* The main task runs, and each call of the parser returns.                 *)
Fairness == WF_vars(PassReturns) /\ WF_vars(PublishCycle)

FairSpec == Spec /\ Fairness

-----------------------------------------------------------------------------
(* Properties.                                                              *)

\* The values the set and the loop can take; the text never outgrows its array,
\* which has to hold the terminating zero too.
TypeOK ==
    /\ pc \in {"idle", "parse", "publish"}
    /\ left \in 0..MaxBytes /\ (pc = "parse" => left # 0)
    /\ passes \in {0, 1}
    /\ labels \subseteq Labels /\ text \subseteq Entry
    /\ len \in 0..(Capacity - 1)
    /\ closed \in BOOLEAN /\ brace \in BOOLEAN /\ identified \in BOOLEAN

\* A message handed to the broker is one complete JSON object: with the labels
\* of the table and values as long as they get, neither a label, a value nor
\* the closing brace is cut off (FR-AGG-03).
MessageComplete == closed => brace /\ \A e \in text : e.whole

\* The set holds, for every register decoded in this cycle, the value decoded
\* first, and nothing of an earlier cycle (FR-AGG-02, FR-AGG-04).
FirstRetained ==
    pc # "idle" \/ closed => {<<e.label, e.value>> : e \in text} = first

FalseStart(bytes, i) == bytes[i] = "flag" /\ i < Len(bytes) /\ bytes[i + 1] # "format"

\* What the comment on leading_flags promises of the bytes a cycle hands over:
\* only flags are dropped, and only as many as it takes; the parser always gets
\* something, and never a buffer that opens on a flag which opens no frame,
\* unless nothing follows that flag.
FrameStartKept ==
    [][\A bytes \in Cycles : Decode(bytes) =>
          LET k == Len(bytes) - left' IN
              /\ k < Len(bytes)
              /\ \A i \in 1..k : FalseStart(bytes, i)
              /\ ~FalseStart(bytes, k + 1)]_vars

\* Every cycle's decoding ends, whatever the parser makes of the bytes.
DecodingEnds == pc = "parse" ~> pc = "idle"
=============================================================================
