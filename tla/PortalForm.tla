------------------------------ MODULE PortalForm ------------------------------
(***************************************************************************)
(* What becomes of a form submitted to the portal: the body is read up to  *)
(* a fixed size (save_post), cut into fields by name (field), decoded      *)
(* (url_decode) and checked (config_fault).                                *)
(*                                                                         *)
(* A text is the number of its octets that are sent as they are (a space,  *)
(* sent as "+", counts as one), of those sent as an escape of three, and   *)
(* whether it passes the rule of its field: a broker with a scheme, a      *)
(* hostname that is a label.  A browser sends the four fields in the order *)
(* of the page.                                                            *)
(***************************************************************************)
EXTENDS Naturals, Sequences

Keys  == {"ssid", "pass", "broker", "host"}
Order == <<"ssid", "pass", "broker", "host">>

Text == [plain : Nat, coded : Nat, ok : BOOLEAN]

Octets(t) == t.plain + t.coded
Sent(t)   == t.plain + 3 * t.coded

\* SSID_MAX, PASSPHRASE_MAX, BROKER_MAX and HOSTNAME_MAX.
Cap == [ssid |-> 32, pass |-> 63, broker |-> 127, host |-> 32]

Mut_BodyMax_Quarter == 127

\* What fits in the handler's body, its terminator aside.
BodyMax == 511

Smaller(m, n) == IF m < n THEN m ELSE n

\* Octets of the body before the value of each field: "ssid=", then "&pass=",
\* "&broker=" and "&host=", each after the value before it.
Start(f) ==
    LET pass   == 5 + Sent(f["ssid"]) + 6
        broker == pass + Sent(f["pass"]) + 8
        host   == broker + Sent(f["broker"]) + 6
    IN  [ssid |-> 5, pass |-> pass, broker |-> broker, host |-> host]

\* Octets of a value that are in the body: a field whose name did not arrive
\* whole is absent, hence empty.
Got(f, k) ==
    IF Start(f)[k] > BodyMax THEN 0 ELSE Smaller(Sent(f[k]), BodyMax - Start(f)[k])

Mut_TooLong_Truncates(f, k) == FALSE

\* Compared before the escapes are decoded.
TooLong(f, k) == Got(f, k) > Cap[k]

\* What the record gets; a value that lost its end may look acceptable.
Value(f, k) ==
    LET n == Smaller(Got(f, k), Cap[k]) IN
        IF n = Sent(f[k]) THEN f[k] ELSE [plain |-> n, coded |-> 0, ok |-> TRUE]

Present(f, k) == Octets(Value(f, k)) > 0

\* No field is refused, and config_fault finds none.
Accepted(f) ==
    /\ \A k \in Keys : ~TooLong(f, k)
    /\ Present(f, "ssid")
    /\ Present(f, "broker") /\ Value(f, "broker").ok
    /\ Present(f, "host") => Value(f, "host").ok
=============================================================================
