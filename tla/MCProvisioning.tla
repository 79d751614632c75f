---------------------------- MODULE MCProvisioning ----------------------------
(* Instances of Provisioning for TLC: every combination of a few texts per  *)
(* field, at the limits of the record and beyond those of the body.  Two of *)
(* them are accepted.                                                       *)
EXTENDS Provisioning

Plain(n) == [plain |-> n, coded |-> 0, ok |-> TRUE]
Coded(n) == [plain |-> 0, coded |-> n, ok |-> TRUE]
Wrong(n) == [plain |-> n, coded |-> 0, ok |-> FALSE]

Ssids   == {Plain(0), Plain(32), Plain(33), Coded(11)}
Passes  == {Plain(0), Plain(63), Plain(600), Coded(32)}
Brokers == {Plain(0), Plain(127), Wrong(9), Plain(480)}
Hosts   == {Plain(0), Wrong(5), Plain(33), Wrong(400)}

TypedForms ==
    {[ssid |-> s, pass |-> p, broker |-> b, host |-> h] :
        s \in Ssids, p \in Passes, b \in Brokers, h \in Hosts}
=============================================================================
