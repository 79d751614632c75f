---------------------------- MODULE MCCycleDecode ----------------------------
(* The numeric labels of the committed OBIS table, with their lengths.  A   *)
(* power prints as "0.000" or with up to ten digits, sign and decimals; an  *)
(* energy as one digit or as the twenty of the largest 64-bit number.  Two  *)
(* labels take both lengths, so that a repeated register can differ; the    *)
(* others the longer one.                                                   *)
EXTENDS CycleDecode

Powers   == {"active_power_plus", "active_power_minus", "reactive_power_plus",
             "reactive_power_minus", "power_factor"}
Energies == {"active_energy_plus", "active_energy_minus", "reactive_energy_q1",
             "reactive_energy_q2", "reactive_energy_q3", "reactive_energy_q4"}

TableLabels == Powers \cup Energies

TableLen ==
    [l \in TableLabels |->
        CASE l = "active_power_plus" -> 17
          [] l = "power_factor" -> 12
          [] l = "reactive_power_minus" -> 20
          [] l \in {"reactive_power_plus", "active_energy_minus"} -> 19
          [] OTHER -> 18]

TableWidths ==
    [l \in TableLabels |->
        (IF l \in Powers THEN {15} ELSE {20})
            \cup (CASE l = "active_power_plus" -> {5}
                    [] l = "active_energy_plus" -> {1}
                    [] OTHER -> {})]
=============================================================================
