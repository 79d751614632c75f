----------------------------- MODULE MCMeterLoop -----------------------------
(* Instances of MeterLoop for TLC: the .cfg files give every constant.      *)
EXTENDS MeterLoop
=============================================================================
