----------------------------- MODULE MCIndicator -----------------------------
(* Instances of Indicator for TLC: the .cfg files give every constant.      *)
EXTENDS Indicator
=============================================================================
