---------------------------- MODULE MCHwmonWrites ----------------------------
(* Values for the constants of HwmonWrites that a configuration file cannot *)
(* write.                                                                   *)
EXTENDS HwmonWrites

AllCallers == Diags \cup {"engine", "stop", "none"}

(* The headers' driver: the runs take Plain, and a configuration file that  *)
(* says Driver <- Kraken or Driver <- Dell gets the other two.              *)
Plain == [h \in ModeHeaders |-> "plain"]
Kraken == [h \in ModeHeaders |-> "kraken"]
Dell == [h \in ModeHeaders |-> "dell"]

(* A chip that keeps every duty, and one with sixteen steps. *)
Exact == [d \in Duty |-> d]
Coarse == [d \in Duty |-> IF d = 100 THEN 100 ELSE (d \div 6) * 6]

Forty == {40}
ZeroOrForty == {0, 40}
TwentyOrNothing == {NoDuty, 20}
=============================================================================
