------------------------------ MODULE MCOpenFan ------------------------------
(* OpenFan for TLC: a profile that stops the first channel and drives the  *)
(* other, and no profile at all.                                           *)
EXTENDS OpenFan

MCProfiles == {[c \in Channels |-> NoDuty],
               [c \in Channels |-> IF c = 0 THEN 0 ELSE 60]}
MCPersisted == {[c \in Channels |-> IF c = 0 THEN 0 ELSE 60]}
MCTestDuties == {20}
=============================================================================
