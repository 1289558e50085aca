--------------------------- MODULE MaintenanceClaim ---------------------------
(***************************************************************************)
(* A firmware update's standing in the shared state (health/cache.rs,      *)
(* health/state.rs `OpenFanMaintenance`): who has the OpenFan controller,  *)
(* whether the engine and the thermal force may write it, and the link the *)
(* poll loop reports.  Each operation is one decision under the cache's    *)
(* write guard.  The refusals for a diagnostic that holds the write pause  *)
(* and for an emergency start nothing and are not told apart from a start  *)
(* nobody made.                                                            *)
(***************************************************************************)
EXTENDS Naturals

CONSTANT RunIds      \* the updates ever started, numbered from 1; a bound

ASSUME RunIdsAssumption == RunIds \subseteq Nat \ {0}

VARIABLES
    link,      \* what the poll loop reports; "none" before there is one
    claim      \* StateCache's openfan_maintenance

NoRun == 0
NoClaim == [held |-> "none", run |-> NoRun, suspended |-> FALSE]
Running(id, s) == [held |-> "running", run |-> id, suspended |-> s]
NeedsRecovery(id) == [held |-> "recovery", run |-> id, suspended |-> TRUE]

Links == {"none", "connected", "unresponsive", "reconnecting"}
Claims == {NoClaim} \cup [held : {"running"}, run : RunIds, suspended : BOOLEAN]
                    \cup [held : {"recovery"}, run : RunIds, suspended : {TRUE}]

openfan_maintenance_running == claim.held = "running"
openfan_writes_suspended == claim.suspended
Owns(id) == openfan_maintenance_running /\ claim.run = id

(* A board that answers ends the recovery the last run left. *)
set_openfan_link(l) ==
    /\ link' = l
    /\ claim' = IF l = "connected" /\ claim.held = "recovery" THEN NoClaim ELSE claim

try_begin_openfan_maintenance(id) ==
    /\ claim.held = "none" /\ link = "connected"
    /\ claim' = Running(id, FALSE)

(* The recovery it replaces is what the caller keeps as `prior`. *)
try_begin_silent_openfan_maintenance(id) ==
    /\ ~openfan_maintenance_running /\ link # "connected"
    /\ claim' = Running(id, TRUE)

suspend_openfan_writes(id) == claim' = IF Owns(id) THEN [claim EXCEPT !.suspended = TRUE] ELSE claim
resume_openfan_writes(id) == claim' = IF Owns(id) THEN [claim EXCEPT !.suspended = FALSE] ELSE claim

end_openfan_maintenance(id, needsRecovery) ==
    claim' = IF Owns(id) THEN IF needsRecovery THEN NeedsRecovery(id) ELSE NoClaim ELSE claim

(* `prior` is the run whose recovery the claim of `id` replaced. *)
end_openfan_maintenance_restoring(id, prior) ==
    claim' = IF Owns(id) THEN NeedsRecovery(prior) ELSE claim

(* At startup, over nothing. *)
restore_openfan_recovery(id) ==
    claim' = IF claim.held = "none" THEN NeedsRecovery(id) ELSE claim
=============================================================================
