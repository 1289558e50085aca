----------------------------- MODULE OverrideTable -----------------------------
(***************************************************************************)
(* The table of manual overrides and identify holds (control_override.rs). *)
(* Every operation runs under the table's lock.                            *)
(*                                                                         *)
(* An entry's deadman is `live`: TRUE until its TTL, fixed by the daemon's *)
(* own clock, has run out.  The duty it pins is left out; `mode` is what   *)
(* an identify does, "stop" (duty 0) or "perturb" (a duty at or above the  *)
(* pump floor).  Three fields are history no operation reads: the          *)
(* activation an override was taken under, the client that took it, and    *)
(* the client that last kept it alive.                                     *)
(***************************************************************************)
EXTENDS Naturals

CONSTANTS Controls, Fans

VARIABLES
    overrides,     \* OverrideTable's controls: control -> its override, or None
    identify,      \* its identify: fan -> its hold, or None
    next_token     \* the last token issued in this boot

tableVars == <<overrides, identify, next_token>>

None == [live |-> FALSE, here |-> FALSE]
Override(token, epoch, k) ==
    [live |-> TRUE, here |-> TRUE, token |-> token, epoch |-> epoch, by |-> k, kept |-> k]
Hold(mode) == [live |-> TRUE, here |-> TRUE, mode |-> mode]

NoOverrides == [c \in Controls |-> None]
NoHolds == [f \in Fans |-> None]

TableInit == overrides = NoOverrides /\ identify = NoHolds /\ next_token = 0

(* A new token, whoever held the control. *)
take_override(c, epoch, k) ==
    /\ next_token' = next_token + 1
    /\ overrides' = [overrides EXCEPT ![c] = Override(next_token + 1, epoch, k)]

(* Mutant of Holds: any live override answers. *)
HoldsAny(c, token) == overrides[c].live

(* Renew and release ask the entry to be live and to carry the token; the  *)
(* refusals, StaleToken and NotActive, change nothing.                     *)
Holds(c, token) == overrides[c].live /\ overrides[c].token = token

(* The deadman starts again. *)
renew_override(c, token, k) ==
    Holds(c, token) /\ overrides' = [overrides EXCEPT ![c].live = TRUE, ![c].kept = k]
release_override(c, token) == Holds(c, token) /\ overrides' = [overrides EXCEPT ![c] = None]

identify_hold(f, mode) == identify' = [identify EXCEPT ![f] = Hold(mode)]
identify_restore(f) == identify' = [identify EXCEPT ![f] = None]

IsStop(h) == h.here /\ h.mode = "stop"
release_identify_stops(fans) ==
    identify' = [f \in Fans |-> IF f \in fans /\ IsStop(identify[f]) THEN None ELSE identify[f]]

release_for_maintenance(controls, fans) ==
    /\ overrides' = [c \in Controls |-> IF c \in controls THEN None ELSE overrides[c]]
    /\ identify' = [f \in Fans |-> IF f \in fans THEN None ELSE identify[f]]

(* The controls whose override the sweep drops, and the table it leaves; the *)
(* engine's snapshot is the same live entries.                             *)
Lapsed == {c \in Controls : overrides[c].here /\ ~overrides[c].live}
LiveOverrides == [c \in Controls |-> IF overrides[c].live THEN overrides[c] ELSE None]
LiveHolds == [f \in Fans |-> IF identify[f].live THEN identify[f] ELSE None]
sweep == overrides' = LiveOverrides /\ identify' = LiveHolds

(* The clock reaches an entry's expires_at. *)
OverrideExpires(c) ==
    /\ overrides[c].live /\ overrides' = [overrides EXCEPT ![c].live = FALSE]
    /\ UNCHANGED <<identify, next_token>>
HoldExpires(f) ==
    /\ identify[f].live /\ identify' = [identify EXCEPT ![f].live = FALSE]
    /\ UNCHANGED <<overrides, next_token>>
=============================================================================
