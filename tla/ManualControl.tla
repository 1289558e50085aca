----------------------------- MODULE ManualControl -----------------------------
(***************************************************************************)
(* Who decides what a fan is driven at: the active profile, the clients'   *)
(* manual overrides, the identify holds, the header roles and a firmware   *)
(* update (handlers/control.rs, profile.rs, config.rs, openfan_firmware.rs)*)
(* with the engine tick that reads all of them (profile_engine/mod.rs).    *)
(*                                                                         *)
(* The locks: active_profile (outer) and override_table (inner).  A        *)
(* handler that holds one of them over several changes makes them in one   *)
(* step; a handler that takes them one after the other takes one step for  *)
(* each.  The engine tick takes override_table, lets it go, and then takes *)
(* active_profile: two steps.                                              *)
(***************************************************************************)
EXTENDS OverrideTable, ProfileStore, MaintenanceClaim

CONSTANTS
    Clients,
    ControlsOf,       \* document -> its controls
    PumpsOf,          \* document -> the fans it names pumps
    MembersOf,        \* control -> its fans
    OpenFans,         \* the fans that are OpenFan channels
    InferredPumps,    \* the fans their own label or chip names a pump
    MaxTakes,         \* overrides taken in the first boot, one fewer in each later
                      \* one; a bound
    MaxBoots          \* boots; a bound

ASSUME ControlAssumption ==
    /\ ControlsOf \in [Docs -> SUBSET Controls] /\ PumpsOf \in [Docs -> SUBSET Fans]
    /\ MembersOf \in [Controls -> SUBSET Fans]
    /\ OpenFans \subseteq Fans /\ InferredPumps \subseteq Fans
    /\ MaxTakes \in Nat /\ MaxBoots \in Nat

VARIABLES
    held,          \* client -> the grant it believes it holds, or NoGrant
    boot,          \* history: which boot this is
    pumps,         \* header_roles: the fans assigned the pump role
    releasing,     \* the fan whose hold update_header_role_handler has yet to release
    update,        \* the firmware update's start: "none", "claimed", "read", "begun"
    toRelease,     \* the controls release_openfan_overrides read
    tick,          \* the engine tick: "idle", or "read" between its two locks
    pinned, stops, \* its OverrideSnapshot: the live overrides and holds it read
    lastEpoch,     \* the last activation epoch it saw
    anchor         \* control -> its last_output: "none", "current", or "old" once
                   \* an override has paused it

clientVars == <<held, boot>>
roleVars == <<pumps, releasing>>
updateVars == <<link, claim, update, toRelease>>
engineVars == <<tick, pinned, stops, lastEpoch, anchor>>
vars == <<tableVars, storeVars, clientVars, roleVars, updateVars, engineVars>>

NoGrant == [control |-> "none", token |-> 0, boot |-> 0]
Grant(c) == [control |-> c, token |-> next_token + 1, boot |-> boot]
NoFan == "none"

ASSUME NoFanAssumption == NoFan \notin Fans

ActiveControls == IF active = NoDoc THEN {} ELSE ControlsOf[active]
ActivePumps == IF active = NoDoc THEN {} ELSE PumpsOf[active]
drives_openfan(c) == MembersOf[c] \cap OpenFans # {}
OpenFanControls == {c \in ActiveControls : drives_openfan(c)}
is_pump_protected(f) == f \in pumps \cup InferredPumps \cup ActivePumps

EngineInit ==
    /\ tick = "idle" /\ pinned = NoOverrides /\ stops = NoHolds
    /\ lastEpoch = 0 /\ anchor = [c \in Controls |-> "none"]

Init ==
    /\ TableInit /\ StoreInit /\ EngineInit
    /\ held = [k \in Clients |-> NoGrant] /\ boot = 1
    /\ pumps = {} /\ releasing = NoFan
    /\ link = "connected" /\ claim = NoClaim /\ update = "none" /\ toRelease = {}

----------------------------------------------------------------------------
(* The clients' overrides. *)

(* Mutant of override_take_handler: a running update is not looked at. *)
override_take_handler_always(k, c) ==
    /\ c \in ActiveControls /\ next_token + boot =< MaxTakes
    /\ take_override(c, epoch, k)
    /\ held' = [held EXCEPT ![k] = Grant(c)]
    /\ UNCHANGED <<identify, boot, storeVars, roleVars, updateVars, engineVars>>

override_take_handler(k, c) ==
    /\ c \in ActiveControls /\ next_token + boot =< MaxTakes
    /\ ~(drives_openfan(c) /\ openfan_maintenance_running)
    /\ take_override(c, epoch, k)
    /\ held' = [held EXCEPT ![k] = Grant(c)]
    /\ UNCHANGED <<identify, boot, storeVars, roleVars, updateVars, engineVars>>

override_renew_handler(k) ==
    /\ held[k] # NoGrant
    /\ renew_override(held[k].control, held[k].token, k)
    /\ UNCHANGED <<identify, next_token, storeVars, clientVars, roleVars, updateVars, engineVars>>

(* A refused release and an accepted one both end the client's own. *)
override_release_handler(k) ==
    /\ held[k] # NoGrant
    /\ \/ release_override(held[k].control, held[k].token)
       \/ ~Holds(held[k].control, held[k].token) /\ UNCHANGED overrides
    /\ held' = [held EXCEPT ![k] = NoGrant]
    /\ UNCHANGED <<identify, next_token, boot, storeVars, roleVars, updateVars, engineVars>>

(* Mutant of IdentifyMode: the user's assignment is left out. *)
IdentifyModeUnassigned(f) == IF f \in InferredPumps \cup ActivePumps THEN "perturb" ELSE "stop"

(* fan_identify_handler, stop and restore.  The inferred role is read before *)
(* the locks and never changes; the rest is decided under them.            *)
IdentifyMode(f) == IF is_pump_protected(f) THEN "perturb" ELSE "stop"
fan_identify_handler(f) ==
    /\ ~(f \in OpenFans /\ openfan_maintenance_running)
    /\ identify_hold(f, IdentifyMode(f))
    /\ UNCHANGED <<overrides, next_token, storeVars, clientVars, roleVars, updateVars, engineVars>>
IdentifyRestores(f) ==
    /\ identify[f].here /\ identify_restore(f)
    /\ UNCHANGED <<overrides, next_token, storeVars, clientVars, roleVars, updateVars, engineVars>>

----------------------------------------------------------------------------
(* update_header_role_handler: it saves the assignment, swaps header_roles, *)
(* and then releases a hold on a new pump.  config_write is held over both. *)

RoleSwaps(f, pump) ==
    /\ releasing = NoFan /\ pump # (f \in pumps)
    /\ pumps' = IF pump THEN pumps \cup {f} ELSE pumps \ {f}
    /\ releasing' = IF pump THEN f ELSE NoFan
    /\ UNCHANGED <<tableVars, storeVars, clientVars, updateVars, engineVars>>

RoleReleases ==
    /\ releasing # NoFan /\ identify_restore(releasing)
    /\ releasing' = NoFan
    /\ UNCHANGED <<overrides, next_token, pumps, storeVars, clientVars, updateVars, engineVars>>

----------------------------------------------------------------------------
(* Profiles. *)

(* Mutant of activate_profile_handler: the overrides stay. *)
activate_profile_handler_keeps(d) ==
    /\ commit_activation(d)
    /\ release_identify_stops(PumpsOf[d])
    /\ UNCHANGED <<overrides, next_token, clientVars, roleVars, updateVars, engineVars>>

activate_profile_handler(d) ==
    /\ commit_activation(d)
    /\ overrides' = NoOverrides
    /\ release_identify_stops(PumpsOf[d])
    /\ UNCHANGED <<next_token, clientVars, roleVars, updateVars, engineVars>>

deactivate_profile_handler ==
    /\ deactivate_and_persist
    /\ overrides' = NoOverrides
    /\ UNCHANGED <<identify, next_token, clientVars, roleVars, updateVars, engineVars>>

StoreChanges ==
    /\ \/ \E d \in Docs : ActivationReads(d) \/ ActivationRefused(d)
       \/ \E d \in Docs, overwrite \in BOOLEAN : store(d, overwrite)
       \/ \E i \in Ids : delete(i)
       \/ \E id \in Ids \cup {NoId}, ok \in BOOLEAN : Persisted(id, ok)
    /\ UNCHANGED <<tableVars, clientVars, roleVars, updateVars, engineVars>>

----------------------------------------------------------------------------
(* A firmware update's start and end, as far as the table is concerned: the *)
(* claim, then the release of every hold on an OpenFan channel.            *)

UpdateClaims(id) ==
    /\ update = "none" /\ try_begin_openfan_maintenance(id)
    /\ update' = "claimed"
    /\ UNCHANGED <<link, toRelease, tableVars, storeVars, clientVars, roleVars, engineVars>>

ReadsControls ==
    /\ update = "claimed" /\ update' = "read"
    /\ toRelease' = OpenFanControls
    /\ UNCHANGED <<link, claim, tableVars, storeVars, clientVars, roleVars, engineVars>>

release_openfan_overrides ==
    /\ update = "read" /\ update' = "begun"
    /\ release_for_maintenance(toRelease, OpenFans)
    /\ toRelease' = {}
    /\ UNCHANGED <<next_token, link, claim, storeVars, clientVars, roleVars, engineVars>>

UpdateEnds ==
    /\ update = "begun" /\ update' = "none"
    /\ end_openfan_maintenance(claim.run, FALSE)
    /\ UNCHANGED <<link, toRelease, tableVars, storeVars, clientVars, roleVars, engineVars>>

----------------------------------------------------------------------------
(* The engine tick. *)

TickReads ==
    /\ tick = "idle" /\ tick' = "read"
    /\ sweep
    /\ anchor' = [c \in Controls |-> IF c \in Lapsed THEN "none" ELSE anchor[c]]
    /\ pinned' = LiveOverrides /\ stops' = LiveHolds
    /\ UNCHANGED <<next_token, lastEpoch, storeVars, clientVars, roleVars, updateVars>>

(* The anchors as this evaluation finds them. *)
Anchors == IF epoch # lastEpoch \/ active = NoDoc THEN [c \in Controls |-> "none"] ELSE anchor
Pins(c) == c \in ActiveControls /\ pinned[c].live
Follows(c) == c \in ActiveControls /\ ~pinned[c].live

evaluate_profile_with_overrides ==
    anchor' = [c \in Controls |->
                 IF Follows(c) THEN "current"
                 ELSE IF Pins(c) /\ Anchors[c] = "current" THEN "old" ELSE Anchors[c]]

TickEvaluates ==
    /\ tick = "read" /\ tick' = "idle"
    /\ evaluate_profile_with_overrides
    /\ lastEpoch' = epoch
    /\ pinned' = NoOverrides /\ stops' = NoHolds
    /\ UNCHANGED <<tableVars, storeVars, clientVars, roleVars, updateVars>>

----------------------------------------------------------------------------
(* The daemon dies and is started again: the table and its tokens are gone; *)
(* the roles are on disk and the clients still know their grants.          *)

Boots(loads) ==
    /\ boot < MaxBoots /\ boot' = boot + 1
    /\ StoreBoots(loads)
    /\ overrides' = NoOverrides /\ identify' = NoHolds /\ next_token' = 0
    /\ releasing' = NoFan
    /\ claim' = NoClaim /\ update' = "none" /\ toRelease' = {}
    /\ tick' = "idle" /\ pinned' = NoOverrides /\ stops' = NoHolds
    /\ lastEpoch' = 0 /\ anchor' = [c \in Controls |-> "none"]
    /\ UNCHANGED <<held, pumps, link>>

DeadmanFires ==
    /\ \/ \E c \in Controls : OverrideExpires(c)
       \/ \E f \in Fans : HoldExpires(f)
    /\ UNCHANGED <<storeVars, clientVars, roleVars, updateVars, engineVars>>

Next ==
    \/ \E k \in Clients, c \in Controls : override_take_handler(k, c)
    \/ \E k \in Clients : override_renew_handler(k) \/ override_release_handler(k)
    \/ \E f \in Fans : fan_identify_handler(f) \/ IdentifyRestores(f)
    \/ \E f \in Fans, pump \in BOOLEAN : RoleSwaps(f, pump)
    \/ RoleReleases
    \/ \E d \in Docs : activate_profile_handler(d)
    \/ deactivate_profile_handler
    \/ StoreChanges
    \/ \E id \in RunIds : UpdateClaims(id)
    \/ ReadsControls \/ release_openfan_overrides \/ UpdateEnds
    \/ TickReads \/ TickEvaluates
    \/ DeadmanFires
    \/ \E loads \in BOOLEAN : Boots(loads)

Spec == Init /\ [][Next]_vars

----------------------------------------------------------------------------
(* The variables hold what the code's types allow. *)
TypeOK ==
    /\ \A c \in Controls : overrides[c] = None \/
          /\ overrides[c].token \in 1..next_token /\ overrides[c].epoch \in 0..epoch
          /\ {overrides[c].by, overrides[c].kept} \subseteq Clients
    /\ \A f \in Fans : identify[f] = None \/ identify[f].mode \in {"stop", "perturb"}
    /\ \A i \in Ids : files[i] # NoDoc => IdOf[files[i]] = i
    /\ saved \in Ids \cup {NoId} /\ active \in Docs \cup {NoDoc} /\ epoch \in Nat
    /\ chosen \subseteq Docs /\ Cardinality(persisting) <= 1
    /\ pumps \subseteq Fans /\ releasing \in Fans \cup {NoFan}
    /\ claim \in Claims /\ toRelease \subseteq Controls
    /\ anchor \in [Controls -> {"none", "current", "old"}]

(* An override in the table was taken under the activation in force, for a *)
(* control of the profile it activated: whatever the order of takes,       *)
(* renewals, activations and deactivations, none is carried over (DEC-189, *)
(* commit_activation and override_take_handler).                           *)
OverridesOfThisActivation ==
    \A c \in Controls : overrides[c].here => c \in ActiveControls /\ overrides[c].epoch = epoch

(* No identify stop is held on a fan that anything protects as a pump: its *)
(* label, the active profile, or an assignment whose handler has passed    *)
(* its release (TS-af, TS-ax: fan_identify_handler, commit_activation,     *)
(* update_header_role_handler).                                            *)
NoStopOnPump ==
    \A f \in InferredPumps \cup ActivePumps \cup (pumps \ {releasing}) : ~IsStop(identify[f])

(* From the moment a firmware update has released the holds on its channels *)
(* until it ends, nobody has an override or an identify on one (DEC-481),  *)
(* though profiles may be swapped between its claim, its reading of the    *)
(* profile and its release.                                                *)
UpdateOwnsItsChannels ==
    update = "begun" =>
        /\ \A c \in OpenFanControls : ~overrides[c].here
        /\ \A f \in OpenFans : ~identify[f].here

(* With the store lock free and no save or load failed, a restart would    *)
(* bring back the profile that is active, and its file is there to load    *)
(* (FFA-j): no activation, deactivation or delete overtakes another.       *)
SavedIsActive ==
    StoreLockFree /\ ~drifted => saved = Choice(active) /\ (saved # NoId => files[saved] # NoDoc)

(* A token keeps or ends only the override it was granted for, by whichever *)
(* client and however late it is used, within one boot (renew_override,    *)
(* release_override).                                                      *)
UsesGrant(k) == override_renew_handler(k) \/ (override_release_handler(k) /\ overrides' # overrides)
ActsOnItsOwn(k) == UsesGrant(k) => overrides[held[k].control].by = k
FencedInBoot == [][\A k \in Clients : held[k].boot = boot => ActsOnItsOwn(k)]_vars

(* The same across a restart: "Strictly increasing, never reused - a token *)
(* is globally unique and totally ordered" (control_override.rs:204).      *)
Fenced == [][\A k \in Clients : ActsOnItsOwn(k)]_vars

(* The engine reads the overrides before it takes the profile, so a tick   *)
(* may pin a control of a profile activated in between; but only the first *)
(* tick that sees the activation can (profile_engine_loop).                *)
StaleAtMostOneTick ==
    [][\A c \in Controls :
         TickEvaluates /\ Pins(c) /\ pinned[c].epoch # epoch => lastEpoch # epoch]_vars

(* A control that follows its curve again does not step from the output it *)
(* had before an override paused it: reset_control is "Called when a manual *)
(* override clears (release or expiry)" (profile_engine/mod.rs:452).       *)
Reanchors == [][\A c \in Controls : TickEvaluates /\ Follows(c) => Anchors[c] # "old"]_vars
=============================================================================
