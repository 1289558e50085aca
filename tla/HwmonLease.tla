------------------------------ MODULE HwmonLease ------------------------------
(***************************************************************************)
(* The hwmon write arbiter (hwmon/lease.rs, `LeaseManager`): at most one   *)
(* lease, taken by the engine, by a diagnostic ("verify") or by thermal    *)
(* safety, valid until its TTL runs out or somebody force-takes it.        *)
(*                                                                         *)
(* The code numbers leases with an ever-growing counter; only whether two  *)
(* ids are the same is ever tested, so a fresh lease gets any id that      *)
(* nobody still holds.                                                     *)
(***************************************************************************)
EXTENDS Integers

CONSTANT LeaseIds       \* enough ids for every holder at once, and one more

Owners == {"engine", "verify", "thermal"}

VARIABLE lease          \* LeaseManager::active; `live` is now < expires_at

NoId == 0
NoLease == [id |-> NoId, owner |-> "engine", live |-> FALSE]

ASSUME LeaseAssumption == NoId \notin LeaseIds

Leases == [id : LeaseIds \cup {NoId}, owner : Owners, live : BOOLEAN]

LeaseInit == lease = NoLease

validate_lease(id) == lease.live /\ lease.id = id

(* The lease itself, for take_lease (only when ~lease.live) and for        *)
(* force_take_lease (always, evicting whoever holds it).                   *)
TakeLease(id, owner) == lease' = [id |-> id, owner |-> owner, live |-> TRUE]

(* release_lease: an expired lease is still released by its own id. *)
release_lease(id) == lease' = IF lease.id = id THEN NoLease ELSE lease

(* The TTL runs out; renew_lease no longer brings it back. *)
Expire ==
    /\ lease.live
    /\ lease' = [lease EXCEPT !.live = FALSE]
=============================================================================
