----------------------------- MODULE ProfileStore -----------------------------
(***************************************************************************)
(* The stored profiles, the active one and the saved choice (handlers/     *)
(* profile.rs, profile_store.rs, daemon_state.rs, and main.rs where a boot *)
(* loads the saved profile).                                               *)
(*                                                                         *)
(* A document is one text of a profile; `Id` is the profile it defines.    *)
(* STORE_LOCK is held from an activation's or a deactivation's swap until  *)
(* its choice is on disk, so it is free exactly when nothing is being      *)
(* persisted.  A store or a delete holds it over its own check and write,  *)
(* and nothing it reads can change meanwhile: each is one step, and so is  *)
(* an activation's check that the file is still there with its swap.       *)
(* A preset, a profile in another search directory, is only ever read; one *)
(* shadowed by a stored profile of its id is left out.                     *)
(***************************************************************************)
EXTENDS Naturals, FiniteSets

CONSTANTS
    Docs,                 \* the documents
    Ids,                  \* the profile ids
    IdOf,                 \* document -> id
    Presets,              \* the ids of presets
    NoDoc, NoId,
    MaxStored,            \* MAX_STORED_PROFILES
    MaxActivations        \* activations in one boot; a bound

ASSUME DocsAssumption ==
    /\ IdOf \in [Docs -> Ids] /\ NoDoc \notin Docs /\ NoId \notin Ids
    /\ Presets \subseteq Ids /\ MaxStored \in Nat /\ MaxActivations \in Nat

VARIABLES
    files,          \* id -> the document in its file, or NoDoc
    saved,          \* daemon_state.json: the id saved as active, or NoId
    active,         \* active_profile: a document, or NoDoc
    epoch,          \* the cache's profile activation epoch
    chosen,         \* documents read by activations that wait for the lock
    persisting,     \* the choices on their way to the disk
    drifted         \* history: the saved choice is known not to be the active one

storeVars == <<files, saved, active, epoch, chosen, persisting, drifted>>

Choice(d) == IF d = NoDoc THEN NoId ELSE IdOf[d]

(* Mutant of StoreLockFree: the lock is let go before the save. *)
StoreNeverLocked == TRUE
StoreLockFree == persisting = {}
is_active(i) == Choice(active) = i

(* The profile a boot finds: `loads` is whether the saved one can be read. *)
resolve_persisted_profile(loads) == IF saved # NoId /\ loads THEN files[saved] ELSE NoDoc

StoreInit ==
    /\ files \in [Ids -> Docs \cup {NoDoc}]
    /\ \A i \in Ids : files[i] # NoDoc => IdOf[files[i]] = i
    /\ \A i \in Presets : files[i] # NoDoc
    /\ saved = NoId /\ active = NoDoc
    /\ epoch = 0 /\ chosen = {} /\ persisting = {} /\ drifted = FALSE

(* activate_profile_handler up to the lock: the document is read first. *)
ActivationReads(d) ==
    /\ files[IdOf[d]] = d /\ chosen = {} /\ epoch < MaxActivations
    /\ chosen' = {d}
    /\ UNCHANGED <<files, saved, active, epoch, persisting, drifted>>

(* A delete that won the race is not activated. *)
StillThere(d) == files[IdOf[d]] # NoDoc

ActivationRefused(d) ==
    /\ d \in chosen /\ StoreLockFree /\ ~StillThere(d)
    /\ chosen' = chosen \ {d}
    /\ UNCHANGED <<files, saved, active, epoch, persisting, drifted>>

(* commit_activation's swap, and the save it starts. *)
commit_activation(d) ==
    /\ d \in chosen /\ StoreLockFree /\ StillThere(d)
    /\ chosen' = chosen \ {d}
    /\ active' = d /\ epoch' = epoch + 1
    /\ persisting' = persisting \cup {IdOf[d]}
    /\ UNCHANGED <<files, saved, drifted>>

deactivate_and_persist ==
    /\ StoreLockFree
    /\ active' = NoDoc
    /\ persisting' = persisting \cup {NoId}
    /\ UNCHANGED <<files, saved, epoch, chosen, drifted>>

(* save_state returns; a failure is only logged. *)
Persisted(id, ok) ==
    /\ id \in persisting
    /\ persisting' = persisting \ {id}
    /\ saved' = IF ok THEN id ELSE saved
    /\ drifted' = ~ok
    /\ UNCHANGED <<files, active, epoch, chosen>>

Stored == {i \in Ids \ Presets : files[i] # NoDoc}

(* POST refuses an id already stored, PUT replaces it; a new id is refused *)
(* when the store is full.                                                 *)
store(d, overwrite) ==
    /\ StoreLockFree /\ IdOf[d] \notin Presets
    /\ files[IdOf[d]] # NoDoc => overwrite
    /\ files[IdOf[d]] = NoDoc => Cardinality(Stored) < MaxStored
    /\ files' = [files EXCEPT ![IdOf[d]] = d]
    /\ UNCHANGED <<saved, active, epoch, chosen, persisting, drifted>>

delete(i) ==
    /\ StoreLockFree /\ i \notin Presets /\ ~is_active(i) /\ files[i] # NoDoc
    /\ files' = [files EXCEPT ![i] = NoDoc]
    /\ UNCHANGED <<saved, active, epoch, chosen, persisting, drifted>>

(* The process ends, at any point, and the next one starts.  A save on its *)
(* way is on the disk or not: Persisted stands for the first.              *)
StoreBoots(loads) ==
    /\ active' = resolve_persisted_profile(loads)
    /\ drifted' = (Choice(active') # saved)
    /\ epoch' = 0 /\ chosen' = {} /\ persisting' = {}
    /\ UNCHANGED <<files, saved>>
=============================================================================
