-------------------------- MODULE ManualControlProofs --------------------------
(***************************************************************************)
(* What is proved of ManualControl, for every set of documents, controls,  *)
(* fans and clients and every bound: its types; that no override outlives  *)
(* its activation; that no pump is held stopped; that an update has its    *)
(* channels to itself; that the saved profile is the active one; that a    *)
(* token acts only on its own override; and that an override outlives its  *)
(* profile by one tick at most.                                            *)
(***************************************************************************)
EXTENDS ManualControl, FiniteSetTheorems, TLAPS

(* Every entry but None. *)
Overridden ==
    [live : BOOLEAN, here : {TRUE}, token : Nat \ {0}, epoch : Nat, by : Clients, kept : Clients]
Held == [live : BOOLEAN, here : {TRUE}, mode : {"stop", "perturb"}]
Granted == [control : Controls, token : Nat \ {0}, boot : Nat \ {0}]

TableTypes ==
    /\ overrides \in [Controls -> {None} \cup Overridden]
    /\ identify \in [Fans -> {None} \cup Held]
    /\ next_token \in Nat /\ boot \in Nat \ {0}
    /\ held \in [Clients -> {NoGrant} \cup Granted]

StoreTypes ==
    /\ files \in [Ids -> Docs \cup {NoDoc}]
    /\ \A i \in Ids : files[i] # NoDoc => IdOf[files[i]] = i
    /\ saved \in Ids \cup {NoId} /\ active \in Docs \cup {NoDoc} /\ epoch \in Nat
    /\ chosen \subseteq Docs /\ drifted \in BOOLEAN

OtherTypes ==
    /\ pumps \subseteq Fans /\ releasing \in Fans \cup {NoFan}
    /\ claim \in Claims /\ toRelease \subseteq Controls
    /\ update \in {"none", "claimed", "read", "begun"}
    /\ tick \in {"idle", "read"} /\ pinned \in [Controls -> {None} \cup Overridden]
    /\ lastEpoch \in Nat /\ anchor \in [Controls -> {"none", "current", "old"}]

Types == TableTypes /\ StoreTypes /\ OtherTypes

(* What is on its way to the disk is the choice in force, whose file is    *)
(* there; once it has arrived the disk and the cache agree.                *)
StoreInv ==
    /\ persisting \subseteq {Choice(active)}
    /\ active # NoDoc => files[IdOf[active]] # NoDoc
    /\ persisting = {} /\ ~drifted => saved = Choice(active)

(* A token is issued once in a boot, and the override that carries it is   *)
(* its taker's.                                                            *)
Issued(k) == held[k].boot = boot
TokenInv ==
    /\ \A c \in Controls : overrides[c].here => overrides[c].token <= next_token
    /\ \A k \in Clients : held[k].boot <= boot /\ (Issued(k) => held[k].token <= next_token)
    /\ \A k \in Clients, c \in Controls :
          (Issued(k) /\ overrides[c].here /\ overrides[c].token = held[k].token)
             => overrides[c].by = k

(* The update has the claim from its start, so nothing is added to the     *)
(* channels behind it; what it has read covers the overrides still there.  *)
UpdateInv ==
    /\ update # "none" => openfan_maintenance_running
    /\ update = "read" => \A c \in OpenFanControls : overrides[c].here => c \in toRelease
    /\ UpdateOwnsItsChannels

(* A tick between its two locks pins overrides no older than the last      *)
(* evaluation.                                                             *)
TickInv ==
    /\ lastEpoch <= epoch
    /\ tick = "read" => \A c \in Controls : pinned[c].live =>
          lastEpoch <= pinned[c].epoch /\ pinned[c].epoch <= epoch

ControlInv ==
    /\ Types /\ StoreInv /\ OverridesOfThisActivation /\ TokenInv
    /\ NoStopOnPump /\ UpdateInv /\ TickInv

----------------------------------------------------------------------------
(* What the operations make of an entry. *)
LEMMA Entries ==
    /\ None \notin Overridden /\ None \notin Held
    /\ ~None.live /\ ~None.here
    /\ \A o \in Overridden : o.here /\ o.live \in BOOLEAN
    /\ \A h \in Held : h.here
  BY DEF None, Overridden, Held

LEMMA NewOverride ==
    ASSUME NEW t \in Nat, NEW e \in Nat, NEW k \in Clients
    PROVE  /\ Override(t + 1, e, k) \in Overridden
           /\ Override(t + 1, e, k).token = t + 1
           /\ Override(t + 1, e, k).epoch = e /\ Override(t + 1, e, k).by = k
  BY DEF Override, Overridden

(* The same override, its deadman aside. *)
SameOverride(o, p) ==
    /\ o \in Overridden /\ p \in Overridden
    /\ p.token = o.token /\ p.epoch = o.epoch /\ p.by = o.by
SameHold(h, g) == h \in Held /\ g \in Held /\ g.mode = h.mode

KeptOverride(c) ==
    overrides'[c] = overrides[c] \/ overrides'[c] = None \/ SameOverride(overrides[c], overrides'[c])
KeptHold(f) ==
    identify'[f] = identify[f] \/ identify'[f] = None \/ SameHold(identify[f], identify'[f])

LEMMA RenewedOverride ==
    ASSUME TableTypes, NEW c \in Controls, overrides[c].live, NEW k \in Clients,
           overrides' = [overrides EXCEPT ![c].live = TRUE, ![c].kept = k]
    PROVE  /\ overrides' \in [Controls -> {None} \cup Overridden]
           /\ \A e \in Controls : KeptOverride(e)
<1> DEFINE o == overrides[c]
           p == [[o EXCEPT !.live = TRUE] EXCEPT !.kept = k]
<1>1. o \in Overridden
  BY Entries DEF TableTypes
<1>2. SameOverride(o, p)
  BY <1>1 DEF SameOverride, Overridden
<1>3. overrides' = [overrides EXCEPT ![c] = p]
  BY DEF TableTypes
<1> HIDE DEF p
<1>4. QED
  BY <1>2, <1>3 DEF KeptOverride, TableTypes, SameOverride

LEMMA LapsedOverride ==
    ASSUME TableTypes, NEW c \in Controls, overrides[c].live,
           overrides' = [overrides EXCEPT ![c].live = FALSE]
    PROVE  /\ overrides' \in [Controls -> {None} \cup Overridden]
           /\ \A e \in Controls : KeptOverride(e)
<1> DEFINE o == overrides[c]
           p == [o EXCEPT !.live = FALSE]
<1>1. o \in Overridden
  BY Entries DEF TableTypes
<1>2. SameOverride(o, p)
  BY <1>1 DEF SameOverride, Overridden
<1>3. overrides' = [overrides EXCEPT ![c] = p]
  BY DEF TableTypes
<1> HIDE DEF p
<1>4. QED
  BY <1>2, <1>3 DEF KeptOverride, TableTypes, SameOverride

LEMMA LapsedHold ==
    ASSUME TableTypes, NEW f \in Fans, identify[f].live,
           identify' = [identify EXCEPT ![f].live = FALSE]
    PROVE  /\ identify' \in [Fans -> {None} \cup Held]
           /\ \A g \in Fans : KeptHold(g)
<1> DEFINE o == identify[f]
           p == [o EXCEPT !.live = FALSE]
<1>1. o \in Held
  BY Entries DEF TableTypes
<1>2. SameHold(o, p)
  BY <1>1 DEF SameHold, Held
<1>3. identify' = [identify EXCEPT ![f] = p]
  BY DEF TableTypes
<1> HIDE DEF p
<1>4. QED
  BY <1>2, <1>3 DEF KeptHold, TableTypes, SameHold

(* A table of fewer entries. *)
LEMMA FewerOverrides ==
    ASSUME TableTypes, NEW S,
           overrides' = [c \in Controls |-> IF c \in S THEN None ELSE overrides[c]]
    PROVE  /\ overrides' \in [Controls -> {None} \cup Overridden]
           /\ \A e \in Controls : KeptOverride(e)
  BY DEF TableTypes, KeptOverride

LEMMA FewerHolds ==
    ASSUME TableTypes, NEW S, identify' = [f \in Fans |-> IF f \in S THEN None ELSE identify[f]]
    PROVE  /\ identify' \in [Fans -> {None} \cup Held]
           /\ \A g \in Fans : KeptHold(g)
  BY DEF TableTypes, KeptHold

LEMMA NoEntries ==
    ASSUME TableTypes
    PROVE  /\ overrides' = NoOverrides => /\ overrides' \in [Controls -> {None} \cup Overridden]
                                         /\ \A e \in Controls : KeptOverride(e)
           /\ identify' = NoHolds => /\ identify' \in [Fans -> {None} \cup Held]
                                    /\ \A g \in Fans : KeptHold(g)
           /\ overrides' = overrides => /\ overrides' \in [Controls -> {None} \cup Overridden]
                                        /\ \A e \in Controls : KeptOverride(e)
           /\ identify' = identify => /\ identify' \in [Fans -> {None} \cup Held]
                                      /\ \A g \in Fans : KeptHold(g)
  BY DEF TableTypes, KeptOverride, KeptHold, NoOverrides, NoHolds

----------------------------------------------------------------------------
(* Only a take adds an override, and only an identify adds a hold. *)
LEMMA OverrideSteps ==
    ASSUME TableTypes, Next
    PROVE  \/ \E k \in Clients, c \in Controls : override_take_handler(k, c)
           \/ /\ overrides' \in [Controls -> {None} \cup Overridden]
              /\ \A c \in Controls : KeptOverride(c)
<1> DEFINE Goal == /\ overrides' \in [Controls -> {None} \cup Overridden]
                   /\ \A c \in Controls : KeptOverride(c)
<1> SUFFICES (\E k \in Clients, c \in Controls : override_take_handler(k, c)) \/ Goal
  OBVIOUS
<1>1. ASSUME NEW k \in Clients, override_renew_handler(k) PROVE Goal
  <2>1. held[k].control \in Controls
    BY <1>1 DEF override_renew_handler, TableTypes, Granted
  <2>2. QED
    BY <1>1, <2>1, RenewedOverride DEF override_renew_handler, renew_override, Holds
<1>2. ASSUME NEW k \in Clients, override_release_handler(k) PROVE Goal
  <2>1. CASE overrides' = [overrides EXCEPT ![held[k].control] = None]
    BY <2>1 DEF TableTypes, KeptOverride
  <2>2. CASE UNCHANGED overrides
    BY <2>2, NoEntries
  <2>3. QED
    BY <1>2, <2>1, <2>2 DEF override_release_handler, release_override
<1>3. CASE release_openfan_overrides
  BY <1>3, FewerOverrides DEF release_openfan_overrides, release_for_maintenance
<1>4. CASE TickReads
  <2> DEFINE S == {c \in Controls : ~overrides[c].live}
  <2>1. overrides' = [c \in Controls |-> IF c \in S THEN None ELSE overrides[c]]
    BY <1>4 DEF TickReads, sweep, LiveOverrides
  <2> HIDE DEF S
  <2>2. QED
    BY <2>1, FewerOverrides
<1>5. CASE DeadmanFires
  <2>1. CASE \E c \in Controls : OverrideExpires(c)
    BY <2>1, LapsedOverride DEF OverrideExpires
  <2>2. CASE \E f \in Fans : HoldExpires(f)
    BY <2>2, NoEntries DEF HoldExpires
  <2>3. QED
    BY <1>5, <2>1, <2>2 DEF DeadmanFires
<1>6. CASE overrides' = NoOverrides \/ overrides' = overrides
  BY <1>6, NoEntries
<1>7. ASSUME ~(\E k \in Clients, c \in Controls : override_take_handler(k, c)),
             ~(\E k \in Clients : override_renew_handler(k) \/ override_release_handler(k)),
             ~release_openfan_overrides, ~TickReads, ~DeadmanFires
      PROVE  overrides' = NoOverrides \/ overrides' = overrides
  BY <1>7 DEF Next, fan_identify_handler, IdentifyRestores, RoleSwaps, RoleReleases,
              activate_profile_handler, deactivate_profile_handler, StoreChanges, UpdateClaims,
              ReadsControls, UpdateEnds, TickEvaluates, Boots, tableVars
<1> HIDE DEF Goal
<1>8. QED
  BY <1>1, <1>2, <1>3, <1>4, <1>5, <1>6, <1>7

LEMMA HoldSteps ==
    ASSUME TableTypes, Next
    PROVE  \/ \E f \in Fans : fan_identify_handler(f)
           \/ /\ identify' \in [Fans -> {None} \cup Held]
              /\ \A f \in Fans : KeptHold(f)
<1> DEFINE Goal == /\ identify' \in [Fans -> {None} \cup Held]
                   /\ \A f \in Fans : KeptHold(f)
<1> SUFFICES (\E f \in Fans : fan_identify_handler(f)) \/ Goal
  OBVIOUS
<1>1. ASSUME NEW f, identify_restore(f) PROVE Goal
  BY <1>1 DEF identify_restore, TableTypes, KeptHold
<1>2. ASSUME NEW d \in Docs, activate_profile_handler(d) PROVE Goal
  <2> DEFINE S == {f \in PumpsOf[d] : IsStop(identify[f])}
  <2>1. identify' = [f \in Fans |-> IF f \in S THEN None ELSE identify[f]]
    BY <1>2 DEF activate_profile_handler, release_identify_stops
  <2> HIDE DEF S
  <2>2. QED
    BY <2>1, FewerHolds
<1>3. CASE release_openfan_overrides
  BY <1>3, FewerHolds DEF release_openfan_overrides, release_for_maintenance
<1>4. CASE TickReads
  <2> DEFINE S == {f \in Fans : ~identify[f].live}
  <2>1. identify' = [f \in Fans |-> IF f \in S THEN None ELSE identify[f]]
    BY <1>4 DEF TickReads, sweep, LiveHolds
  <2> HIDE DEF S
  <2>2. QED
    BY <2>1, FewerHolds
<1>5. CASE DeadmanFires
  <2>1. CASE \E f \in Fans : HoldExpires(f)
    BY <2>1, LapsedHold DEF HoldExpires
  <2>2. CASE \E c \in Controls : OverrideExpires(c)
    BY <2>2, NoEntries DEF OverrideExpires
  <2>3. QED
    BY <1>5, <2>1, <2>2 DEF DeadmanFires
<1>6. CASE identify' = NoHolds \/ identify' = identify
  BY <1>6, NoEntries
<1>7. ASSUME ~(\E f \in Fans : fan_identify_handler(f) \/ IdentifyRestores(f)), ~RoleReleases,
             ~(\E d \in Docs : activate_profile_handler(d)),
             ~release_openfan_overrides, ~TickReads, ~DeadmanFires
      PROVE  identify' = NoHolds \/ identify' = identify
  BY <1>7 DEF Next, override_take_handler, override_renew_handler, override_release_handler,
              RoleSwaps, deactivate_profile_handler, StoreChanges, UpdateClaims,
              ReadsControls, UpdateEnds, TickEvaluates, Boots, tableVars
<1>8. \A f : IdentifyRestores(f) => identify_restore(f)
  BY DEF IdentifyRestores
<1>9. RoleReleases => identify_restore(releasing)
  BY DEF RoleReleases
<1> HIDE DEF Goal
<1>10. QED
  BY <1>1, <1>2, <1>3, <1>4, <1>5, <1>6, <1>7, <1>8, <1>9

(* Only a swap of the active profile, the store and a restart change the   *)
(* store.                                                                  *)
LEMMA StoreSteps ==
    ASSUME Next
    PROVE  \/ UNCHANGED storeVars
           \/ \E d \in Docs : activate_profile_handler(d)
           \/ deactivate_profile_handler
           \/ StoreChanges
           \/ \E loads \in BOOLEAN : Boots(loads)
  BY DEF Next, override_take_handler, override_renew_handler, override_release_handler,
         fan_identify_handler, IdentifyRestores, RoleSwaps, RoleReleases, UpdateClaims,
         ReadsControls, release_openfan_overrides, UpdateEnds, TickReads, TickEvaluates,
         DeadmanFires

----------------------------------------------------------------------------
(* The types. *)
LEMMA TakeTypes ==
    ASSUME Types, NEW k \in Clients, NEW c \in Controls, override_take_handler(k, c)
    PROVE  /\ overrides' \in [Controls -> {None} \cup Overridden]
           /\ overrides'[c] = Override(next_token + 1, epoch, k)
           /\ \A e \in Controls : e # c => overrides'[e] = overrides[e]
           /\ held' \in [Clients -> {NoGrant} \cup Granted]
           /\ held'[k] = Grant(c)
           /\ \A j \in Clients : j # k => held'[j] = held[j]
<1>1. Override(next_token + 1, epoch, k) \in Overridden
  BY NewOverride DEF Types, TableTypes, StoreTypes
<1>2. Grant(c) \in Granted
  BY DEF Grant, Granted, Types, TableTypes
<1>3. overrides' = [overrides EXCEPT ![c] = Override(next_token + 1, epoch, k)]
  BY DEF override_take_handler, take_override
<1>4. held' = [held EXCEPT ![k] = Grant(c)]
  BY DEF override_take_handler
<1>5. QED
  BY <1>1, <1>2, <1>3, <1>4 DEF Types, TableTypes

LEMMA IdentifyTypes ==
    ASSUME TableTypes, NEW f \in Fans, fan_identify_handler(f)
    PROVE  /\ identify' \in [Fans -> {None} \cup Held]
           /\ identify'[f] \in Held /\ identify'[f].mode = IdentifyMode(f)
           /\ \A g \in Fans : g # f => identify'[g] = identify[g]
<1>1. /\ Hold(IdentifyMode(f)) \in Held
      /\ Hold(IdentifyMode(f)).mode = IdentifyMode(f)
  BY DEF Hold, Held, IdentifyMode
<1>2. identify' = [identify EXCEPT ![f] = Hold(IdentifyMode(f))]
  BY DEF fan_identify_handler, identify_hold
<1>3. QED
  BY <1>1, <1>2 DEF TableTypes

LEMMA TableTypesStep == Types /\ Next => TableTypes'
<1> SUFFICES ASSUME Types, Next PROVE TableTypes'
  OBVIOUS
<1>1. overrides' \in [Controls -> {None} \cup Overridden]
  BY OverrideSteps, TakeTypes DEF Types
<1>2. identify' \in [Fans -> {None} \cup Held]
  BY HoldSteps, IdentifyTypes DEF Types
<1>3. next_token' \in Nat
  <2>1. next_token' \in {next_token, next_token + 1, 0}
    BY DEF Next, override_take_handler, take_override, override_renew_handler,
           override_release_handler, fan_identify_handler, IdentifyRestores, RoleSwaps,
           RoleReleases, activate_profile_handler, deactivate_profile_handler, StoreChanges,
           UpdateClaims, ReadsControls, release_openfan_overrides, UpdateEnds, TickReads,
           TickEvaluates, DeadmanFires, OverrideExpires, HoldExpires, Boots, tableVars
  <2>2. QED
    BY <2>1 DEF Types, TableTypes
<1>4. boot' \in Nat \ {0}
  <2>1. boot' \in {boot, boot + 1}
    BY DEF Next, override_take_handler, override_renew_handler, override_release_handler,
           fan_identify_handler, IdentifyRestores, RoleSwaps, RoleReleases,
           activate_profile_handler, deactivate_profile_handler, StoreChanges, UpdateClaims,
           ReadsControls, release_openfan_overrides, UpdateEnds, TickReads, TickEvaluates,
           DeadmanFires, Boots, clientVars
  <2>2. QED
    BY <2>1 DEF Types, TableTypes
<1>5. held' \in [Clients -> {NoGrant} \cup Granted]
  <2>1. ASSUME NEW k \in Clients, held' = [held EXCEPT ![k] = NoGrant]
        PROVE  held' \in [Clients -> {NoGrant} \cup Granted]
    BY <2>1 DEF Types, TableTypes
  <2>2. \/ held' = held
        \/ \E k \in Clients : held' = [held EXCEPT ![k] = NoGrant]
        \/ \E k \in Clients, c \in Controls : override_take_handler(k, c)
    BY DEF Next, override_renew_handler, override_release_handler,
           fan_identify_handler, IdentifyRestores, RoleSwaps, RoleReleases,
           activate_profile_handler, deactivate_profile_handler, StoreChanges, UpdateClaims,
           ReadsControls, release_openfan_overrides, UpdateEnds, TickReads, TickEvaluates,
           DeadmanFires, Boots, clientVars
  <2>3. QED
    BY <2>1, <2>2, TakeTypes DEF Types, TableTypes
<1>6. QED
  BY <1>1, <1>2, <1>3, <1>4, <1>5 DEF TableTypes

LEMMA StoreTypesStep == Types /\ Next => StoreTypes'
<1> SUFFICES ASSUME Types, Next PROVE StoreTypes'
  OBVIOUS
<1> USE DocsAssumption DEF Types, StoreTypes
<1>1. CASE UNCHANGED storeVars
  BY <1>1, Zenon DEF storeVars
<1>2. ASSUME NEW d \in Docs, activate_profile_handler(d) PROVE StoreTypes'
  <2>1. UNCHANGED <<files, saved, drifted>>
    BY <1>2 DEF activate_profile_handler, commit_activation
  <2>2. active' = d /\ epoch' = epoch + 1 /\ chosen' = chosen \ {d}
    BY <1>2 DEF activate_profile_handler, commit_activation
  <2>3. QED
    BY <2>1, <2>2
<1>3. CASE deactivate_profile_handler
  <2>1. UNCHANGED <<files, saved, drifted, epoch, chosen>> /\ active' = NoDoc
    BY <1>3 DEF deactivate_profile_handler, deactivate_and_persist
  <2>2. QED
    BY <2>1
<1>4. CASE StoreChanges
  <2>1. ASSUME NEW d \in Docs, ActivationReads(d) \/ ActivationRefused(d) PROVE StoreTypes'
    <3>1. UNCHANGED <<files, saved, active, epoch, drifted>>
      BY <2>1 DEF ActivationReads, ActivationRefused
    <3>2. chosen' \subseteq Docs
      BY <2>1 DEF ActivationReads, ActivationRefused
    <3>3. QED
      BY <3>1, <3>2
  <2>2. ASSUME NEW d \in Docs, NEW overwrite \in BOOLEAN, store(d, overwrite) PROVE StoreTypes'
    <3>1. UNCHANGED <<saved, active, epoch, chosen, drifted>>
      BY <2>2 DEF store
    <3>2. files' = [files EXCEPT ![IdOf[d]] = d]
      BY <2>2 DEF store
    <3>3. QED
      BY <3>1, <3>2
  <2>3. ASSUME NEW i \in Ids, delete(i) PROVE StoreTypes'
    <3>1. UNCHANGED <<saved, active, epoch, chosen, drifted>>
      BY <2>3 DEF delete
    <3>2. files' = [files EXCEPT ![i] = NoDoc]
      BY <2>3 DEF delete
    <3>3. QED
      BY <3>1, <3>2
  <2>4. ASSUME NEW id \in Ids \cup {NoId}, NEW ok \in BOOLEAN, Persisted(id, ok)
        PROVE  StoreTypes'
    <3>1. UNCHANGED <<files, active, epoch, chosen>> /\ drifted' = ~ok
      BY <2>4 DEF Persisted
    <3>2. saved' \in {id, saved}
      BY <2>4 DEF Persisted
    <3>3. QED
      BY <3>1, <3>2
  <2>5. QED
    BY <1>4, <2>1, <2>2, <2>3, <2>4 DEF StoreChanges
<1>5. ASSUME NEW loads \in BOOLEAN, Boots(loads) PROVE StoreTypes'
  <2>1. UNCHANGED <<files, saved>> /\ epoch' = 0 /\ chosen' = {}
    BY <1>5 DEF Boots, StoreBoots
  <2>2. active' \in Docs \cup {NoDoc}
    BY <1>5 DEF Boots, StoreBoots, resolve_persisted_profile
  <2>3. drifted' \in BOOLEAN
    BY <1>5 DEF Boots, StoreBoots
  <2>4. QED
    BY <2>1, <2>2, <2>3
<1>6. QED
  BY <1>1, <1>2, <1>3, <1>4, <1>5, StoreSteps

LEMMA ClaimTypes == NoClaim \in Claims /\ \A id \in RunIds : Running(id, FALSE) \in Claims
  BY DEF Claims, Running

LEMMA OtherTypesStep == Types /\ Next => OtherTypes'
<1> SUFFICES ASSUME Types, Next PROVE OtherTypes'
  OBVIOUS
<1> USE DEF Types, OtherTypes
<1>1. pumps' \subseteq Fans /\ releasing' \in Fans \cup {NoFan}
  <2>1. \/ UNCHANGED roleVars
        \/ pumps' = pumps /\ releasing' = NoFan
        \/ \E f \in Fans : /\ pumps' = pumps \cup {f} \/ pumps' = pumps \ {f}
                           /\ releasing' \in {f, NoFan}
    BY DEF Next, override_take_handler, override_renew_handler, override_release_handler,
           fan_identify_handler, IdentifyRestores, RoleSwaps, RoleReleases,
           activate_profile_handler, deactivate_profile_handler, StoreChanges, UpdateClaims,
           ReadsControls, release_openfan_overrides, UpdateEnds, TickReads, TickEvaluates,
           DeadmanFires, Boots, roleVars
  <2>2. QED
    BY <2>1 DEF roleVars
<1>2. claim' \in Claims
  <2>1. \/ claim' = claim \/ claim' = NoClaim \/ \E id \in RunIds : claim' = Running(id, FALSE)
    BY DEF Next, override_take_handler, override_renew_handler, override_release_handler,
           fan_identify_handler, IdentifyRestores, RoleSwaps, RoleReleases,
           activate_profile_handler, deactivate_profile_handler, StoreChanges, UpdateClaims,
           ReadsControls, release_openfan_overrides, UpdateEnds, TickReads, TickEvaluates,
           DeadmanFires, Boots, updateVars, try_begin_openfan_maintenance,
           end_openfan_maintenance
  <2>2. QED
    BY <2>1, ClaimTypes
<1>3. toRelease' \subseteq Controls /\ update' \in {"none", "claimed", "read", "begun"}
  <2>1. OpenFanControls \subseteq Controls
    BY ControlAssumption DEF OpenFanControls, ActiveControls, StoreTypes
  <2>2. \/ UNCHANGED <<update, toRelease>>
        \/ /\ toRelease' \in {{}, toRelease, OpenFanControls}
           /\ update' \in {"none", "claimed", "read", "begun"}
    BY DEF Next, override_take_handler, override_renew_handler, override_release_handler,
           fan_identify_handler, IdentifyRestores, RoleSwaps, RoleReleases,
           activate_profile_handler, deactivate_profile_handler, StoreChanges, UpdateClaims,
           ReadsControls, release_openfan_overrides, UpdateEnds, TickReads, TickEvaluates,
           DeadmanFires, Boots, updateVars
  <2>3. QED
    BY <2>1, <2>2
<1>4. /\ tick' \in {"idle", "read"} /\ pinned' \in [Controls -> {None} \cup Overridden]
      /\ lastEpoch' \in Nat /\ anchor' \in [Controls -> {"none", "current", "old"}]
  <2>1. CASE UNCHANGED engineVars
    BY <2>1 DEF engineVars
  <2>2. CASE TickReads
    <3>1. UNCHANGED lastEpoch /\ tick' = "read" /\ pinned' = LiveOverrides
      BY <2>2 DEF TickReads
    <3>2. LiveOverrides \in [Controls -> {None} \cup Overridden]
      BY DEF LiveOverrides, TableTypes
    <3>3. anchor' \in [Controls -> {"none", "current", "old"}]
      BY <2>2 DEF TickReads
    <3>4. QED
      BY <3>1, <3>2, <3>3
  <2>3. CASE TickEvaluates
    <3>1. lastEpoch' = epoch /\ tick' = "idle" /\ pinned' = NoOverrides
      BY <2>3 DEF TickEvaluates
    <3>2. Anchors \in [Controls -> {"none", "current", "old"}]
      BY DEF Anchors
    <3>3. anchor' \in [Controls -> {"none", "current", "old"}]
      BY <2>3, <3>2 DEF TickEvaluates, evaluate_profile_with_overrides
    <3>4. QED
      BY <3>1, <3>3 DEF NoOverrides, StoreTypes
  <2>4. CASE \E loads \in BOOLEAN : Boots(loads)
    BY <2>4 DEF Boots, NoOverrides
  <2>5. QED
    BY <2>1, <2>2, <2>3, <2>4
       DEF Next, override_take_handler, override_renew_handler, override_release_handler,
           fan_identify_handler, IdentifyRestores, RoleSwaps, RoleReleases,
           activate_profile_handler, deactivate_profile_handler, StoreChanges, UpdateClaims,
           ReadsControls, release_openfan_overrides, UpdateEnds, DeadmanFires
<1>5. QED
  BY <1>1, <1>2, <1>3, <1>4

LEMMA TypesInit == Init => Types
<1> SUFFICES ASSUME Init PROVE Types
  OBVIOUS
<1>1. TableTypes
  BY DEF Init, TableInit, TableTypes, NoOverrides, NoHolds
<1>2. StoreTypes
  BY DEF Init, StoreInit, StoreTypes
<1>3. OtherTypes
  BY DEF Init, EngineInit, OtherTypes, NoOverrides, Claims
<1>4. QED
  BY <1>1, <1>2, <1>3 DEF Types

LEMMA TypesStep == Types /\ [Next]_vars => Types'
<1>1. ASSUME Types, UNCHANGED vars PROVE Types'
  <2>1. UNCHANGED <<tableVars, clientVars>> /\ UNCHANGED storeVars
    BY <1>1 DEF vars
  <2>2. UNCHANGED <<roleVars, updateVars, engineVars>>
    BY <1>1 DEF vars
  <2>3. TableTypes'
    BY <1>1, <2>1, Zenon DEF Types, TableTypes, tableVars, clientVars
  <2>4. StoreTypes'
    BY <1>1, <2>1, Zenon DEF Types, StoreTypes, storeVars
  <2>5. OtherTypes'
    BY <1>1, <2>2, Zenon DEF Types, OtherTypes, roleVars, updateVars, engineVars
  <2>6. QED
    BY <2>3, <2>4, <2>5 DEF Types
<1>2. QED
  BY <1>1, TableTypesStep, StoreTypesStep, OtherTypesStep DEF Types

----------------------------------------------------------------------------
(* The store: what is saved, or on its way, is the choice in force. *)
LEMMA StoreInvInit == Init => StoreInv
  BY DEF Init, StoreInit, StoreInv, Choice

LEMMA StoreInvStep == Types /\ StoreInv /\ Next => StoreInv'
<1> SUFFICES ASSUME Types, StoreInv, Next PROVE StoreInv'
  OBVIOUS
<1> USE DocsAssumption DEF Types, StoreTypes, StoreInv, Choice, StoreLockFree
<1>1. CASE UNCHANGED storeVars
  BY <1>1, Zenon DEF storeVars
<1>2. ASSUME NEW d \in Docs, activate_profile_handler(d) PROVE StoreInv'
  <2>1. persisting = {} /\ persisting' = {IdOf[d]} /\ active' = d /\ files' = files
    BY <1>2 DEF activate_profile_handler, commit_activation
  <2>2. files[IdOf[d]] # NoDoc
    BY <1>2 DEF activate_profile_handler, commit_activation, StillThere
  <2>3. QED
    BY <2>1, <2>2
<1>3. CASE deactivate_profile_handler
  <2>1. persisting' = {NoId} /\ active' = NoDoc
    BY <1>3 DEF deactivate_profile_handler, deactivate_and_persist
  <2>2. QED
    BY <2>1
<1>4. CASE StoreChanges
  <2>1. ASSUME NEW d \in Docs, ActivationReads(d) \/ ActivationRefused(d) PROVE StoreInv'
    <3>1. UNCHANGED <<files, saved, active, persisting, drifted>>
      BY <2>1 DEF ActivationReads, ActivationRefused
    <3>2. QED
      BY <3>1, Zenon
  <2>2. ASSUME NEW d \in Docs, NEW overwrite \in BOOLEAN, store(d, overwrite) PROVE StoreInv'
    <3>1. UNCHANGED <<saved, active, persisting>> /\ drifted' = drifted
      BY <2>2 DEF store
    <3>2. files' = [files EXCEPT ![IdOf[d]] = d]
      BY <2>2 DEF store
    <3>3. active' # NoDoc => files'[IdOf[active']] # NoDoc
      BY <3>1, <3>2
    <3>4. QED
      BY <3>1, <3>3
  <2>3. ASSUME NEW i \in Ids, delete(i) PROVE StoreInv'
    <3>1. UNCHANGED <<saved, active, persisting>> /\ drifted' = drifted
      BY <2>3 DEF delete
    <3>2. files' = [files EXCEPT ![i] = NoDoc] /\ Choice(active) # i
      BY <2>3 DEF delete, is_active
    <3>3. active' # NoDoc => files'[IdOf[active']] # NoDoc
      BY <3>1, <3>2
    <3>4. QED
      BY <3>1, <3>3
  <2>4. ASSUME NEW id \in Ids \cup {NoId}, NEW ok \in BOOLEAN, Persisted(id, ok) PROVE StoreInv'
    <3>1. UNCHANGED <<files, active>> /\ id = Choice(active) /\ persisting' = {}
      BY <2>4 DEF Persisted
    <3>2. drifted' \/ saved' = id
      BY <2>4 DEF Persisted
    <3>3. QED
      BY <3>1, <3>2
  <2>5. QED
    BY <1>4, <2>1, <2>2, <2>3, <2>4 DEF StoreChanges
<1>5. ASSUME NEW loads \in BOOLEAN, Boots(loads) PROVE StoreInv'
  <2>1. UNCHANGED <<files, saved>> /\ persisting' = {}
    BY <1>5 DEF Boots, StoreBoots
  <2>2. active' # NoDoc => saved \in Ids /\ active' = files[saved]
    BY <1>5 DEF Boots, StoreBoots, resolve_persisted_profile
  <2>3. drifted' = (Choice(active') # saved)
    BY <1>5, Zenon DEF Boots, StoreBoots
  <2>4. ~drifted' => saved' = Choice(active')
    BY <2>1, <2>3, Zenon
  <2>5. QED
    BY <2>1, <2>2, <2>4
<1>6. QED
  BY <1>1, <1>2, <1>3, <1>4, <1>5, StoreSteps

LEMMA SavedFromInv == Types /\ StoreInv => SavedIsActive
  BY DocsAssumption DEF Types, StoreTypes, StoreInv, SavedIsActive, StoreLockFree, Choice

----------------------------------------------------------------------------
(* An override belongs to the activation in force. *)
LEMMA ActivationInit == Init => OverridesOfThisActivation
  BY Entries DEF Init, TableInit, NoOverrides, OverridesOfThisActivation

LEMMA NoneHere ==
    overrides' = NoOverrides => \A c \in Controls : ~overrides'[c].here /\ overrides'[c] = None
  BY Entries DEF NoOverrides

(* An override that was there before has its token and its taker still. *)
LEMMA KeptHere ==
    ASSUME TableTypes, NEW c \in Controls, KeptOverride(c), overrides'[c].here
    PROVE  /\ overrides[c].here /\ overrides'[c].token = overrides[c].token
           /\ overrides'[c].epoch = overrides[c].epoch /\ overrides'[c].by = overrides[c].by
  BY Entries DEF TableTypes, KeptOverride, SameOverride

LEMMA StoreStill ==
    ASSUME StoreChanges \/ UNCHANGED storeVars
    PROVE  active' = active /\ epoch' = epoch
  BY DEF StoreChanges, ActivationReads, ActivationRefused, store, delete, Persisted, storeVars

LEMMA ActivationStep ==
    Types /\ OverridesOfThisActivation /\ Next => OverridesOfThisActivation'
<1> SUFFICES ASSUME Types, OverridesOfThisActivation, Next,
                    NEW c \in Controls, overrides'[c].here
             PROVE  c \in ActiveControls' /\ overrides'[c].epoch = epoch'
  BY DEF OverridesOfThisActivation
<1>1. CASE overrides' = NoOverrides
  BY <1>1, NoneHere
<1>2. CASE StoreChanges \/ UNCHANGED storeVars
  <2>1. ActiveControls' = ActiveControls /\ epoch' = epoch
    BY <1>2, StoreStill DEF ActiveControls
  <2>2. ASSUME NEW k \in Clients, NEW e \in Controls, override_take_handler(k, e)
        PROVE  c \in ActiveControls /\ overrides'[c].epoch = epoch
    <3>1. CASE c = e
      <4>1. c \in ActiveControls
        BY <2>2, <3>1 DEF override_take_handler
      <4>2. overrides'[c] = Override(next_token + 1, epoch, k)
        BY <2>2, <3>1, TakeTypes
      <4>3. QED
        BY <4>1, <4>2, NewOverride DEF Types, TableTypes, StoreTypes
    <3>2. CASE c # e
      BY <2>2, <3>2, TakeTypes DEF OverridesOfThisActivation
    <3>3. QED
      BY <3>1, <3>2
  <2>3. CASE KeptOverride(c)
    BY <2>1, <2>3, KeptHere DEF Types, OverridesOfThisActivation
  <2>4. QED
    BY <2>1, <2>2, <2>3, OverrideSteps DEF Types
<1>3. QED
  BY <1>1, <1>2, StoreSteps DEF activate_profile_handler, deactivate_profile_handler, Boots

----------------------------------------------------------------------------
(* A token is its taker's. *)
LEMMA GrantBoot ==
    ASSUME TableTypes
    PROVE  \A k \in Clients : held[k].boot \in Nat /\ held[k].token \in Nat
  BY DEF TableTypes, Granted, NoGrant

LEMMA TokenInit == Init => TokenInv
<1> SUFFICES ASSUME Init PROVE TokenInv
  OBVIOUS
<1>1. \A c \in Controls : ~overrides[c].here
  BY Entries DEF Init, TableInit, NoOverrides
<1>2. \A k \in Clients : held[k].boot = 0 /\ held[k].token = 0
  BY DEF Init, NoGrant
<1>3. boot = 1 /\ next_token = 0
  BY DEF Init, TableInit
<1>4. QED
  BY <1>1, <1>2, <1>3 DEF TokenInv, Issued

(* All but a take and a restart. *)
LEMMA TokenKeeps ==
    ASSUME TableTypes, TokenInv, UNCHANGED <<next_token, boot>>,
           \A c \in Controls : KeptOverride(c),
           \A k \in Clients : held'[k] = held[k] \/ held'[k] = NoGrant
    PROVE  TokenInv'
<1>1. \A c \in Controls : overrides'[c].here =>
          /\ overrides[c].here /\ overrides'[c].token = overrides[c].token
          /\ overrides'[c].by = overrides[c].by
  BY KeptHere
<1>2. \A k \in Clients : held'[k] = NoGrant => held'[k].boot = 0
  BY DEF NoGrant
<1>3. boot \in Nat \ {0}
  BY DEF TableTypes
<1>4. \A c \in Controls : overrides'[c].here => overrides'[c].token <= next_token'
  BY <1>1 DEF TokenInv
<1>5. \A k \in Clients :
          held'[k].boot <= boot' /\ (held'[k].boot = boot' => held'[k].token <= next_token')
  BY <1>2, <1>3 DEF TokenInv, Issued
<1>6. \A k \in Clients, c \in Controls :
          (held'[k].boot = boot' /\ overrides'[c].here /\ overrides'[c].token = held'[k].token)
             => overrides'[c].by = k
  BY <1>1, <1>2, <1>3 DEF TokenInv, Issued
<1>7. QED
  BY <1>4, <1>5, <1>6 DEF TokenInv, Issued

LEMMA TokenStep == Types /\ TokenInv /\ Next => TokenInv'
<1> SUFFICES ASSUME Types, TokenInv, Next PROVE TokenInv'
  OBVIOUS
<1>1. ASSUME NEW k \in Clients, NEW c \in Controls, override_take_handler(k, c) PROVE TokenInv'
  <2>1. next_token' = next_token + 1 /\ boot' = boot /\ next_token \in Nat /\ boot \in Nat \ {0}
    BY <1>1 DEF override_take_handler, take_override, Types, TableTypes
  <2>2. /\ overrides'[c].token = next_token + 1 /\ overrides'[c].by = k
        /\ \A e \in Controls : e # c => overrides'[e] = overrides[e]
    BY <1>1, TakeTypes, NewOverride DEF Types, TableTypes, StoreTypes
  <2>3. /\ held'[k].token = next_token + 1 /\ held'[k].boot = boot
        /\ \A j \in Clients : j # k => held'[j] = held[j]
    <3>1. Grant(c).token = next_token + 1 /\ Grant(c).boot = boot
      BY DEF Grant
    <3>2. QED
      BY <1>1, <3>1, TakeTypes
  <2>4. /\ \A e \in Controls : overrides[e].here => overrides[e].token \in Nat
        /\ \A j \in Clients : held[j].boot \in Nat /\ held[j].token \in Nat
    BY GrantBoot, Entries DEF Types, TableTypes, Overridden
  <2>5. \A e \in Controls : overrides'[e].here => overrides'[e].token <= next_token'
    BY <2>1, <2>2, <2>4 DEF TokenInv
  <2>6. \A j \in Clients :
          held'[j].boot <= boot' /\ (held'[j].boot = boot' => held'[j].token <= next_token')
    BY <2>1, <2>3, <2>4 DEF TokenInv, Issued
  <2>7. \A j \in Clients, e \in Controls :
          (held'[j].boot = boot' /\ overrides'[e].here /\ overrides'[e].token = held'[j].token)
             => overrides'[e].by = j
    BY <2>1, <2>2, <2>3, <2>4 DEF TokenInv, Issued
  <2>8. QED
    BY <2>5, <2>6, <2>7 DEF TokenInv, Issued
<1>2. ASSUME NEW loads \in BOOLEAN, Boots(loads) PROVE TokenInv'
  <2>1. boot' = boot + 1 /\ held' = held /\ overrides' = NoOverrides
    BY <1>2 DEF Boots
  <2>2. \A c \in Controls : ~overrides'[c].here
    BY <2>1, NoneHere
  <2>3. \A k \in Clients : held'[k].boot < boot'
    BY <2>1, GrantBoot DEF TokenInv, Types, TableTypes
  <2>4. \A k \in Clients : held'[k].boot \in Nat /\ boot' \in Nat
    BY <2>1, GrantBoot DEF Types, TableTypes
  <2>5. QED
    BY <2>2, <2>3, <2>4 DEF TokenInv, Issued
<1>3. CASE /\ ~ \E k \in Clients, c \in Controls : override_take_handler(k, c)
           /\ ~ \E loads \in BOOLEAN : Boots(loads)
  <2>1. UNCHANGED <<next_token, boot>>
    BY <1>3 DEF Next, override_renew_handler, override_release_handler,
           fan_identify_handler, IdentifyRestores, RoleSwaps, RoleReleases,
           activate_profile_handler, deactivate_profile_handler, StoreChanges, UpdateClaims,
           ReadsControls, release_openfan_overrides, UpdateEnds, TickReads, TickEvaluates,
           DeadmanFires, OverrideExpires, HoldExpires, clientVars, tableVars
  <2>2. held' = held \/ \E k \in Clients : held' = [held EXCEPT ![k] = NoGrant]
    BY <1>3 DEF Next, override_renew_handler, override_release_handler,
           fan_identify_handler, IdentifyRestores, RoleSwaps, RoleReleases,
           activate_profile_handler, deactivate_profile_handler, StoreChanges, UpdateClaims,
           ReadsControls, release_openfan_overrides, UpdateEnds, TickReads, TickEvaluates,
           DeadmanFires, clientVars
  <2>3. \A k \in Clients : held'[k] = held[k] \/ held'[k] = NoGrant
    BY <2>2 DEF Types, TableTypes
  <2>4. QED
    BY <1>3, <2>1, <2>3, TokenKeeps, OverrideSteps DEF Types
<1>4. QED
  BY <1>1, <1>2, <1>3

----------------------------------------------------------------------------
(* No pump is held stopped. *)
LEMMA NoStopInit == Init => NoStopOnPump
<1> SUFFICES ASSUME Init PROVE NoStopOnPump
  OBVIOUS
<1>1. \A f \in Fans : ~IsStop(identify[f])
  BY Entries DEF Init, TableInit, NoHolds, IsStop
<1>2. InferredPumps \cup ActivePumps \cup (pumps \ {releasing}) \subseteq Fans
  BY ControlAssumption DEF Init, StoreInit, ActivePumps
<1>3. QED
  BY <1>1, <1>2 DEF NoStopOnPump

(* A hold that stops a fan stopped it before. *)
LEMMA KeptStops ==
    ASSUME TableTypes, NEW f \in Fans, KeptHold(f)
    PROVE  /\ IsStop(identify'[f]) => IsStop(identify[f])
           /\ identify'[f].here => identify[f].here
  BY Entries DEF TableTypes, KeptHold, SameHold, IsStop

LEMMA NoStopStep == Types /\ NoStopOnPump /\ Next => NoStopOnPump'
<1> SUFFICES ASSUME Types, NoStopOnPump, Next,
                    NEW f \in InferredPumps \cup ActivePumps' \cup (pumps' \ {releasing'}),
                    IsStop(identify'[f])
             PROVE  FALSE
  BY DEF NoStopOnPump, IsStop
<1>1. f \in Fans
  BY ControlAssumption, StoreTypesStep, OtherTypesStep DEF ActivePumps, StoreTypes, OtherTypes
<1>2. ASSUME NEW g \in Fans, fan_identify_handler(g) PROVE FALSE
  <2>1. UNCHANGED <<active, pumps, releasing>>
    BY <1>2 DEF fan_identify_handler, storeVars, roleVars
  <2>2. f \in InferredPumps \cup ActivePumps \cup (pumps \ {releasing})
    BY <2>1 DEF ActivePumps
  <2>3. CASE f = g
    <3>1. IdentifyMode(g) = "perturb"
      BY <2>2, <2>3 DEF IdentifyMode, is_pump_protected
    <3>2. QED
      BY <1>2, <2>3, <3>1, IdentifyTypes DEF IsStop, Types
  <2>4. CASE f # g
    BY <1>1, <1>2, <2>2, <2>4, IdentifyTypes DEF NoStopOnPump, Types
  <2>5. QED
    BY <2>3, <2>4
<1>3. CASE \A g \in Fans : KeptHold(g)
  <2>1. IsStop(identify[f])
    BY <1>1, <1>3, KeptStops DEF Types
  <2>2. f \notin InferredPumps \cup ActivePumps \cup (pumps \ {releasing})
    BY <2>1 DEF NoStopOnPump
  <2>3. ASSUME NEW d \in Docs, activate_profile_handler(d) PROVE FALSE
    <3>1. active' = d /\ pumps' = pumps /\ releasing' = releasing
      BY <2>3 DEF activate_profile_handler, commit_activation, roleVars
    <3>2. f \in PumpsOf[d]
      BY <2>2, <3>1 DEF ActivePumps
    <3>3. identify'[f] = None
      BY <1>1, <2>1, <2>3, <3>2 DEF activate_profile_handler, release_identify_stops
    <3>4. QED
      BY <3>3, Entries DEF IsStop
  <2>4. CASE RoleReleases
    <3>1. active' = active /\ pumps' = pumps /\ releasing' = NoFan
      BY <2>4 DEF RoleReleases, storeVars
    <3>2. f = releasing
      BY <2>2, <3>1 DEF ActivePumps
    <3>3. identify'[f] = None
      BY <1>1, <2>4, <3>2 DEF RoleReleases, identify_restore, Types, TableTypes
    <3>4. QED
      BY <3>3, Entries DEF IsStop
  <2>5. ASSUME NEW g \in Fans, NEW pump \in BOOLEAN, RoleSwaps(g, pump) PROVE FALSE
    <3>1. active' = active /\ releasing = NoFan /\ NoFan \notin pumps
      BY <2>5, NoFanAssumption DEF RoleSwaps, storeVars, Types, OtherTypes
    <3>2. pumps' \ {releasing'} \subseteq pumps
      BY <2>5 DEF RoleSwaps
    <3>3. QED
      BY <2>2, <3>1, <3>2 DEF ActivePumps
  <2>6. ASSUME NEW loads \in BOOLEAN, Boots(loads) PROVE FALSE
    BY <1>1, <2>6, Entries DEF Boots, NoHolds, IsStop
  <2>7. CASE UNCHANGED roleVars /\ (active' = active \/ active' = NoDoc)
    BY <2>2, <2>7 DEF roleVars, ActivePumps
  <2>8. CASE ~RoleReleases /\ ~(\E g \in Fans, pump \in BOOLEAN : RoleSwaps(g, pump))
               /\ ~(\E loads \in BOOLEAN : Boots(loads))
    <3>1. UNCHANGED roleVars
      BY <2>8 DEF Next, override_take_handler, override_renew_handler, override_release_handler,
             fan_identify_handler, IdentifyRestores, activate_profile_handler,
             deactivate_profile_handler, StoreChanges, UpdateClaims, ReadsControls,
             release_openfan_overrides, UpdateEnds, TickReads, TickEvaluates, DeadmanFires
    <3>2. (\E d \in Docs : activate_profile_handler(d)) \/ active' = active \/ active' = NoDoc
      BY <2>8, StoreSteps, StoreStill DEF deactivate_profile_handler, deactivate_and_persist
    <3>3. QED
      BY <2>3, <2>7, <3>1, <3>2
  <2>9. QED
    BY <2>4, <2>5, <2>6, <2>8
<1>4. QED
  BY <1>2, <1>3, HoldSteps DEF Types

----------------------------------------------------------------------------
(* The update has its channels to itself. *)
LEMMA UpdateInit == Init => UpdateInv
  BY DEF Init, UpdateInv, UpdateOwnsItsChannels

(* While it runs, nothing is added on a channel. *)
LEMMA NothingAdded ==
    ASSUME Types, Next, openfan_maintenance_running
    PROVE  /\ \A c \in Controls : drives_openfan(c) /\ overrides'[c].here => overrides[c].here
           /\ \A f \in OpenFans : identify'[f].here => identify[f].here
<1>1. ASSUME NEW c \in Controls, drives_openfan(c), overrides'[c].here PROVE overrides[c].here
  <2>1. ASSUME NEW k \in Clients, NEW e \in Controls, override_take_handler(k, e)
        PROVE  overrides[c].here
    <3>1. e # c
      BY <1>1, <2>1 DEF override_take_handler
    <3>2. QED
      BY <1>1, <2>1, <3>1, TakeTypes
  <2>2. QED
    BY <1>1, <2>1, OverrideSteps, KeptHere DEF Types
<1>2. ASSUME NEW f \in OpenFans, identify'[f].here PROVE identify[f].here
  <2>1. f \in Fans
    BY ControlAssumption
  <2>2. ASSUME NEW g \in Fans, fan_identify_handler(g) PROVE identify[f].here
    <3>1. g # f
      BY <2>2 DEF fan_identify_handler
    <3>2. QED
      BY <1>2, <2>1, <2>2, <3>1, IdentifyTypes DEF Types
  <2>3. QED
    BY <1>2, <2>1, <2>2, HoldSteps, KeptStops DEF Types
<1>3. QED
  BY <1>1, <1>2

(* A swap of the active profile leaves no override. *)
LEMMA ControlsStill ==
    ASSUME Next
    PROVE  overrides' = NoOverrides \/ OpenFanControls' = OpenFanControls
<1>1. CASE StoreChanges \/ UNCHANGED storeVars
  BY <1>1, StoreStill DEF OpenFanControls, ActiveControls, drives_openfan
<1>2. QED
  BY <1>1, StoreSteps DEF activate_profile_handler, deactivate_profile_handler, Boots

LEMMA UpdateStep == Types /\ UpdateInv /\ Next => UpdateInv'
<1> SUFFICES ASSUME Types, UpdateInv, Next PROVE UpdateInv'
  OBVIOUS
<1>0. \A c \in OpenFanControls' : c \in Controls /\ drives_openfan(c)
  BY StoreTypesStep, ControlAssumption DEF StoreTypes, OpenFanControls, ActiveControls, drives_openfan
<1>1. ASSUME NEW id \in RunIds, UpdateClaims(id) PROVE UpdateInv'
  BY <1>1 DEF UpdateClaims, try_begin_openfan_maintenance, Running, UpdateInv,
              UpdateOwnsItsChannels, openfan_maintenance_running
<1>2. CASE ReadsControls
  <2>1. update' = "read" /\ claim' = claim /\ openfan_maintenance_running
    BY <1>2 DEF ReadsControls, UpdateInv
  <2>2. toRelease' = OpenFanControls' 
    BY <1>2 DEF ReadsControls, OpenFanControls, ActiveControls, drives_openfan, storeVars
  <2>3. QED
    BY <2>1, <2>2 DEF UpdateInv, UpdateOwnsItsChannels, openfan_maintenance_running
<1>3. CASE release_openfan_overrides
  <2>1. update' = "begun" /\ claim' = claim /\ openfan_maintenance_running
    BY <1>3 DEF release_openfan_overrides, UpdateInv
  <2>2. OpenFanControls' = OpenFanControls
    BY <1>3 DEF release_openfan_overrides, OpenFanControls, ActiveControls, drives_openfan, storeVars
  <2>3. ASSUME NEW c \in OpenFanControls PROVE ~overrides'[c].here
    <3>1. c \in Controls /\ overrides'[c] = IF c \in toRelease THEN None ELSE overrides[c]
      BY <1>0, <1>3, <2>2 DEF release_openfan_overrides, release_for_maintenance
    <3>2. overrides[c].here => c \in toRelease
      BY <1>3 DEF release_openfan_overrides, UpdateInv
    <3>3. QED
      BY <3>1, <3>2, Entries
  <2>4. ASSUME NEW f \in OpenFans PROVE ~identify'[f].here
    <3>1. identify'[f] = None
      BY <1>3, ControlAssumption DEF release_openfan_overrides, release_for_maintenance
    <3>2. QED
      BY <3>1, Entries
  <2>5. QED
    BY <2>1, <2>2, <2>3, <2>4 DEF UpdateInv, UpdateOwnsItsChannels, openfan_maintenance_running
<1>4. CASE update' = "none"
  BY <1>4 DEF UpdateInv, UpdateOwnsItsChannels
<1>5. CASE UNCHANGED updateVars
  <2>1. UNCHANGED <<claim, update, toRelease>>
    BY <1>5 DEF updateVars
  <2>2. CASE update = "none"
    BY <1>4, <2>1, <2>2
  <2>3. CASE update # "none"
    <3>1. openfan_maintenance_running
      BY <2>3 DEF UpdateInv
    <3>2. openfan_maintenance_running'
      BY <2>1, <3>1 DEF openfan_maintenance_running
    <3>3. ASSUME NEW c \in OpenFanControls', overrides'[c].here
          PROVE  c \in OpenFanControls /\ overrides[c].here
      BY <1>0, <3>1, <3>3, NothingAdded, ControlsStill, NoneHere
    <3>4. ASSUME NEW f \in OpenFans, identify'[f].here PROVE identify[f].here
      BY <3>1, <3>4, NothingAdded
    <3>5. update' = "read" => \A c \in OpenFanControls' : overrides'[c].here => c \in toRelease'
      BY <2>1, <3>3 DEF UpdateInv
    <3>6. update' = "begun" =>
            /\ \A c \in OpenFanControls' : ~overrides'[c].here
            /\ \A f \in OpenFans : ~identify'[f].here
      BY <2>1, <3>3, <3>4 DEF UpdateInv, UpdateOwnsItsChannels
    <3>7. QED
      BY <3>2, <3>5, <3>6 DEF UpdateInv, UpdateOwnsItsChannels
  <2>4. QED
    BY <2>2, <2>3
<1>6. QED
  BY <1>1, <1>2, <1>3, <1>4, <1>5
     DEF Next, override_take_handler, override_renew_handler, override_release_handler,
         fan_identify_handler, IdentifyRestores, RoleSwaps, RoleReleases,
         activate_profile_handler, deactivate_profile_handler, StoreChanges, UpdateEnds,
         TickReads, TickEvaluates, DeadmanFires, Boots

----------------------------------------------------------------------------
(* A tick pins what is no older than the last one's activation. *)
LEMMA TickInit == Init => TickInv
  BY DEF Init, StoreInit, EngineInit, TickInv

LEMMA TickStep == Types /\ OverridesOfThisActivation /\ TickInv /\ Next => TickInv'
<1> SUFFICES ASSUME Types, OverridesOfThisActivation, TickInv, Next PROVE TickInv'
  OBVIOUS
<1>1. CASE TickReads
  <2>1. epoch' = epoch /\ lastEpoch' = lastEpoch /\ pinned' = LiveOverrides
    BY <1>1 DEF TickReads, storeVars
  <2>2. ASSUME NEW c \in Controls, pinned'[c].live PROVE pinned'[c].epoch = epoch
    <3>1. pinned'[c] = overrides[c] /\ overrides[c].live
      BY <2>1, <2>2, Entries DEF LiveOverrides
    <3>2. overrides[c].here
      BY <3>1, Entries DEF Types, TableTypes
    <3>3. QED
      BY <3>1, <3>2 DEF OverridesOfThisActivation
  <2>3. QED
    BY <2>1, <2>2 DEF TickInv, Types, StoreTypes, OtherTypes
<1>2. CASE TickEvaluates
  BY <1>2 DEF TickEvaluates, TickInv, storeVars, Types, StoreTypes
<1>3. CASE \E loads \in BOOLEAN : Boots(loads)
  BY <1>3 DEF Boots, StoreBoots, TickInv
<1>4. CASE UNCHANGED engineVars /\ epoch' \in {epoch, epoch + 1}
  <2>1. UNCHANGED <<tick, pinned, lastEpoch>>
    BY <1>4 DEF engineVars
  <2>2. /\ epoch \in Nat /\ lastEpoch \in Nat
        /\ \A c \in Controls : pinned[c].live => pinned[c].epoch \in Nat
    BY Entries DEF Types, StoreTypes, OtherTypes, Overridden
  <2>3. QED
    BY <1>4, <2>1, <2>2 DEF TickInv
<1>5. CASE ~TickReads /\ ~TickEvaluates /\ ~(\E loads \in BOOLEAN : Boots(loads))
  <2>1. UNCHANGED engineVars
    BY <1>5 DEF Next, override_take_handler, override_renew_handler, override_release_handler,
           fan_identify_handler, IdentifyRestores, RoleSwaps, RoleReleases,
           activate_profile_handler, deactivate_profile_handler, StoreChanges, UpdateClaims,
           ReadsControls, release_openfan_overrides, UpdateEnds, DeadmanFires
  <2>2. epoch' \in {epoch, epoch + 1}
    BY <1>5, StoreSteps, StoreStill
       DEF activate_profile_handler, commit_activation, deactivate_profile_handler,
           deactivate_and_persist
  <2>3. QED
    BY <1>4, <2>1, <2>2
<1>6. QED
  BY <1>1, <1>2, <1>3, <1>5

----------------------------------------------------------------------------
(* Together. *)
LEMMA ControlInit == Init => ControlInv
  BY TypesInit, StoreInvInit, ActivationInit, TokenInit, NoStopInit, UpdateInit, TickInit
     DEF ControlInv

LEMMA ControlStutter == ControlInv /\ UNCHANGED vars => ControlInv'
<1> SUFFICES ASSUME ControlInv, UNCHANGED vars PROVE ControlInv'
  OBVIOUS
<1>1. /\ UNCHANGED <<overrides, identify, next_token>>
      /\ UNCHANGED <<files, saved, active, epoch, chosen, persisting, drifted>>
      /\ UNCHANGED <<held, boot, pumps, releasing, claim, update, toRelease>>
      /\ UNCHANGED <<tick, pinned, lastEpoch>>
  BY DEF vars, tableVars, storeVars, clientVars, roleVars, updateVars, engineVars
<1>2. Types'
  BY TypesStep DEF ControlInv
<1>3. StoreInv'
  BY <1>1, Zenon DEF ControlInv, StoreInv, Choice
<1>4. OverridesOfThisActivation'
  BY <1>1, Zenon DEF ControlInv, OverridesOfThisActivation, ActiveControls
<1>5. TokenInv'
  BY <1>1, Zenon DEF ControlInv, TokenInv, Issued
<1>6. NoStopOnPump'
  BY <1>1, Zenon DEF ControlInv, NoStopOnPump, ActivePumps
<1>7. UpdateInv'
  BY <1>1, Zenon DEF ControlInv, UpdateInv, UpdateOwnsItsChannels, OpenFanControls, ActiveControls,
                     drives_openfan, openfan_maintenance_running
<1>8. TickInv'
  BY <1>1, Zenon DEF ControlInv, TickInv
<1>9. QED
  BY <1>2, <1>3, <1>4, <1>5, <1>6, <1>7, <1>8 DEF ControlInv

LEMMA ControlStep == ControlInv /\ [Next]_vars => ControlInv'
<1>1. ControlInv /\ Next => ControlInv'
  BY TypesStep, StoreInvStep, ActivationStep, TokenStep, NoStopStep, UpdateStep, TickStep
     DEF ControlInv
<1>2. QED
  BY <1>1, ControlStutter

LEMMA ControlHolds == Spec => []ControlInv
  BY ControlInit, ControlStep, PTL DEF Spec

LEMMA TypesFromInv == ControlInv => TypeOK
<1> SUFFICES ASSUME ControlInv PROVE TypeOK
  OBVIOUS
<1> USE DEF ControlInv, Types
<1>1. ASSUME NEW c \in Controls, overrides[c] # None
      PROVE  /\ overrides[c].token \in 1..next_token /\ overrides[c].epoch \in 0..epoch
             /\ {overrides[c].by, overrides[c].kept} \subseteq Clients
  <2>1. overrides[c] \in Overridden /\ overrides[c].here
    BY <1>1, Entries DEF TableTypes
  <2>2. /\ overrides[c].token \in Nat \ {0} /\ overrides[c].epoch \in Nat
        /\ overrides[c].by \in Clients /\ overrides[c].kept \in Clients
    BY <2>1 DEF Overridden
  <2>3. overrides[c].token <= next_token /\ overrides[c].epoch = epoch
    BY <2>1 DEF TokenInv, OverridesOfThisActivation
  <2>4. QED
    BY <2>2, <2>3 DEF TableTypes, StoreTypes
<1>2. ASSUME NEW f \in Fans, identify[f] # None PROVE identify[f].mode \in {"stop", "perturb"}
  BY <1>2 DEF TableTypes, Held
<1>3. Cardinality(persisting) <= 1
  <2>1. CASE persisting = {}
    BY <2>1, FS_EmptySet
  <2>2. CASE persisting = {Choice(active)}
    BY <2>2, FS_Singleton
  <2>3. QED
    BY <2>1, <2>2 DEF StoreInv
<1>4. QED
  BY <1>1, <1>2, <1>3 DEF TypeOK, StoreTypes, OtherTypes

(* The variables hold what the code's types allow, whatever the handlers,  *)
(* the engine and the deadman do in between and through restarts.          *)
THEOREM ControlTypes == Spec => []TypeOK
  BY ControlHolds, TypesFromInv, PTL

(* No override survives the activation it was taken under, nor drives a    *)
(* control its profile does not have.                                      *)
THEOREM NoneCarriedOver == Spec => []OverridesOfThisActivation
<1>1. ControlInv => OverridesOfThisActivation
  BY DEF ControlInv
<1>2. QED
  BY <1>1, ControlHolds, PTL

(* No fan that a label, the active profile or an assignment protects as a  *)
(* pump is held stopped by an identify.                                    *)
THEOREM PumpsRun == Spec => []NoStopOnPump
<1>1. ControlInv => NoStopOnPump
  BY DEF ControlInv
<1>2. QED
  BY <1>1, ControlHolds, PTL

(* Once a firmware update has released its channels nobody holds one until *)
(* it ends.                                                                *)
THEOREM UpdateAlone == Spec => []UpdateOwnsItsChannels
<1>1. ControlInv => UpdateOwnsItsChannels
  BY DEF ControlInv, UpdateInv
<1>2. QED
  BY <1>1, ControlHolds, PTL

(* With the store lock free and nothing failed, a restart brings back the  *)
(* active profile.                                                         *)
THEOREM RestartResumes == Spec => []SavedIsActive
<1>1. ControlInv => SavedIsActive
  BY SavedFromInv DEF ControlInv
<1>2. QED
  BY <1>1, ControlHolds, PTL

LEMMA FencedStep ==
    ASSUME ControlInv, NEW k \in Clients, Issued(k), UsesGrant(k)
    PROVE  overrides[held[k].control].by = k
<1>1. held[k] # NoGrant
  BY DEF UsesGrant, override_renew_handler, override_release_handler
<1>2. held[k].control \in Controls
  BY <1>1 DEF ControlInv, Types, TableTypes, Granted
<1>3. Holds(held[k].control, held[k].token)
  BY DEF UsesGrant, override_renew_handler, override_release_handler, renew_override,
         release_override
<1>4. overrides[held[k].control].here
  BY <1>2, <1>3, Entries DEF Holds, ControlInv, Types, TableTypes
<1>5. QED
  BY <1>2, <1>3, <1>4 DEF Holds, ControlInv, TokenInv

(* A token keeps or ends only the override it was granted for, as long as  *)
(* the boot that issued it lasts.                                          *)
THEOREM TokensFence == Spec => FencedInBoot
<1>1. ControlInv /\ [Next]_vars => [\A k \in Clients : held[k].boot = boot => ActsOnItsOwn(k)]_vars
  BY FencedStep DEF ActsOnItsOwn, Issued
<1>2. QED
  BY <1>1, ControlHolds, PTL DEF Spec, FencedInBoot

LEMMA StaleStep ==
    ASSUME ControlInv, NEW c \in Controls, TickEvaluates, Pins(c), pinned[c].epoch # epoch
    PROVE  lastEpoch # epoch
<1>1. tick = "read" /\ pinned[c].live
  BY DEF TickEvaluates, Pins
<1>2. lastEpoch <= pinned[c].epoch /\ pinned[c].epoch <= epoch
  BY <1>1 DEF ControlInv, TickInv
<1>3. pinned[c].epoch \in Nat /\ lastEpoch \in Nat /\ epoch \in Nat
  BY <1>1, Entries DEF ControlInv, Types, StoreTypes, OtherTypes, Overridden
<1>4. QED
  BY <1>2, <1>3

(* An override that outlives its profile pins at most the first tick that  *)
(* sees the new one.                                                       *)
THEOREM StaleForOneTick == Spec => StaleAtMostOneTick
<1>1. ControlInv /\ [Next]_vars =>
        [\A c \in Controls :
           TickEvaluates /\ Pins(c) /\ pinned[c].epoch # epoch => lastEpoch # epoch]_vars
  BY StaleStep
<1>2. QED
  BY <1>1, ControlHolds, PTL DEF Spec, StaleAtMostOneTick
=============================================================================
