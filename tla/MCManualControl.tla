---------------------------- MODULE MCManualControl ----------------------------
(***************************************************************************)
(* One control that drives one OpenFan channel.  For the handlers and the  *)
(* engine: two profiles with the control, of which one names the channel a *)
(* pump.  For the store: a preset, and a stored profile with two texts.    *)
(***************************************************************************)
EXTENDS ManualControl, TLC

TwoProfiles == {"a", "b"}
ProfileIds == [d \in TwoProfiles |-> d]

StoreDocs == {"a1", "a2", "b"}
StoreIds == {"a", "b"}
StoreIdOf == [d \in StoreDocs |-> IF d = "b" THEN "b" ELSE "a"]
OnePreset == {"b"}

TheControls == {"cpu"}
TheFans == {"ch"}
TheControlsOf == [d \in Docs |-> TheControls]
ThePumpsOf == [d \in Docs |-> IF d = "b" THEN {"ch"} ELSE {}]
TheMembersOf == [c \in TheControls |-> {"ch"}]
NoPumps == [d \in Docs |-> {}]
NoMembers == [c \in TheControls |-> {}]
TheOpenFans == {"ch"}
Nobody == {}
Runs == {1}
EitherClient == Permutations(Clients)
=============================================================================
