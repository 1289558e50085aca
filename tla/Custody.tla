------------------------------- MODULE Custody -------------------------------
(***************************************************************************)
(* What a firmware update promises of the board, whatever its stages.  A   *)
(* run takes the board from the engine, or from a recovery an earlier run  *)
(* left.  It asks the board to leave only once a restart of the daemon     *)
(* would find that written down; the flash changes only while that is so.  *)
(* A run gives the board back as it took it only if the flash is as it     *)
(* found it; any other board is left needing recovery until it answers,    *)
(* across restarts of the daemon, unless it is no longer there.            *)
(***************************************************************************)
VARIABLES
    mode,      \* "control", "held", "away", "answered", "recovery", "down"
    prior,     \* what a run took the board from: "control" or "recovery"
    disk,      \* what a restart would find: "clean" or "recovery"
    flash,     \* "asFound" or "changed" since a run last took the board
    answers,   \* the board answers, or its answer is being acted on
    there      \* the board is on its USB port

custody == <<mode, prior, disk, flash, answers, there>>

Init ==
    /\ mode = "down" /\ prior = "control" /\ disk = "clean" /\ flash = "asFound"
    /\ answers \in BOOLEAN /\ there \in BOOLEAN

Stays == UNCHANGED <<mode, prior>>
GoesTo(m) == mode' = m /\ prior' = "control"

Take ==
    /\ mode \in {"control", "recovery"}
    /\ mode' = "held" /\ prior' = mode /\ flash' = "asFound" /\ UNCHANGED disk

(* The run's own record replaces the last one's on disk: a restart forgets *)
(* the recovery a run that changed nothing took the board from.            *)
Note ==
    /\ mode \in {"control", "held", "recovery"} /\ flash = "asFound"
    /\ Stays /\ disk' = "clean" /\ UNCHANGED flash

Ask == mode = "held" /\ mode' = "away" /\ disk' = "recovery" /\ UNCHANGED <<prior, flash>>

Change ==
    /\ "recovery" \in {mode, disk} /\ flash' = "changed"
    /\ Stays /\ UNCHANGED disk

(* The run has found that nothing changed, and says so before it lets go. *)
FoundUnchanged == mode = "away" /\ flash = "asFound" /\ Stays /\ disk' = "clean" /\ UNCHANGED flash

Return ==
    /\ mode = "held" \/ (mode \in {"away", "answered"} /\ flash = "asFound")
    /\ GoesTo(prior) /\ UNCHANGED <<disk, flash>>

Answered ==
    /\ mode \in {"held", "away"} /\ answers
    /\ mode' = "answered" /\ disk' \in {disk, "clean"} /\ UNCHANGED <<prior, flash>>

(* An answer that could not be followed up counts for nothing. *)
Doubt == mode = "answered" /\ Stays /\ disk' = "recovery" /\ UNCHANGED flash

Resume == mode = "answered" /\ GoesTo("control") /\ UNCHANGED <<disk, flash>>

Leave ==
    /\ mode \in {"away", "answered"} /\ (disk = "recovery" \/ flash = "asFound")
    /\ GoesTo("recovery") /\ UNCHANGED <<disk, flash>>

Recover == mode = "recovery" /\ answers /\ GoesTo("control") /\ UNCHANGED <<disk, flash>>

Die == mode # "down" /\ GoesTo("down") /\ UNCHANGED <<disk, flash>>

Restart ==
    /\ mode = "down"
    /\ GoesTo(IF disk = "clean" \/ answers \/ ~there THEN "control" ELSE "recovery")
    /\ UNCHANGED <<disk, flash>>

Next ==
    /\ \/ Take \/ Note \/ Ask \/ Change \/ FoundUnchanged \/ Return \/ Answered \/ Doubt
       \/ Resume \/ Leave \/ Recover \/ Die \/ Restart
       \/ UNCHANGED <<mode, prior, disk, flash>>
    /\ answers' \in BOOLEAN /\ there' \in BOOLEAN

Spec == Init /\ [][Next]_custody
=============================================================================
