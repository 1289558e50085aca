------------------------------- MODULE HandBack -------------------------------
(***************************************************************************)
(* The hwmon headers as sysfs shows them, and the hand-back ledger with    *)
(* its record file (hwmon/handback.rs): what each header was doing before  *)
(* the daemon took it, which ones it holds, and the file ExecStopPost      *)
(* (packaging/control-ofc-restore-auto.sh) replays after every exit.       *)
(***************************************************************************)
EXTENDS Integers

CONSTANTS
    ModeHeaders,     \* headers with a pwmN_enable
    NoModeHeaders,   \* headers without one: nothing to give them back to
    Driver           \* Driver[h] of a mode header: "plain", "kraken", "dell"

Headers == ModeHeaders \cup NoModeHeaders

ASSUME HeaderAssumption ==
    /\ ModeHeaders \cap NoModeHeaders = {}
    /\ \A h \in ModeHeaders : Driver[h] \in {"plain", "kraken", "dell"}

Duty == 0..100
NoDuty == -1            \* an Option<u8> that is None
Modes == {"auto", "manual", "full"}   \* pwmN_enable: 2 and above, 1, 0

VARIABLES
    enable,      \* enable[h]: pwmN_enable ("manual" where there is none)
    duty,        \* duty[h]: pwmN, in percent
    alive,       \* the headers whose files can be read and written
    original,    \* Entry::original: what h did before its first take
    taken,       \* the entries with `taken` set
    stopping,    \* HandBackLedger::shutdown_hand_back
    record,      \* the record file: what it says of h
    recordStale, \* record_stale
    disk,        \* whether the runtime directory takes writes
    driven       \* history: headers written and not given back since

sysfsVars == <<enable, duty, alive>>
ledgerVars == <<original, taken, record, recordStale>>
handBackVars == <<sysfsVars, ledgerVars, stopping, disk, driven>>

(* HandBack: Mode(m), WriteOnlyMode(m), Manual(raw), FullSpeed. *)
HandBacks == [kind : {"mode", "write_only", "manual", "full"}, mode : Modes, duty : Duty]
Unknown == [kind |-> "unknown", mode |-> "auto", duty |-> 0]      \* None

ToMode(m)    == [kind |-> "mode", mode |-> m, duty |-> 0]
WriteOnly    == [kind |-> "write_only", mode |-> "auto", duty |-> 0]
ToManual(d)  == [kind |-> "manual", mode |-> "manual", duty |-> d]
FullSpeed    == [kind |-> "full", mode |-> "full", duty |-> 0]

(* dell_smm never reads its mode switch back. *)
EnableReads(h) == h \in alive /\ Driver[h] # "dell"

(* HandBack::from_reading with driver_rule: a kraken's mode 2 is a curve   *)
(* it no longer has, dell's switch is write-only, an unread one is full.   *)
from_reading(h) ==
    IF Driver[h] = "dell" THEN WriteOnly
    ELSE IF h \notin alive THEN FullSpeed
    ELSE IF enable[h] = "manual" THEN ToManual(duty[h])
    ELSE IF enable[h] = "auto" /\ Driver[h] = "kraken" THEN FullSpeed
    ELSE ToMode(enable[h])

----------------------------------------------------------------------------
(* hand_back and full_speed.  A write the chip does not confirm (or, where *)
(* its mode switch never reads back, refuses) falls back to full speed,    *)
(* and that may stop half-way: each case is a result.                      *)

Result(e, d, outcome) == [enable |-> e, duty |-> d, outcome |-> outcome]

full_speed(h) ==
    {r \in {Result("full", duty[h], "full_speed")} : EnableReads(h)} \cup
    {Result("manual", 100, "full_speed"), Result("manual", duty[h], "failed")}

(* Mutant of hand_back: an unconfirmed mode is taken for restored. *)
hand_back_unconfirmed(h, action) == {Result(enable[h], duty[h], "restored")}

hand_back(h, action) ==
    IF h \notin alive THEN {Result(enable[h], duty[h], "failed")}
    ELSE CASE action.kind = "mode" ->
                  {Result(action.mode, duty[h], "restored")} \cup full_speed(h)
           [] action.kind = "write_only" ->
                  {Result(action.mode, duty[h], "restored")} \cup full_speed(h)
           [] action.kind = "manual" ->
                  {Result("manual", action.duty, "restored")} \cup full_speed(h)
           [] OTHER -> full_speed(h)

released(result) == result.outcome # "failed"

(* The header's files after a hand-back, and who drives it now. *)
PerformHandBack(h, result) ==
    /\ enable' = [enable EXCEPT ![h] = result.enable]
    /\ duty' = [duty EXCEPT ![h] = result.duty]
    /\ driven' = IF released(result) THEN driven \ {h} ELSE driven

----------------------------------------------------------------------------
(* render_record: an entry whose original is unknown goes to full speed. *)
TakenAction(orig, h) == IF orig[h] = Unknown THEN FullSpeed ELSE orig[h]

render_record(orig, held) ==
    [h \in ModeHeaders |-> IF h \in held THEN TakenAction(orig, h) ELSE Unknown]

(* Mutant of persist: a write that failed is not remembered. *)
persist_forgets_failure(orig, held) ==
    /\ record' = IF disk THEN render_record(orig, held) ELSE record
    /\ recordStale' = FALSE

(* persist: write-replace the file, or remember that it is behind. *)
persist(orig, held) ==
    /\ record' = IF disk THEN render_record(orig, held) ELSE record
    /\ recordStale' = ~disk

retry_record_if_failed ==
    IF recordStale THEN persist(original, taken) ELSE UNCHANGED <<record, recordStale>>

(* note_take: the original is kept from the FIRST take, and the file is    *)
(* rewritten when either changed.                                          *)
note_take(h, orig) ==
    /\ original' = [original EXCEPT ![h] = IF @ = Unknown THEN orig ELSE @]
    /\ taken' = taken \cup {h}
    /\ IF original' # original \/ taken' # taken
       THEN persist(original', taken')
       ELSE UNCHANGED <<record, recordStale>>

note_handed_back(h) ==
    /\ taken' = taken \ {h}
    /\ IF taken' # taken THEN persist(original, taken')
       ELSE UNCHANGED <<record, recordStale>>
    /\ UNCHANGED original

HandBackInit ==
    /\ enable \in [Headers -> Modes]
    /\ \A h \in NoModeHeaders : enable[h] = "manual"
    /\ alive = Headers
    /\ original = [h \in ModeHeaders |-> Unknown]
    /\ taken = {}
    /\ stopping = FALSE
    /\ record = [h \in ModeHeaders |-> Unknown]
    /\ recordStale = FALSE
    /\ disk = TRUE
    /\ driven = {}

HandBackTypeOK ==
    /\ enable \in [Headers -> Modes]
    /\ duty \in [Headers -> Duty]
    /\ alive \subseteq Headers
    /\ original \in [ModeHeaders -> HandBacks \cup {Unknown}]
    /\ taken \subseteq ModeHeaders
    /\ stopping \in BOOLEAN /\ recordStale \in BOOLEAN /\ disk \in BOOLEAN
    /\ record \in [ModeHeaders -> HandBacks \cup {Unknown}]
    /\ driven \subseteq Headers
=============================================================================
