-------------------------- MODULE HwmonWritesProofs --------------------------
(***************************************************************************)
(* For every set of headers, drivers, chips, diagnostics and commands, and *)
(* every interleaving of the engine's task, the diagnostics, the stop, the *)
(* crash and the environment: the type invariant; that the ledger and its  *)
(* record file are written ahead of the hardware, so that ExecStopPost     *)
(* gives back whatever a stopped or killed daemon drove, and leaves it as  *)
(* it was found; that no write outlives the exit floor; that a             *)
(* diagnostic's test and its slot are its own; that a header is reported   *)
(* as not holding its duty only for a reason; and that headers without a   *)
(* mode switch are let go of at the exit floor.                            *)
(***************************************************************************)
EXTENDS HwmonWrites, TLAPS

(* TypeOK in the three groups of variables that actions leave alone together. *)
ActorTypeOK ==
    /\ members \subseteq Headers /\ forced \in {0, SafePct, 100}
    /\ task \in Tasks
    /\ \A h \in task.todo : task.pct[h] \in Duty
    /\ slot \in [owner : Diags \cup {"none"}, live : BOOLEAN]
    /\ diag \in [Diags -> DiagStates]
    /\ \A d \in Diags : diag[d].pc # "idle" => diag[d].h \in Headers

StopTypeOK ==
    /\ phase \in {"running", "draining", "floor", "flagged", "hand_back", "exited", "down"}
    /\ floorTodo \subseteq NoModeHeaders /\ stopTodo \subseteq ModeHeaders
    /\ undone \subseteq ModeHeaders
    /\ found \in [Headers -> [mode : Modes, duty : Duty]]
    /\ budget \in 0..EnvBudget

(* A diagnostic whose call holds the lock waits for that call.  TypeOK     *)
(* needs it: OpReturn moves on whichever diagnostic made the call.         *)
CallerInv == op.by \in Diags => diag[op.by].pc \in {"testing", "restoring"}

LEMMA TypeGroups == TypeOK <=> ControlTypeOK /\ ActorTypeOK /\ StopTypeOK
  BY DEF TypeOK, ActorTypeOK, StopTypeOK

----------------------------------------------------------------------------
(* The values the helpers return. *)

LEMMA ModesForgottenType ==
    ASSUME NEW w \in [Headers -> WriteStates]
    PROVE  /\ ModesForgotten(w) \in [Headers -> WriteStates]
           /\ \A h \in Headers : ~ModesForgotten(w)[h].mode
  BY DEF ModesForgotten, WriteStates

LEMMA NoStateType == NoState \in WriteStates
  BY ControlAssumption DEF NoState, WriteStates, NoDuty

LEMMA IdleType == Idle \in Calls /\ Idle.step = "idle" /\ ~Idle.release
  BY ControlAssumption DEF Idle, Calls, Steps, Duty

LEMMA DriftAfterType ==
    ASSUME NEW w \in WriteStates, NEW e \in Int, NEW r \in Int
    PROVE  DriftAfter(e, r, w) \in WriteStates /\ DriftAfter(e, r, w).mode = w.mode
  <1>1. /\ w.entry \in BOOLEAN /\ w.last \in Duty \cup {NoDuty} /\ w.mode \in BOOLEAN
        /\ w.held \in Duty \cup {NoDuty} /\ w.corrections \in 0..Attempts
        /\ w.notHolding \in BOOLEAN /\ w.episode \in BOOLEAN /\ Attempts \in Nat
    BY ControlAssumption DEF WriteStates
  <1>2. CASE r = NoDuty
    BY <1>2 DEF DriftAfter
  <1>3. CASE r # NoDuty /\ Near(r, e)
    <2> DEFINE c == IF w.episode THEN 0 ELSE w.corrections
               n == w.notHolding /\ ~w.episode
    <2>1. c \in 0..Attempts
      BY <1>1
    <2>2. n \in BOOLEAN
      OBVIOUS
    <2>3. DriftAfter(e, r, w) = [w EXCEPT !.corrections = c, !.notHolding = n, !.episode = FALSE]
      BY <1>3, Zenon DEF DriftAfter
    <2> HIDE DEF c, n
    <2> QED BY <2>1, <2>2, <2>3 DEF WriteStates
  <1>4. CASE r # NoDuty /\ ~Near(r, e) /\ w.notHolding
    BY <1>4 DEF DriftAfter
  <1>5. CASE r # NoDuty /\ ~Near(r, e) /\ ~w.notHolding /\ w.corrections >= Attempts
    BY <1>5 DEF DriftAfter, WriteStates
  <1>6. CASE r # NoDuty /\ ~Near(r, e) /\ ~w.notHolding /\ ~(w.corrections >= Attempts)
    <2>1. w.corrections + 1 \in 0..Attempts
      BY <1>1, <1>6
    <2> QED BY <1>6, <2>1 DEF DriftAfter, WriteStates
  <1> QED BY <1>2, <1>3, <1>4, <1>5, <1>6

LEMMA UncountedType ==
    ASSUME NEW w \in WriteStates
    PROVE  Uncounted(w) \in WriteStates /\ Uncounted(w).mode = w.mode
  BY ControlAssumption DEF Uncounted, WriteStates

LEMMA StateAfterWriteType ==
    ASSUME NEW w \in WriteStates, NEW pct \in Duty, NEW fix \in BOOLEAN, NEW rec \in BOOLEAN
    PROVE  StateAfterWrite(w, pct, fix, rec) \in WriteStates
  <1> DEFINE c == IF rec /\ ~fix THEN 0 ELSE w.corrections
             n == w.notHolding /\ ~(rec /\ ~fix)
  <1>1. c \in 0..Attempts /\ Stores[pct] \in Duty
    BY ControlAssumption DEF WriteStates
  <1>2. n \in BOOLEAN
    OBVIOUS
  <1>3. StateAfterWrite(w, pct, fix, rec) =
          [w EXCEPT !.entry = TRUE, !.last = pct, !.mode = TRUE, !.held = Stores[pct],
                    !.corrections = c, !.notHolding = n]
    BY Zenon DEF StateAfterWrite
  <1> HIDE DEF c, n
  <1> QED BY <1>1, <1>2, <1>3 DEF WriteStates

LEMMA FromReadingType ==
    ASSUME HandBackTypeOK, NEW h \in ModeHeaders
    PROVE  from_reading(h) \in HandBacks
  <1>1. enable[h] \in Modes /\ duty[h] \in Duty
    BY DEF HandBackTypeOK, Headers
  <1> QED BY <1>1 DEF from_reading, WriteOnly, FullSpeed, ToManual, ToMode, HandBacks, Modes, Duty

LEMMA TakenActionType ==
    ASSUME NEW orig \in [ModeHeaders -> HandBacks \cup {Unknown}], NEW h \in ModeHeaders
    PROVE  TakenAction(orig, h) \in HandBacks /\ TakenAction(orig, h) # Unknown
  BY DEF TakenAction, FullSpeed, HandBacks, Unknown, Modes, Duty

LEMMA HandBackResultType ==
    ASSUME HandBackTypeOK, NEW h \in Headers, NEW action \in HandBacks,
           NEW result \in hand_back(h, action)
    PROVE  result.enable \in Modes /\ result.duty \in Duty
  <1>1. enable[h] \in Modes /\ duty[h] \in Duty /\ action.mode \in Modes /\ action.duty \in Duty
    BY DEF HandBackTypeOK, HandBacks
  <1>2. \A r \in full_speed(h) : r.enable \in Modes /\ r.duty \in Duty
    BY <1>1 DEF full_speed, Result, Modes, Duty
  <1>3. result \in full_speed(h) \/ result = Result(enable[h], duty[h], "failed")
          \/ result = Result(action.mode, duty[h], "restored")
          \/ result = Result("manual", action.duty, "restored")
    BY DEF hand_back
  <1> QED BY <1>1, <1>2, <1>3 DEF Result, Modes

LEMMA RenderRecordType ==
    ASSUME NEW orig \in [ModeHeaders -> HandBacks \cup {Unknown}], NEW held
    PROVE  render_record(orig, held) \in [ModeHeaders -> HandBacks \cup {Unknown}]
  BY TakenActionType DEF render_record

LEMMA FreshIdType ==
    ASSUME lease \in Leases, task \in Tasks, diag \in [Diags -> DiagStates]
    PROVE  /\ FreshId \in LeaseIds /\ FreshId # lease.id /\ FreshId # task.id
           /\ \A d \in Diags : FreshId # diag[d].id
  <1> DEFINE ids == [x \in Diags \cup {"lease", "task"} |->
                        IF x = "lease" THEN lease.id
                        ELSE IF x = "task" THEN task.id ELSE diag[x].id]
             held == {lease.id, task.id} \cup {diag[d].id : d \in Diags}
  <1>1. /\ lease.id \in LeaseIds \cup {NoId} /\ task.id \in LeaseIds \cup {NoId}
        /\ \A d \in Diags : diag[d].id \in LeaseIds \cup {NoId}
    BY DEF Leases, Tasks, DiagStates
  <1>2. ids \in [Diags \cup {"lease", "task"} -> LeaseIds \cup {NoId}]
    BY <1>1
  <1>3. PICK i \in LeaseIds : \A x \in Diags \cup {"lease", "task"} : ids[x] # i
    BY <1>2, FreshIdAssumption
  <1>4. i # lease.id /\ i # task.id
    BY <1>3
  <1>5. \A d \in Diags : diag[d].id # i
    <2> TAKE d \in Diags
    <2>1. d \notin {"lease", "task"}
      BY WritesAssumption
    <2> QED BY <1>3, <2>1
  <1>6. i \notin held
    BY <1>4, <1>5
  <1>7. FreshId \in LeaseIds /\ FreshId \notin held
    <2> HIDE DEF held
    <2>1. \E j \in LeaseIds : j \notin held
      BY <1>3, <1>6
    <2>2. FreshId = CHOOSE j \in LeaseIds : j \notin held
      BY DEF FreshId, held
    <2> QED BY <2>1, <2>2
  <1> QED BY <1>7

(* Writing the record keeps its type, whatever the disk does. *)
LEMMA PersistType ==
    ASSUME HandBackTypeOK, NEW orig \in [ModeHeaders -> HandBacks \cup {Unknown}], NEW held,
           persist(orig, held)
    PROVE  record' \in [ModeHeaders -> HandBacks \cup {Unknown}] /\ recordStale' \in BOOLEAN
  BY RenderRecordType DEF persist, HandBackTypeOK

LEMMA RetryType ==
    ASSUME HandBackTypeOK, retry_record_if_failed
    PROVE  record' \in [ModeHeaders -> HandBacks \cup {Unknown}] /\ recordStale' \in BOOLEAN
  BY PersistType DEF retry_record_if_failed, HandBackTypeOK

----------------------------------------------------------------------------
(* Every call of the controller keeps its types. *)

LEMMA SetPwmType ==
    ASSUME ControlTypeOK, NEW states \in [Headers -> WriteStates], NEW owner,
           NEW by \in Callers, NEW h \in Headers, NEW pct \in Duty, NEW release \in BOOLEAN,
           release => h \in NoModeHeaders,
           set_pwm_from(states, owner, by, h, pct, release),
           lease' \in Leases, UNCHANGED <<stopping, disk>>
    PROVE  ControlTypeOK'
  <1> DEFINE reconciles  == owner # "verify"
             effective   == effective_pct(h, pct)
             noted       == IF resumed THEN ModesForgotten(states) ELSE states
             w           == [noted[h] EXCEPT !.entry = TRUE,
                                             !.mode = @ /\ ~enable_reclaimed(h, noted[h])]
             expected    == ExpectedDuty(w, effective)
             coalescible == reconciles /\ w.mode /\ w.last = effective
             fix         == coalescible /\ Rewrites(expected, Readback(h), w)
             call        == [Idle EXCEPT !.by = by, !.h = h, !.pct = effective,
                                         !.reconciles = reconciles, !.fix = fix,
                                         !.release = release]
  <1>1. effective \in Duty
    BY DEF effective_pct, ControlTypeOK, Duty, NoDuty
  <1>2. noted \in [Headers -> WriteStates]
    BY ModesForgottenType
  <1>3. w \in WriteStates
    <2> DEFINE m == noted[h].mode /\ ~enable_reclaimed(h, noted[h])
    <2>1. m \in BOOLEAN
      OBVIOUS
    <2>2. noted[h] \in WriteStates
      BY <1>2
    <2>3. w = [noted[h] EXCEPT !.entry = TRUE, !.mode = m]
      BY Zenon
    <2> HIDE DEF m, noted, w
    <2> QED BY <2>1, <2>2, <2>3 DEF WriteStates
  <1>4. expected \in Int /\ Readback(h) \in Int
    <2>1. Readback(h) \in Int
      BY DEF Readback, Duty, NoDuty, ControlTypeOK, HandBackTypeOK
    <2> HIDE DEF w, effective
    <2> QED BY <1>1, <1>3, <2>1 DEF ExpectedDuty, WriteStates, Duty, NoDuty
  <1>5. DriftAfter(expected, Readback(h), w) \in WriteStates
    BY <1>3, <1>4, DriftAfterType
  <1>6. reconciles \in BOOLEAN /\ coalescible \in BOOLEAN /\ fix \in BOOLEAN
    OBVIOUS
  <1>7. call \in Calls /\ call.release = release /\ call.h = h
    <2> HIDE DEF effective, reconciles, fix
    <2> QED BY <1>1, <1>6 DEF Calls, Idle, Steps
  <1>8. HandBackTypeOK
    BY DEF ControlTypeOK
  <1>9. /\ resumed' = FALSE
        /\ UNCHANGED <<sysfsVars, original, taken, driven, exitRecord, exitMin, abandoned,
                       suspended>>
    BY DEF set_pwm_from
  <1>10. CASE refused(h)
    <2>1. /\ ws' = noted
          /\ op' = [call EXCEPT !.step = "done"]
          /\ UNCHANGED <<record, recordStale, engineHeld>>
      BY <1>10, Zenon DEF set_pwm_from
    <2>2. /\ op' \in Calls /\ op'.step = "done" /\ op'.h = h /\ op'.release = release
      <3> HIDE DEF call
      <3> QED BY <1>7, <2>1 DEF Calls, Steps
    <2> HIDE DEF noted, call
    <2> QED BY <1>2, <1>8, <1>9, <2>1, <2>2 DEF ControlTypeOK, HandBackTypeOK, sysfsVars
  <1>11. CASE ~refused(h)
    <2> DEFINE st == IF coalescible /\ ~fix THEN "done"
                     ELSE IF h \in ModeHeaders /\ ~w.mode THEN "note" ELSE "check"
               after == IF coalescible THEN DriftAfter(expected, Readback(h), w) ELSE w
               ok == coalescible /\ ~fix
    <2>1. /\ retry_record_if_failed
          /\ engineHeld' = IF reconciles /\ h \in NoModeHeaders
                           THEN engineHeld \cup {h} ELSE engineHeld
          /\ ws' = [noted EXCEPT ![h] = after]
          /\ op' = [call EXCEPT !.step = st, !.ok = ok]
      BY <1>11, Zenon DEF set_pwm_from
    <2>2. after \in WriteStates /\ ok \in BOOLEAN
      BY <1>3, <1>5
    <2>3. ws' \in [Headers -> WriteStates]
      <3> HIDE DEF after, noted
      <3> QED BY <1>2, <2>1, <2>2
    <2>4. /\ op' \in Calls /\ op'.step = st /\ op'.h = h /\ op'.release = release
      <3>1. st \in {"done", "note", "check"}
        BY Zenon
      <3> HIDE DEF call, st, ok
      <3> QED BY <1>7, <2>1, <2>2, <3>1 DEF Calls, Steps
    <2>5. st = "note" => h \in ModeHeaders
      BY Zenon
    <2>6. st \in {"done", "note", "check"}
      BY Zenon
    <2>7. record' \in [ModeHeaders -> HandBacks \cup {Unknown}] /\ recordStale' \in BOOLEAN
      BY <1>8, <2>1, RetryType
    <2>8. engineHeld' \subseteq NoModeHeaders
      BY <2>1 DEF ControlTypeOK
    <2> HIDE DEF st, after, noted, call, ok
    <2> QED BY <1>8, <1>9, <2>3, <2>4, <2>5, <2>6, <2>7, <2>8
            DEF ControlTypeOK, HandBackTypeOK, sysfsVars
  <1> QED BY <1>10, <1>11

LEMMA OpNoteType ==
    ASSUME ControlTypeOK, OpNote, UNCHANGED <<lease, stopping, disk>>
    PROVE  ControlTypeOK'
  <1>1. op \in Calls /\ op.h \in ModeHeaders /\ HandBackTypeOK
    BY DEF OpNote, ControlTypeOK
  <1>2. from_reading(op.h) \in HandBacks
    BY <1>1, FromReadingType
  <1>3. op' \in Calls /\ op'.h = op.h /\ op'.release = op.release /\ op'.step \in {"done", "take"}
    BY <1>1, <1>2 DEF OpNote, Calls, Steps
  <1> QED BY <1>1, <1>3 DEF OpNote, ControlTypeOK, HandBackTypeOK, sysfsVars, ledgerVars

LEMMA OpTakeType ==
    ASSUME ControlTypeOK, OpTake, UNCHANGED <<lease, stopping, disk>>
    PROVE  ControlTypeOK'
  <1>1. op \in Calls /\ op.h \in ModeHeaders /\ HandBackTypeOK
    BY DEF OpTake, ControlTypeOK
  <1>2. op' \in Calls /\ op'.h = op.h /\ op'.release = op.release /\ op'.step = "enable"
    BY <1>1 DEF OpTake, Calls, Steps
  <1>3. original' \in [ModeHeaders -> HandBacks \cup {Unknown}] /\ taken' \subseteq ModeHeaders
    BY <1>1 DEF OpTake, note_take, HandBackTypeOK, Calls
  <1>4. record' \in [ModeHeaders -> HandBacks \cup {Unknown}] /\ recordStale' \in BOOLEAN
    <2>1. persist(original', taken') \/ UNCHANGED <<record, recordStale>>
      BY DEF OpTake, note_take
    <2>2. ASSUME persist(original', taken')
          PROVE  record' \in [ModeHeaders -> HandBacks \cup {Unknown}] /\ recordStale' \in BOOLEAN
      BY <1>1, <1>3, <2>2, RenderRecordType DEF persist, HandBackTypeOK
    <2> QED BY <1>1, <2>1, <2>2 DEF HandBackTypeOK
  <1> QED BY <1>1, <1>2, <1>3, <1>4
          DEF OpTake, ControlTypeOK, HandBackTypeOK, sysfsVars, ledgerVars

LEMMA OpEnableType ==
    ASSUME ControlTypeOK, OpEnable, UNCHANGED <<lease, stopping, disk>>
    PROVE  ControlTypeOK'
  <1>1. op \in Calls /\ op.h \in ModeHeaders /\ HandBackTypeOK
    BY DEF OpEnable, ControlTypeOK
  <1>2. op' \in Calls /\ op'.h = op.h /\ op'.release = op.release /\ op'.step \in {"done", "check"}
    BY <1>1 DEF OpEnable, Calls, Steps
  <1>3. enable' \in [Headers -> Modes] /\ driven' \subseteq Headers
    BY <1>1 DEF OpEnable, HandBackTypeOK, Modes, Headers
  <1> QED BY <1>1, <1>2, <1>3
          DEF OpEnable, ControlTypeOK, HandBackTypeOK, sysfsVars, ledgerVars, Headers

LEMMA OpCheckType ==
    ASSUME ControlTypeOK, OpCheck, UNCHANGED <<lease, stopping, disk>>
    PROVE  ControlTypeOK'
  <1>1. op \in Calls /\ op.h \in Headers /\ HandBackTypeOK
    BY DEF OpCheck, ControlTypeOK
  <1>2. op' \in Calls /\ op'.h = op.h /\ op'.release = op.release /\ op'.step \in {"done", "write"}
    BY <1>1 DEF OpCheck, Calls, Steps
  <1>3. ws' \in [Headers -> WriteStates]
    <2>1. ws \in [Headers -> WriteStates] /\ Uncounted(ws[op.h]) \in WriteStates
      BY <1>1, UncountedType DEF ControlTypeOK
    <2> QED BY <1>1, <2>1 DEF OpCheck
  <1>4. exitRecord' \in [Headers -> Duty \cup {NoDuty, NotWritten}]
    BY <1>1 DEF OpCheck, ControlTypeOK
  <1> QED BY <1>1, <1>2, <1>3, <1>4
          DEF OpCheck, ControlTypeOK, HandBackTypeOK, sysfsVars, ledgerVars

LEMMA WriteLandsType ==
    ASSUME ControlTypeOK, NEW h \in Headers, NEW pct \in Duty, WriteLands(h, pct)
    PROVE  /\ duty' \in [Headers -> Duty]
           /\ exitRecord' \in [Headers -> Duty \cup {NoDuty, NotWritten}]
           /\ suspended' \in BOOLEAN /\ driven' \subseteq Headers
  <1>1. Stores[pct] \in Duty /\ Stores[100] \in Duty /\ 100 \in Duty
    BY ControlAssumption DEF Duty
  <1> QED BY <1>1 DEF WriteLands, ControlTypeOK, HandBackTypeOK

LEMMA OpWriteType ==
    ASSUME ControlTypeOK, OpWrite, UNCHANGED <<lease, stopping, disk>>
    PROVE  ControlTypeOK'
  <1>1. op \in Calls /\ op.h \in Headers /\ HandBackTypeOK /\ ws \in [Headers -> WriteStates]
    BY DEF OpWrite, ControlTypeOK
  <1>2. op' \in Calls /\ op'.h = op.h /\ op'.release = op.release /\ op'.step = "done"
    <2>1. op' = [op EXCEPT !.step = "done", !.ok = TRUE] \/ op' = [op EXCEPT !.step = "done"]
      BY DEF OpWrite
    <2> QED BY ZenonT(60), <1>1, <2>1 DEF Calls, Steps
  <1>3. op.pct \in Duty /\ op.fix \in BOOLEAN /\ op.reconciles \in BOOLEAN
    BY <1>1 DEF Calls
  <1>4. CASE op.h \in alive
    <2>1. StateAfterWrite(ws[op.h], op.pct, op.fix, op.reconciles) \in WriteStates
      BY <1>1, <1>3, StateAfterWriteType
    <2>2. ws' \in [Headers -> WriteStates]
      BY <1>1, <1>4, <2>1 DEF OpWrite
    <2>3. /\ duty' \in [Headers -> Duty]
          /\ exitRecord' \in [Headers -> Duty \cup {NoDuty, NotWritten}]
          /\ suspended' \in BOOLEAN /\ driven' \subseteq Headers
      BY <1>1, <1>3, <1>4, WriteLandsType DEF OpWrite
    <2> QED BY <1>1, <1>2, <2>2, <2>3
            DEF OpWrite, ControlTypeOK, HandBackTypeOK, ledgerVars
  <1>5. CASE op.h \notin alive
    <2> DEFINE w == IF op.fix THEN Uncounted(ws[op.h]) ELSE ws[op.h]
    <2>1. w \in WriteStates
      BY <1>1, UncountedType
    <2>2. ws' = [ws EXCEPT ![op.h] = [w EXCEPT !.mode = FALSE]] /\ WriteFails(op.h)
      BY <1>5 DEF OpWrite
    <2>3. ws' \in [Headers -> WriteStates]
      <3> HIDE DEF w
      <3>1. [w EXCEPT !.mode = FALSE] \in WriteStates
        BY <2>1 DEF WriteStates
      <3> QED BY <1>1, <2>2, <3>1
    <2>4. suspended' \in BOOLEAN /\ UNCHANGED <<duty, driven>>
      BY <2>2 DEF WriteFails
    <2>5. exitRecord' \in [Headers -> Duty \cup {NoDuty, NotWritten}]
      BY <2>2 DEF WriteFails, ControlTypeOK
    <2> QED BY <1>1, <1>2, <2>3, <2>4, <2>5
            DEF OpWrite, ControlTypeOK, HandBackTypeOK, ledgerVars
  <1> QED BY <1>4, <1>5

LEMMA OpBackType ==
    ASSUME ControlTypeOK, OpBack, UNCHANGED <<lease, stopping, disk>>
    PROVE  ControlTypeOK'
  <1>1. op \in Calls /\ op.h \in ModeHeaders /\ HandBackTypeOK
    BY DEF OpBack, ControlTypeOK
  <1>2. op' \in Calls /\ op'.h = op.h /\ op'.release = op.release /\ op'.step = "done"
    BY <1>1 DEF OpBack, Calls, Steps
  <1>3. ws' \in [Headers -> WriteStates]
    BY <1>1, NoStateType DEF OpBack, ControlTypeOK
  <1>4. persist(original, taken') \/ UNCHANGED <<record, recordStale>>
    BY DEF OpBack, note_handed_back
  <1>5. record' \in [ModeHeaders -> HandBacks \cup {Unknown}] /\ recordStale' \in BOOLEAN
    BY ZenonT(60), <1>1, <1>4, RenderRecordType DEF persist, HandBackTypeOK
  <1>6. taken' \subseteq ModeHeaders /\ UNCHANGED original
    BY <1>1 DEF OpBack, note_handed_back, HandBackTypeOK
  <1> QED BY <1>1, <1>2, <1>3, <1>5, <1>6
          DEF OpBack, ControlTypeOK, HandBackTypeOK, sysfsVars

LEMMA ForgetType ==
    ASSUME ControlTypeOK, NEW h \in Headers, Forget(h)
    PROVE  /\ engineHeld' \subseteq NoModeHeaders /\ abandoned' \subseteq Headers
           /\ ws' \in [Headers -> WriteStates]
  BY NoStateType DEF Forget, ControlTypeOK

LEMMA OpReturnType ==
    ASSUME ControlTypeOK, OpReturn, UNCHANGED <<lease, stopping, disk>>
    PROVE  ControlTypeOK'
  <1>1. Idle \in Calls /\ Idle.step = "idle" /\ ~Idle.release
    BY IdleType
  <1>2. op' = Idle /\ (op.release => op.h \in Headers)
    BY DEF OpReturn, ControlTypeOK, Headers
  <1>3. /\ engineHeld' \subseteq NoModeHeaders /\ abandoned' \subseteq Headers
        /\ ws' \in [Headers -> WriteStates]
    BY <1>2, ForgetType DEF OpReturn, ControlTypeOK
  <1> QED BY <1>1, <1>2, <1>3
          DEF OpReturn, ControlTypeOK, HandBackTypeOK, sysfsVars, ledgerVars

LEMMA HandBackHeaderType ==
    ASSUME ControlTypeOK, NEW by \in Callers, NEW h \in Headers, HandBackHeader(by, h),
           UNCHANGED <<lease, stopping, disk>>
    PROVE  ControlTypeOK'
  <1>1. HandBackTypeOK /\ ws \in [Headers -> WriteStates] /\ h \in ModeHeaders
    BY DEF HandBackHeader, ControlTypeOK, HandBackTypeOK
  <1>2. TakenAction(original, h) \in HandBacks
    BY <1>1, TakenActionType DEF HandBackTypeOK
  <1>3. PICK result \in hand_back(h, TakenAction(original, h)) :
          /\ PerformHandBack(h, result)
          /\ IF released(result)
             THEN /\ op' = [Idle EXCEPT !.step = "back", !.by = by, !.h = h]
                  /\ UNCHANGED ws
             ELSE /\ op' = [Idle EXCEPT !.step = "done", !.by = by, !.h = h]
                  /\ ws' = [ws EXCEPT ![h] = [NoState EXCEPT !.entry = ws[h].entry,
                         !.last = ws[h].last, !.mode = ws[h].mode, !.held = ws[h].held]]
    BY DEF HandBackHeader
  <1>4. result.enable \in Modes /\ result.duty \in Duty
    BY <1>1, <1>2, HandBackResultType
  <1>5. /\ enable' \in [Headers -> Modes] /\ duty' \in [Headers -> Duty]
        /\ driven' \subseteq Headers
    BY <1>1, <1>3, <1>4 DEF PerformHandBack, HandBackTypeOK
  <1>6. op' \in Calls /\ op'.h = h /\ ~op'.release /\ op'.step \in {"back", "done"}
    <2>1. \E st \in {"back", "done"} : op' = [Idle EXCEPT !.step = st, !.by = by, !.h = h]
      BY <1>3
    <2> QED BY <2>1, IdleType DEF Calls, Steps
  <1>7. ws' \in [Headers -> WriteStates]
    <2>1. [NoState EXCEPT !.entry = ws[h].entry, !.last = ws[h].last, !.mode = ws[h].mode,
                          !.held = ws[h].held] \in WriteStates
      BY <1>1, NoStateType DEF WriteStates
    <2> QED BY <1>1, <1>3, <2>1
  <1>8. record' \in [ModeHeaders -> HandBacks \cup {Unknown}] /\ recordStale' \in BOOLEAN
    BY <1>1, RetryType DEF HandBackHeader
  <1> QED BY <1>1, <1>5, <1>6, <1>7, <1>8 DEF HandBackHeader, ControlTypeOK, HandBackTypeOK

LEMMA ExitDutyType ==
    ASSUME NEW last
    PROVE  exit_duty(last, ExitFloor) \in Duty
  BY ControlAssumption DEF exit_duty, Duty

LEMMA FloorIsDuty == ExitFloor \in Duty /\ NoDuty \notin Duty
  BY ControlAssumption DEF Duty, NoDuty

LEMMA ExitDutyFloor == ASSUME NEW last PROVE exit_duty(last, ExitFloor) >= ExitFloor
  BY ControlAssumption DEF exit_duty, Duty

(* The latched minimum only raises a duty. *)
LEMMA EffectiveNoLess ==
    ASSUME exitMin \in [Headers -> Duty \cup {NoDuty}], NEW h \in Headers, NEW pct \in Duty
    PROVE  pct >= ExitFloor => effective_pct(h, pct) >= ExitFloor
  <1>1. ExitFloor \in Duty /\ exitMin[h] \in Duty \cup {NoDuty}
    BY FloorIsDuty
  <1> QED BY <1>1 DEF effective_pct, Duty, NoDuty

LEMMA ReleaseNoModeType ==
    ASSUME ControlTypeOK, NEW by \in Callers, NEW h \in NoModeHeaders, release_no_mode(by, h),
           UNCHANGED <<lease, stopping, disk>>
    PROVE  ControlTypeOK'
  <1>1. h \in Headers /\ ws \in [Headers -> WriteStates] /\ lease' \in Leases
    BY DEF Headers, ControlTypeOK
  <1>2. CASE ReleaseDuty(h) # NoDuty
    <2>1. ReleaseDuty(h) \in Duty
      BY <1>2, ExitDutyType DEF ReleaseDuty
    <2>2. set_pwm_from(ws, lease.owner, by, h, ReleaseDuty(h), TRUE)
      BY <1>2 DEF release_no_mode, set_pwm
    <2> QED BY <1>1, <2>1, <2>2, SetPwmType
  <1>3. CASE ReleaseDuty(h) = NoDuty
    <2>1. /\ Forget(h)
          /\ UNCHANGED <<sysfsVars, ledgerVars, driven, resumed, exitRecord, exitMin,
                         suspended, op>>
      BY <1>3 DEF release_no_mode
    <2>2. /\ engineHeld' \subseteq NoModeHeaders /\ abandoned' \subseteq Headers
          /\ ws' \in [Headers -> WriteStates]
      BY <1>1, <2>1, ForgetType
    <2> QED BY <2>1, <2>2 DEF ControlTypeOK, HandBackTypeOK, sysfsVars, ledgerVars
  <1> QED BY <1>2, <1>3

LEMMA LatchExitFloorType ==
    ASSUME ControlTypeOK, LatchExitFloor, "stop" \in Callers, UNCHANGED <<lease, stopping, disk>>
    PROVE  ControlTypeOK'
  <1>1. exitMin' \in [Headers -> Duty \cup {NoDuty}]
    <2>1. \A h \in Headers : exit_duty(exitRecord[h], ExitFloor) \in Duty
      BY ExitDutyType
    <2>2. exitMin \in [Headers -> Duty \cup {NoDuty}] /\ ExitFloor \in Duty
      BY ControlAssumption DEF ControlTypeOK
    <2> QED BY <2>1, <2>2 DEF LatchExitFloor
  <1>2. op' \in Calls /\ op'.step = "floor" /\ ~op'.release
    BY IdleType DEF LatchExitFloor, Calls, Steps
  <1> QED BY <1>1, <1>2
          DEF LatchExitFloor, ControlTypeOK, HandBackTypeOK, sysfsVars, ledgerVars

LEMMA RaiseToFloorType ==
    ASSUME ControlTypeOK, NEW h \in NoModeHeaders, RaiseToFloor(h),
           UNCHANGED <<lease, stopping, disk>>
    PROVE  ControlTypeOK'
  <1> DEFINE target == exit_duty(exitRecord[h], ExitFloor)
  <1>1. h \in Headers /\ target \in Duty /\ ws \in [Headers -> WriteStates]
    BY ExitDutyType DEF Headers, ControlTypeOK
  <1> HIDE DEF target
  <1>2. /\ UNCHANGED <<enable, alive, ledgerVars, resumed, exitMin, engineHeld, abandoned, op>>
        /\ op.step = "floor"
    BY DEF RaiseToFloor
  <1>3. CASE target = exitRecord[h]
    <2>1. UNCHANGED <<duty, driven, exitRecord, suspended, ws>>
      BY <1>3 DEF RaiseToFloor, target
    <2> QED BY <1>2, <2>1 DEF ControlTypeOK, HandBackTypeOK, ledgerVars
  <1>4. CASE target # exitRecord[h] /\ h \in alive
    <2>1. /\ WriteLands(h, target)
          /\ ws' = IF ~ws[h].entry THEN ws
                   ELSE [ws EXCEPT ![h].last = target, ![h].held = NoDuty]
      BY <1>4 DEF RaiseToFloor, target
    <2>2. ws' \in [Headers -> WriteStates]
      BY ZenonT(60), <1>1, <2>1 DEF WriteStates
    <2>3. /\ duty' \in [Headers -> Duty]
          /\ exitRecord' \in [Headers -> Duty \cup {NoDuty, NotWritten}]
          /\ suspended' \in BOOLEAN /\ driven' \subseteq Headers
      BY <1>1, <2>1, WriteLandsType
    <2> QED BY <1>2, <2>2, <2>3 DEF ControlTypeOK, HandBackTypeOK, ledgerVars
  <1>5. CASE target # exitRecord[h] /\ h \notin alive
    <2>1. /\ suspended' \in BOOLEAN
          /\ \E s : exitRecord' = [exitRecord EXCEPT ![h] = NoDuty, ![s] = NoDuty]
          /\ ws' = [ws EXCEPT ![h].mode = FALSE]
          /\ UNCHANGED <<duty, driven>>
      BY <1>5 DEF RaiseToFloor, target
    <2>2. ws' \in [Headers -> WriteStates] /\ suspended' \in BOOLEAN
      BY ZenonT(60), <1>1, <2>1 DEF WriteStates
    <2>3. exitRecord' \in [Headers -> Duty \cup {NoDuty, NotWritten}]
      BY <1>1, <2>1 DEF ControlTypeOK
    <2> QED BY <1>2, <2>1, <2>2, <2>3 DEF ControlTypeOK, HandBackTypeOK, ledgerVars
  <1> QED BY <1>3, <1>4, <1>5

----------------------------------------------------------------------------
(* What an action leaves alone keeps its type. *)

LEMMA ControlUnchanged ==
    ASSUME ControlTypeOK, lease' \in Leases, UNCHANGED <<handBackVars, controlVars>>
    PROVE  ControlTypeOK'
  BY DEF ControlTypeOK, HandBackTypeOK, handBackVars, sysfsVars, ledgerVars, controlVars

LEMMA ActorsUnchanged == ASSUME ActorTypeOK, UNCHANGED actorVars PROVE ActorTypeOK'
  BY DEF ActorTypeOK, actorVars

LEMMA StopUnchanged == ASSUME StopTypeOK, UNCHANGED stopVars PROVE StopTypeOK'
  BY DEF StopTypeOK, stopVars

LEMMA TakeLeaseType ==
    ASSUME NEW id \in LeaseIds, NEW owner \in Owners, TakeLease(id, owner)
    PROVE  lease' \in Leases /\ lease'.id = id
  BY DEF TakeLease, Leases

LEMMA ReleaseLeaseType ==
    ASSUME lease \in Leases, NEW id, release_lease(id) PROVE lease' \in Leases
  BY DEF release_lease, Leases, NoLease, Owners

LEMMA NoTaskType == NoTask \in Tasks /\ NoTask.todo = {}
  BY DEF NoTask, Tasks

LEMMA NoDiagType == NoDiag \in DiagStates /\ NoDiag.pc = "idle"
  BY DEF NoDiag, DiagStates, Duty

(* A task that keeps its type and the commands of what it still has to do. *)
LEMMA TaskChanges ==
    ASSUME ActorTypeOK, task' \in Tasks, \A h \in task'.todo : task'.pct[h] \in Duty,
           UNCHANGED <<members, forced, slot, diag>>
    PROVE  ActorTypeOK'
  BY DEF ActorTypeOK

LEMMA TickApplyType == ASSUME TypeOK, TickApply PROVE TypeOK'
  <1>1. ControlTypeOK /\ ActorTypeOK /\ StopTypeOK
    BY TypeGroups
  <1>2. PICK cmd \in [members -> Commands] :
         task' = [NoTask EXCEPT !.kind = "apply", !.step = "lease",
                   !.todo = {h \in members : cmd[h] # NoDuty},
                   !.gives = (~Free \/ Unheld(members) # {}), !.members = members,
                   !.pct = [h \in Headers |-> IF h \in {i \in members : cmd[i] # NoDuty}
                                              THEN cmd[h] ELSE NoDuty]]
    BY Zenon DEF TickApply
  <1> DEFINE gives == ~Free \/ Unheld(members) # {}
             named == {h \in members : cmd[h] # NoDuty}
             pct == [h \in Headers |-> IF h \in named THEN cmd[h] ELSE NoDuty]
  <1>3. \A h \in members : h \in Headers /\ cmd[h] \in Duty \cup {NoDuty}
    BY <1>1, WritesAssumption DEF ActorTypeOK
  <1>4. /\ pct \in [Headers -> Duty \cup {NoDuty}] /\ named \subseteq Headers
        /\ \A h \in named : pct[h] \in Duty
    BY <1>3
  <1>5. gives \in BOOLEAN /\ members \in SUBSET Headers
    BY <1>1 DEF ActorTypeOK
  <1> HIDE DEF gives, named, pct
  <1>6. task' = [NoTask EXCEPT !.kind = "apply", !.step = "lease", !.todo = named,
                               !.gives = gives, !.members = members, !.pct = pct]
    BY <1>2, Zenon DEF gives, named, pct
  <1>7. task' \in Tasks /\ task'.todo = named /\ task'.pct = pct
    BY <1>4, <1>5, <1>6, NoTaskType DEF Tasks
  <1>8. ActorTypeOK'
    BY <1>1, <1>4, <1>7, TaskChanges DEF TickApply
  <1>9. ControlTypeOK' /\ StopTypeOK'
    BY <1>1, ControlUnchanged, StopUnchanged DEF TickApply, ControlTypeOK
  <1> QED BY <1>8, <1>9, TypeGroups DEF TypeOK, ActorTypeOK, StopTypeOK

LEMMA TickForceType == ASSUME TypeOK, TickForce PROVE TypeOK'
  <1>1. ControlTypeOK /\ ActorTypeOK /\ StopTypeOK
    BY TypeGroups
  <1>2. PICK cmd \in [members -> Commands] : \E latched \in BOOLEAN :
         task' = [NoTask EXCEPT !.kind = "force", !.step = "lease",
                    !.todo = IF forced = 100 THEN Headers ELSE members,
                    !.gives = (forced < 100 /\ ~latched), !.members = members,
                    !.held = {h \in members : forced < 100 /\ cmd[h] = NoDuty},
                    !.pct = [h \in Headers |-> IF h \in members /\ cmd[h] > forced
                                               THEN cmd[h] ELSE forced]]
    BY ZenonT(60), Zenon DEF TickForce
  <1>3. PICK latched \in BOOLEAN :
         task' = [NoTask EXCEPT !.kind = "force", !.step = "lease",
                    !.todo = IF forced = 100 THEN Headers ELSE members,
                    !.gives = (forced < 100 /\ ~latched), !.members = members,
                    !.held = {h \in members : forced < 100 /\ cmd[h] = NoDuty},
                    !.pct = [h \in Headers |-> IF h \in members /\ cmd[h] > forced
                                               THEN cmd[h] ELSE forced]]
    BY <1>2
  <1> DEFINE todo == IF forced = 100 THEN Headers ELSE members
             gives == forced < 100 /\ ~latched
             held == {h \in members : forced < 100 /\ cmd[h] = NoDuty}
             pct == [h \in Headers |-> IF h \in members /\ cmd[h] > forced
                                       THEN cmd[h] ELSE forced]
  <1>4. \A h \in members : h \in Headers /\ cmd[h] \in Duty \cup {NoDuty}
    BY <1>1, WritesAssumption DEF ActorTypeOK
  <1>5. forced \in Duty
    BY <1>1, WritesAssumption DEF ActorTypeOK, Duty
  <1>6. pct \in [Headers -> Duty]
    BY <1>4, <1>5 DEF Duty, NoDuty
  <1>7. todo \subseteq Headers /\ held \subseteq Headers /\ members \subseteq Headers
    BY <1>4
  <1>8. gives \in BOOLEAN
    OBVIOUS
  <1> HIDE DEF gives, todo, pct, held
  <1>9. task' = [NoTask EXCEPT !.kind = "force", !.step = "lease", !.todo = todo,
                   !.gives = gives, !.members = members, !.held = held, !.pct = pct]
    BY <1>3, Zenon DEF gives, todo, pct, held
  <1>10. task' \in Tasks /\ task'.todo = todo /\ task'.pct = pct
    BY <1>6, <1>7, <1>8, <1>9, NoTaskType DEF Tasks
  <1>11. ActorTypeOK'
    BY <1>1, <1>6, <1>7, <1>10, TaskChanges DEF TickForce
  <1>12. ControlTypeOK' /\ StopTypeOK'
    BY <1>1, ControlUnchanged, StopUnchanged DEF TickForce, ControlTypeOK
  <1> QED BY <1>11, <1>12 DEF TypeOK, ActorTypeOK, StopTypeOK

LEMMA TaskLeaseType == ASSUME TypeOK, TaskLease PROVE TypeOK'
  <1>1. ControlTypeOK /\ ActorTypeOK /\ StopTypeOK /\ lease \in Leases /\ task \in Tasks
        /\ diag \in [Diags -> DiagStates]
    BY TypeGroups DEF ControlTypeOK, ActorTypeOK
  <1>2. FreshId \in LeaseIds
    BY <1>1, FreshIdType
  <1>3. lease' \in Leases
    BY <1>1, <1>2, TakeLeaseType DEF TaskLease, Owners
  <1>4. task' = NoTask \/ \E i \in LeaseIds \cup {NoId} :
                             task' = [task EXCEPT !.step = "write", !.id = i]
    BY <1>1, <1>2, <1>3 DEF TaskLease, Leases
  <1>5. task' \in Tasks /\ \A h \in task'.todo : task'.pct[h] \in Duty
    <2>1. \A h \in task.todo : task.pct[h] \in Duty
      BY <1>1 DEF ActorTypeOK
    <2> QED BY <1>1, <1>4, <2>1, NoTaskType DEF Tasks
  <1>6. ActorTypeOK'
    BY <1>1, <1>5, TaskChanges DEF TaskLease
  <1>7. ControlTypeOK' /\ StopTypeOK'
    BY <1>1, <1>3, ControlUnchanged, StopUnchanged DEF TaskLease
  <1> QED BY <1>6, <1>7 DEF TypeOK, ActorTypeOK, StopTypeOK

LEMMA TaskForceLeaseType == ASSUME TypeOK, TaskForceLease PROVE TypeOK'
  <1>1. ControlTypeOK /\ ActorTypeOK /\ StopTypeOK /\ lease \in Leases /\ task \in Tasks
        /\ diag \in [Diags -> DiagStates] /\ ws \in [Headers -> WriteStates]
        /\ \A h \in task.todo : task.pct[h] \in Duty
    BY TypeGroups DEF ControlTypeOK, ActorTypeOK
  <1>2. UNCHANGED <<handBackVars, resumed, exitRecord, exitMin, engineHeld, abandoned,
                    suspended, op, members, forced, slot, diag, stopVars>>
    BY DEF TaskForceLease
  <1>3. CASE task' = NoTask /\ UNCHANGED <<lease, ws>>
    <2>1. ActorTypeOK'
      BY <1>1, <1>2, <1>3, NoTaskType, TaskChanges
    <2>2. ControlTypeOK' /\ StopTypeOK'
      BY <1>1, <1>2, <1>3, ControlUnchanged, StopUnchanged DEF controlVars
    <2> QED BY <2>1, <2>2 DEF TypeOK, ActorTypeOK, StopTypeOK
  <1>4. CASE ~(task' = NoTask /\ UNCHANGED <<lease, ws>>)
    <2> DEFINE pct == [h \in Headers |-> IF h \in task.held /\ ws[h].last > task.pct[h]
                                         THEN ws[h].last ELSE task.pct[h]]
    <2>1. /\ TakeLease(FreshId, "thermal") /\ ws' = ModesForgotten(ws)
          /\ task' = [task EXCEPT !.step = "write", !.id = lease'.id, !.held = {}, !.pct = pct]
      BY <1>4, Zenon DEF TaskForceLease
    <2>2. FreshId \in LeaseIds
      BY <1>1, FreshIdType
    <2>3. lease' \in Leases /\ lease'.id \in LeaseIds
      BY <2>1, <2>2, TakeLeaseType DEF Owners
    <2>4. /\ \A h \in Headers : /\ ws[h].last \in Duty \cup {NoDuty}
                                /\ task.pct[h] \in Duty \cup {NoDuty}
          /\ task.todo \subseteq Headers
      BY <1>1 DEF WriteStates, Tasks
    <2>5. pct \in [Headers -> Duty \cup {NoDuty}] /\ \A h \in task.todo : pct[h] \in Duty
      BY <1>1, <2>4 DEF Duty, NoDuty
    <2> HIDE DEF pct
    <2>6. task' \in Tasks /\ task'.todo = task.todo /\ task'.pct = pct
      BY <1>1, <2>1, <2>3, <2>5 DEF Tasks
    <2>7. ActorTypeOK'
      BY <1>1, <1>2, <2>5, <2>6, TaskChanges
    <2>8. ws' \in [Headers -> WriteStates]
      BY <1>1, <2>1, ModesForgottenType
    <2>9. ControlTypeOK' /\ StopTypeOK'
      BY <1>1, <1>2, <2>3, <2>8, StopUnchanged
         DEF ControlTypeOK, HandBackTypeOK, handBackVars, sysfsVars, ledgerVars
    <2> QED BY <2>7, <2>9 DEF TypeOK, ActorTypeOK, StopTypeOK
  <1> QED BY <1>3, <1>4

LEMMA TaskWriteType == ASSUME TypeOK, TaskWrite PROVE TypeOK'
  <1>1. ControlTypeOK /\ ActorTypeOK /\ StopTypeOK /\ lease \in Leases /\ task \in Tasks
        /\ diag \in [Diags -> DiagStates] /\ ws \in [Headers -> WriteStates]
        /\ \A h \in task.todo : task.pct[h] \in Duty
    BY TypeGroups DEF ControlTypeOK, ActorTypeOK
  <1>2. PICK h \in task.todo :
         \/ /\ set_pwm("engine", h, task.pct[h], FALSE)
            /\ task' = [task EXCEPT !.todo = @ \ {h}]
            /\ UNCHANGED lease
         \/ /\ task' = [task EXCEPT !.todo = @ \ {h}]
            /\ UNCHANGED <<sysfsVars, ledgerVars, driven, controlVars, lease>>
         \/ /\ TakeLease(FreshId, "thermal")
            /\ set_pwm_from(ModesForgotten(ws), "thermal", "engine", h, task.pct[h], FALSE)
            /\ task' = [task EXCEPT !.todo = @ \ {h}, !.id = lease'.id]
    BY DEF TaskWrite
  <1>3. h \in Headers /\ task.pct[h] \in Duty /\ "engine" \in Callers
    BY <1>1, WritesAssumption DEF Tasks
  <1>4. UNCHANGED <<stopping, disk, members, forced, slot, diag, stopVars>>
    BY DEF TaskWrite
  <1>5. CASE set_pwm("engine", h, task.pct[h], FALSE) /\ UNCHANGED lease
             /\ task' = [task EXCEPT !.todo = @ \ {h}]
    <2>1. ControlTypeOK'
      BY <1>1, <1>3, <1>4, <1>5, SetPwmType DEF set_pwm
    <2>2. task' \in Tasks /\ \A i \in task'.todo : task'.pct[i] \in Duty
      BY <1>1, <1>5 DEF Tasks
    <2> QED BY <1>1, <1>4, <2>1, <2>2, TaskChanges, StopUnchanged
            DEF TypeOK, ActorTypeOK, StopTypeOK
  <1>6. CASE /\ task' = [task EXCEPT !.todo = @ \ {h}]
             /\ UNCHANGED <<sysfsVars, ledgerVars, driven, controlVars, lease>>
    <2>1. ControlTypeOK'
      BY <1>1, <1>4, <1>6, ControlUnchanged DEF handBackVars
    <2>2. task' \in Tasks /\ \A i \in task'.todo : task'.pct[i] \in Duty
      BY <1>1, <1>6 DEF Tasks
    <2> QED BY <1>1, <1>4, <2>1, <2>2, TaskChanges, StopUnchanged
            DEF TypeOK, ActorTypeOK, StopTypeOK
  <1>7. CASE /\ TakeLease(FreshId, "thermal")
             /\ set_pwm_from(ModesForgotten(ws), "thermal", "engine", h, task.pct[h], FALSE)
             /\ task' = [task EXCEPT !.todo = @ \ {h}, !.id = lease'.id]
    <2>1. lease' \in Leases /\ lease'.id \in LeaseIds
      BY <1>1, <1>7, FreshIdType, TakeLeaseType DEF Owners
    <2>2. ModesForgotten(ws) \in [Headers -> WriteStates]
      BY <1>1, ModesForgottenType
    <2>3. ControlTypeOK'
      BY <1>1, <1>3, <1>4, <1>7, <2>1, <2>2, SetPwmType
    <2>4. task' \in Tasks /\ \A i \in task'.todo : task'.pct[i] \in Duty
      BY <1>1, <1>7, <2>1 DEF Tasks
    <2> QED BY <1>1, <1>4, <2>3, <2>4, TaskChanges, StopUnchanged
            DEF TypeOK, ActorTypeOK, StopTypeOK
  <1> QED BY <1>2, <1>5, <1>6, <1>7

LEMMA TaskListUnheldType == ASSUME TypeOK, TaskListUnheld PROVE TypeOK'
  <1>1. ControlTypeOK /\ ActorTypeOK /\ StopTypeOK /\ lease \in Leases /\ task \in Tasks
        /\ \A h \in task.todo : task.pct[h] \in Duty
    BY TypeGroups DEF ControlTypeOK, ActorTypeOK
  <1>2. Unheld(task.members) \subseteq Headers
    BY <1>1 DEF Unheld, ControlTypeOK, HandBackTypeOK, Headers
  <1>3. task' \in Tasks /\ \A i \in task'.todo : task'.pct[i] \in Duty
    BY <1>1, <1>2 DEF TaskListUnheld, Tasks
  <1> QED BY <1>1, <1>3, TaskChanges, ControlUnchanged, StopUnchanged
          DEF TaskListUnheld, TypeOK, ActorTypeOK, StopTypeOK

LEMMA TaskGiveBackType == ASSUME TypeOK, TaskGiveBack PROVE TypeOK'
  <1>1. ControlTypeOK /\ ActorTypeOK /\ StopTypeOK /\ lease \in Leases /\ task \in Tasks
        /\ \A h \in task.todo : task.pct[h] \in Duty
    BY TypeGroups DEF ControlTypeOK, ActorTypeOK
  <1>2. PICK h \in task.back :
         /\ task' = [task EXCEPT !.back = @ \ {h}]
         /\ \/ UNCHANGED <<sysfsVars, ledgerVars, driven, controlVars>>
            \/ h \in ModeHeaders /\ HandBackHeader("engine", h)
            \/ h \notin ModeHeaders /\ release_no_mode("engine", h)
    BY DEF TaskGiveBack
  <1>3. UNCHANGED <<lease, stopping, disk, members, forced, slot, diag, stopVars>>
    BY DEF TaskGiveBack
  <1>4. h \in Headers /\ "engine" \in Callers
    BY <1>1, WritesAssumption DEF Tasks
  <1>5. ControlTypeOK'
    <2>1. CASE UNCHANGED <<sysfsVars, ledgerVars, driven, controlVars>>
      BY <1>1, <1>3, <2>1, ControlUnchanged DEF handBackVars
    <2>2. CASE h \in ModeHeaders /\ HandBackHeader("engine", h)
      BY <1>1, <1>3, <1>4, <2>2, HandBackHeaderType
    <2>3. CASE h \notin ModeHeaders /\ release_no_mode("engine", h)
      <3>1. h \in NoModeHeaders
        BY <1>4, <2>3 DEF Headers
      <3> QED BY <1>1, <1>3, <1>4, <2>3, <3>1, ReleaseNoModeType
    <2> QED BY <1>2, <2>1, <2>2, <2>3
  <1>6. task' \in Tasks /\ \A i \in task'.todo : task'.pct[i] \in Duty
    BY <1>1, <1>2 DEF Tasks
  <1> QED BY <1>1, <1>3, <1>5, <1>6, TaskChanges, StopUnchanged
          DEF TypeOK, ActorTypeOK, StopTypeOK

LEMMA TaskEndType == ASSUME TypeOK, TaskEnd PROVE TypeOK'
  <1>1. ControlTypeOK /\ ActorTypeOK /\ StopTypeOK /\ lease \in Leases
    BY TypeGroups DEF ControlTypeOK
  <1>2. lease' \in Leases
    BY <1>1, ReleaseLeaseType DEF TaskEnd
  <1> QED BY <1>1, <1>2, NoTaskType, TaskChanges, ControlUnchanged, StopUnchanged
          DEF TaskEnd, TypeOK, ActorTypeOK, StopTypeOK

(* A diagnostic that goes on stays on a header. *)
LEMMA DiagChanges ==
    ASSUME ActorTypeOK, NEW d \in Diags, NEW v \in DiagStates,
           v.pc # "idle" => v.h \in Headers, diag' = [diag EXCEPT ![d] = v],
           slot' \in [owner : Diags \cup {"none"}, live : BOOLEAN],
           UNCHANGED <<members, forced, task>>
    PROVE  ActorTypeOK'
  BY DEF ActorTypeOK

LEMMA DiagStepType == ASSUME TypeOK, NEW d \in Diags, DiagStep(d) PROVE TypeOK'
  <1>1. ControlTypeOK /\ ActorTypeOK /\ StopTypeOK /\ lease \in Leases /\ task \in Tasks
        /\ diag \in [Diags -> DiagStates] /\ ws \in [Headers -> WriteStates]
        /\ slot \in [owner : Diags \cup {"none"}, live : BOOLEAN]
    BY TypeGroups DEF ControlTypeOK, ActorTypeOK
  <1> DEFINE v == diag[d]
  <1>2. v \in DiagStates /\ d \in Callers /\ (v.pc # "idle" => v.h \in Headers)
    BY <1>1, WritesAssumption DEF ActorTypeOK
  <1>3. NoDiag \in DiagStates /\ NoDiag.pc = "idle"
    BY NoDiagType
  <1>4. ASSUME NEW pct \in Duty, NEW next \in {"testing", "restoring"}, v.pc # "idle",
               DiagWrite(d, pct, next),
               UNCHANGED <<lease, stopping, disk, members, forced, task, slot, stopVars>>
        PROVE  TypeOK'
    <2>1. ControlTypeOK'
      <3>1. CASE validate_lease(diag[d].id)
        <4>1. set_pwm_from(ws, lease.owner, d, diag[d].h, pct, FALSE)
          BY <1>4, <3>1 DEF DiagWrite, set_pwm
        <4> QED BY <1>1, <1>2, <1>4, <4>1, SetPwmType
      <3>2. CASE ~validate_lease(diag[d].id)
        <4>1. UNCHANGED <<sysfsVars, ledgerVars, driven, controlVars>>
          BY <1>4, <3>2 DEF DiagWrite
        <4> QED BY <1>1, <1>4, <4>1, ControlUnchanged DEF handBackVars
      <3> QED BY <3>1, <3>2
    <2>2. \E pc \in {"testing", "restoring", "ending"} :
             diag' = [diag EXCEPT ![d] = [v EXCEPT !.pc = pc]]
      BY <1>4 DEF DiagWrite
    <2>3. ActorTypeOK'
      <3>1. PICK pc \in {"testing", "restoring", "ending"} :
               diag' = [diag EXCEPT ![d] = [v EXCEPT !.pc = pc]]
        BY <2>2
      <3>2. [v EXCEPT !.pc = pc] \in DiagStates /\ [v EXCEPT !.pc = pc].h = v.h
        BY <1>2 DEF DiagStates
      <3> QED BY <1>1, <1>2, <1>4, <3>1, <3>2, DiagChanges
    <2> QED BY <1>1, <1>4, <2>1, <2>3, StopUnchanged DEF TypeOK, ActorTypeOK, StopTypeOK
  <1>5. CASE DiagGate(d)
    <2>1. PICK h \in Headers :
             diag' = [diag EXCEPT ![d] = [NoDiag EXCEPT !.pc = "gated", !.h = h]]
      BY <1>5 DEF DiagGate
    <2> DEFINE n == [NoDiag EXCEPT !.pc = "gated", !.h = h]
    <2>2. n \in DiagStates /\ n.h \in Headers
      BY <1>3 DEF DiagStates
    <2>3. ActorTypeOK'
      BY <1>1, <1>5, <2>1, <2>2, DiagChanges DEF DiagGate
    <2> QED BY <1>1, <1>5, <2>3, ControlUnchanged, StopUnchanged
            DEF DiagGate, TypeOK, ActorTypeOK, StopTypeOK
  <1>6. CASE DiagBegin(d)
    <2>1. slot' \in [owner : Diags \cup {"none"}, live : BOOLEAN]
      <3>1. slot' = slot \/ slot' = [owner |-> d, live |-> TRUE]
        BY <1>6 DEF DiagBegin
      <3>2. [owner |-> d, live |-> TRUE] \in [owner : Diags \cup {"none"}, live : BOOLEAN]
        OBVIOUS
      <3> QED BY <1>1, <3>1, <3>2, Zenon
    <2>2. [v EXCEPT !.pc = "slot", !.left = {"slot"}] \in DiagStates
          /\ [v EXCEPT !.pc = "slot", !.left = {"slot"}].h = v.h
      BY <1>2 DEF DiagStates
    <2>3. \/ diag' = [diag EXCEPT ![d] = NoDiag]
          \/ diag' = [diag EXCEPT ![d] = [v EXCEPT !.pc = "slot", !.left = {"slot"}]]
      BY <1>1, <1>6 DEF DiagBegin
    <2>4. ActorTypeOK'
      BY <1>1, <1>2, <1>3, <1>6, <2>1, <2>2, <2>3, DiagChanges DEF DiagBegin
    <2> QED BY <1>1, <1>6, <2>4, ControlUnchanged, StopUnchanged
            DEF DiagBegin, TypeOK, ActorTypeOK, StopTypeOK
  <1>7. CASE DiagLease(d)
    <2>1. FreshId \in LeaseIds
      BY <1>1, FreshIdType
    <2>2. lease' \in Leases
      BY <1>1, <1>7, <2>1, TakeLeaseType DEF DiagLease, Owners
    <2>3. \/ diag' = [diag EXCEPT ![d] = [v EXCEPT !.pc = "leased", !.id = lease'.id,
                                                   !.left = {"slot", "lease"}]]
          \/ diag' = [diag EXCEPT ![d] = [v EXCEPT !.pc = "ending"]]
      BY <1>1, <1>7 DEF DiagLease
    <2>4. \E n \in DiagStates : n.h = v.h /\ diag' = [diag EXCEPT ![d] = n]
      BY <1>2, <2>2, <2>3 DEF DiagStates, Leases
    <2>5. ActorTypeOK'
      BY <1>1, <1>2, <1>7, <2>4, DiagChanges DEF DiagLease
    <2> QED BY <1>1, <1>7, <2>2, <2>5, ControlUnchanged, StopUnchanged
            DEF DiagLease, TypeOK, ActorTypeOK, StopTypeOK
  <1>8. CASE DiagRead(d)
    <2> DEFINE was == IF Readback(v.h) = NoDuty THEN 50 ELSE Readback(v.h)
    <2>1. was \in Duty
      BY <1>1, <1>2, <1>8
         DEF DiagRead, Readback, ControlTypeOK, HandBackTypeOK, Duty
    <2>2. diag' = [diag EXCEPT ![d] = [v EXCEPT !.pc = "read", !.was = was]]
      BY <1>1, <1>8 DEF DiagRead
    <2> HIDE DEF was
    <2>3. \E n \in DiagStates : n.h = v.h /\ diag' = [diag EXCEPT ![d] = n]
      BY <1>2, <2>1, <2>2 DEF DiagStates
    <2>4. ActorTypeOK'
      BY <1>1, <1>2, <1>8, <2>3, DiagChanges DEF DiagRead
    <2> QED BY <1>1, <1>8, <2>4, ControlUnchanged, StopUnchanged
            DEF DiagRead, TypeOK, ActorTypeOK, StopTypeOK
  <1>9. CASE DiagTest(d)
    <2>1. verify_test_duty(v.was) \in Duty
      BY DEF verify_test_duty, Duty
    <2> QED BY <1>4, <1>9, <2>1 DEF DiagTest
  <1>10. CASE DiagSettled(d)
    <2>1. slot' \in [owner : Diags \cup {"none"}, live : BOOLEAN]
      BY <1>1, <1>10 DEF DiagSettled
    <2>2. \E pc \in {"ending", "restore"} : diag' = [diag EXCEPT ![d] = [v EXCEPT !.pc = pc]]
      BY <1>1, <1>10 DEF DiagSettled
    <2>3. \E n \in DiagStates : n.h = v.h /\ diag' = [diag EXCEPT ![d] = n]
      BY <1>2, <2>2 DEF DiagStates
    <2>4. ActorTypeOK'
      BY <1>1, <1>2, <1>10, <2>1, <2>3, DiagChanges DEF DiagSettled
    <2> QED BY <1>1, <1>10, <2>4, ControlUnchanged, StopUnchanged
            DEF DiagSettled, TypeOK, ActorTypeOK, StopTypeOK
  <1>11. CASE DiagRestore(d)
    <2>1. v.was \in Duty
      BY <1>2 DEF DiagStates
    <2> QED BY <1>4, <1>11, <2>1 DEF DiagRestore
  <1>12. CASE DiagAbandon(d)
    <2>1. \E n \in DiagStates : n.h = v.h /\ diag' = [diag EXCEPT ![d] = n]
      BY <1>1, <1>2, <1>12 DEF DiagAbandon, DiagStates
    <2>2. ActorTypeOK'
      BY <1>1, <1>2, <1>12, <2>1, DiagChanges DEF DiagAbandon
    <2>3. ControlTypeOK'
      BY <1>1, <1>2, <1>12
         DEF DiagAbandon, ControlTypeOK, HandBackTypeOK, handBackVars, sysfsVars, ledgerVars
    <2> QED BY <1>1, <1>12, <2>2, <2>3, StopUnchanged
            DEF DiagAbandon, TypeOK, ActorTypeOK, StopTypeOK
  <1>13. CASE DiagDropLease(d)
    <2>1. lease' \in Leases
      BY <1>1, <1>13, ReleaseLeaseType DEF DiagDropLease
    <2>2. \E n \in DiagStates : n.h = v.h /\ diag' = [diag EXCEPT ![d] = n]
      <3> DEFINE n == [v EXCEPT !.left = @ \ {"lease"}, !.id = NoId]
      <3>1. diag' = [diag EXCEPT ![d] = n]
        BY <1>1, <1>13 DEF DiagDropLease
      <3>2. n \in DiagStates /\ n.h = v.h
        BY <1>2 DEF DiagStates
      <3> QED BY <3>1, <3>2
    <2>3. ActorTypeOK'
      BY <1>1, <1>2, <1>13, <2>2, DiagChanges DEF DiagDropLease
    <2> QED BY <1>1, <1>13, <2>1, <2>3, ControlUnchanged, StopUnchanged
            DEF DiagDropLease, TypeOK, ActorTypeOK, StopTypeOK
  <1>14. CASE DiagDropSlot(d)
    <2>1. slot' \in [owner : Diags \cup {"none"}, live : BOOLEAN]
      BY <1>1, <1>14 DEF DiagDropSlot, end_verify, FreeSlot
    <2>2. \E n \in DiagStates : n.h = v.h /\ diag' = [diag EXCEPT ![d] = n]
      <3> DEFINE n == [v EXCEPT !.left = @ \ {"slot"}]
      <3>1. diag' = [diag EXCEPT ![d] = n]
        BY <1>1, <1>14 DEF DiagDropSlot
      <3>2. n \in DiagStates /\ n.h = v.h
        BY <1>2 DEF DiagStates
      <3> QED BY <3>1, <3>2
    <2>3. ActorTypeOK'
      BY <1>1, <1>2, <1>14, <2>1, <2>2, DiagChanges DEF DiagDropSlot
    <2> QED BY <1>1, <1>14, <2>3, ControlUnchanged, StopUnchanged
            DEF DiagDropSlot, TypeOK, ActorTypeOK, StopTypeOK
  <1>15. CASE DiagDone(d)
    <2>1. ActorTypeOK'
      BY <1>1, <1>3, <1>15, DiagChanges DEF DiagDone
    <2> QED BY <1>1, <1>15, <2>1, ControlUnchanged, StopUnchanged
            DEF DiagDone, TypeOK, ActorTypeOK, StopTypeOK
  <1> QED BY <1>5, <1>6, <1>7, <1>8, <1>9, <1>10, <1>11, <1>12, <1>13, <1>14, <1>15
          DEF DiagStep

LEMMA ControlStepType == ASSUME TypeOK, CallerInv, ControlStep PROVE TypeOK'
  <1>1. ControlTypeOK /\ ActorTypeOK /\ StopTypeOK
        /\ diag \in [Diags -> DiagStates] /\ op \in Calls
    BY TypeGroups DEF ControlTypeOK, ActorTypeOK
  <1>2. UNCHANGED <<lease, stopping, disk, members, forced, task, slot, stopVars>>
    BY DEF ControlStep
  <1>3. ControlTypeOK'
    BY <1>1, <1>2, OpNoteType, OpTakeType, OpEnableType, OpCheckType, OpWriteType, OpBackType,
       OpReturnType DEF ControlStep
  <1>4. diag' = diag \/ \E d \in Diags : \E pc \in {"settle", "ending"} :
                           diag' = [diag EXCEPT ![d].pc = pc] /\ op.by = d /\ op.step = "done"
    BY DEF ControlStep, OpReturn
  <1>5. ActorTypeOK'
    <2>1. CASE diag' = diag
      BY <1>1, <1>2, <2>1, ActorsUnchanged DEF actorVars
    <2>2. ASSUME NEW d \in Diags, NEW pc \in {"settle", "ending"},
                 diag' = [diag EXCEPT ![d].pc = pc], op.by = d, op.step = "done"
          PROVE  ActorTypeOK'
      <3>1. diag' = [diag EXCEPT ![d] = [diag[d] EXCEPT !.pc = pc]]
        BY <1>1, <2>2
      <3>2. [diag[d] EXCEPT !.pc = pc] \in DiagStates /\ [diag[d] EXCEPT !.pc = pc].h = diag[d].h
        BY <1>1 DEF DiagStates
      <3>3. diag[d].h \in Headers
        BY <1>1, <2>2 DEF CallerInv, ActorTypeOK
      <3> QED BY <1>1, <1>2, <3>1, <3>2, <3>3, DiagChanges DEF ActorTypeOK
    <2> QED BY <1>4, <2>1, <2>2
  <1> QED BY <1>1, <1>2, <1>3, <1>5, StopUnchanged DEF TypeOK, ActorTypeOK, StopTypeOK

(* A hand-back outside the controller: the files, and who drives the header. *)
LEMMA PerformHandBackType ==
    ASSUME HandBackTypeOK, NEW h \in ModeHeaders, NEW action \in HandBacks,
           NEW result \in hand_back(h, action), PerformHandBack(h, result)
    PROVE  /\ enable' \in [Headers -> Modes] /\ duty' \in [Headers -> Duty]
           /\ driven' \subseteq Headers
  <1>1. h \in Headers
    BY DEF Headers
  <1>2. result.enable \in Modes /\ result.duty \in Duty
    BY <1>1, HandBackResultType
  <1> QED BY <1>1, <1>2 DEF PerformHandBack, HandBackTypeOK

LEMMA StopStepType == ASSUME TypeOK, StopStep PROVE TypeOK'
  <1>1. ControlTypeOK /\ ActorTypeOK /\ StopTypeOK /\ HandBackTypeOK /\ lease \in Leases
    BY TypeGroups DEF ControlTypeOK
  <1>2. CASE StopBegin \/ StopFloor \/ StopSnapshot \/ ExecStopPostDone
    <2>1. UNCHANGED <<lease, handBackVars, controlVars, actorVars>>
      BY <1>2 DEF StopBegin, StopFloor, StopSnapshot, ExecStopPostDone
    <2>2. StopTypeOK'
      BY <1>1, <1>2
         DEF StopBegin, StopFloor, StopSnapshot, ExecStopPostDone, StopTypeOK, HandBackTypeOK
    <2> QED BY <1>1, <2>1, <2>2, ControlUnchanged, ActorsUnchanged
            DEF TypeOK, ActorTypeOK, StopTypeOK
  <1>3. CASE FloorLatch
    <2>1. ControlTypeOK'
      BY <1>1, <1>3, LatchExitFloorType, WritesAssumption DEF FloorLatch
    <2>2. StopTypeOK'
      BY <1>1, <1>3 DEF FloorLatch, StopTypeOK
    <2> QED BY <1>1, <1>3, <2>1, <2>2, ActorsUnchanged
            DEF FloorLatch, TypeOK, ActorTypeOK, StopTypeOK
  <1>4. CASE FloorRaise
    <2>1. PICK h \in floorTodo : RaiseToFloor(h) /\ floorTodo' = floorTodo \ {h}
      BY <1>4 DEF FloorRaise
    <2>2. ControlTypeOK'
      BY <1>1, <1>4, <2>1, RaiseToFloorType DEF FloorRaise, StopTypeOK
    <2>3. StopTypeOK'
      BY <1>1, <1>4, <2>1 DEF FloorRaise, StopTypeOK
    <2> QED BY <1>1, <1>4, <2>2, <2>3, ActorsUnchanged
            DEF FloorRaise, TypeOK, ActorTypeOK, StopTypeOK
  <1>5. CASE FloorEnd
    <2>1. ControlTypeOK'
      BY <1>1, <1>5, IdleType
         DEF FloorEnd, FloorDone, ControlTypeOK, HandBackTypeOK, sysfsVars, ledgerVars
    <2> QED BY <1>1, <1>5, <2>1, ActorsUnchanged, StopUnchanged
            DEF FloorEnd, TypeOK, ActorTypeOK, StopTypeOK
  <1>6. CASE StopFlag
    <2>1. ControlTypeOK'
      BY <1>1, <1>6
         DEF StopFlag, ControlTypeOK, HandBackTypeOK, sysfsVars, ledgerVars, controlVars
    <2>2. StopTypeOK'
      BY <1>1, <1>6 DEF StopFlag, StopTypeOK
    <2> QED BY <1>1, <1>6, <2>1, <2>2, ActorsUnchanged
            DEF StopFlag, TypeOK, ActorTypeOK, StopTypeOK
  <1>7. CASE StopHandBack
    <2>1. PICK h \in stopTodo : \E result \in hand_back(h, TakenAction(original, h)) :
             PerformHandBack(h, result) /\ undone' = Undone(h, result)
             /\ stopTodo' = stopTodo \ {h}
      BY <1>7 DEF StopHandBack
    <2>2. PICK result \in hand_back(h, TakenAction(original, h)) :
             PerformHandBack(h, result) /\ undone' = Undone(h, result)
             /\ stopTodo' = stopTodo \ {h}
      BY <2>1
    <2>3. h \in ModeHeaders /\ TakenAction(original, h) \in HandBacks
      BY <1>1, TakenActionType DEF StopTypeOK, HandBackTypeOK
    <2>4. /\ enable' \in [Headers -> Modes] /\ duty' \in [Headers -> Duty]
          /\ driven' \subseteq Headers
      BY <1>1, <2>2, <2>3, PerformHandBackType
    <2>5. ControlTypeOK'
      BY <1>1, <1>7, <2>4
         DEF StopHandBack, ControlTypeOK, HandBackTypeOK, ledgerVars, controlVars
    <2>6. StopTypeOK'
      BY <1>1, <1>7, <2>2, <2>3 DEF StopHandBack, StopTypeOK, Undone
    <2> QED BY <1>1, <1>7, <2>5, <2>6, ActorsUnchanged
            DEF StopHandBack, TypeOK, ActorTypeOK, StopTypeOK
  <1>8. CASE Exit
    <2>1. ControlTypeOK'
      BY <1>1, <1>8, IdleType, NoStateType
         DEF Exit, ControlTypeOK, HandBackTypeOK, sysfsVars, ledgerVars, NoLease, Leases, Owners
    <2>2. ActorTypeOK'
      BY <1>1, <1>8, NoTaskType, NoDiagType DEF Exit, ActorTypeOK, FreeSlot
    <2>3. StopTypeOK'
      BY <1>1, <1>8 DEF Exit, StopTypeOK
    <2> QED BY <2>1, <2>2, <2>3 DEF TypeOK, ActorTypeOK, StopTypeOK
  <1>9. CASE ExecStopPost
    <2>1. PICK h \in ModeHeaders :
             /\ record[h] # Unknown
             /\ \E result \in hand_back(h, record[h]) :
                  PerformHandBack(h, result) /\ undone' = Undone(h, result)
             /\ record' = [record EXCEPT ![h] = Unknown]
      BY <1>9 DEF ExecStopPost
    <2>2. PICK result \in hand_back(h, record[h]) :
                  PerformHandBack(h, result) /\ undone' = Undone(h, result)
      BY <2>1
    <2>3. record[h] \in HandBacks
      BY <1>1, <2>1 DEF HandBackTypeOK
    <2>4. /\ enable' \in [Headers -> Modes] /\ duty' \in [Headers -> Duty]
          /\ driven' \subseteq Headers
      BY <1>1, <2>2, <2>3, PerformHandBackType
    <2>5. ControlTypeOK'
      BY <1>1, <1>9, <2>1, <2>4 DEF ExecStopPost, ControlTypeOK, HandBackTypeOK, controlVars
    <2>6. StopTypeOK'
      BY <1>1, <1>9, <2>2 DEF ExecStopPost, StopTypeOK, Undone
    <2> QED BY <1>1, <1>9, <2>5, <2>6, ActorsUnchanged
            DEF ExecStopPost, TypeOK, ActorTypeOK, StopTypeOK
  <1>10. CASE Start
    <2>1. ControlTypeOK'
      BY <1>1, <1>10 DEF Start, ControlTypeOK, HandBackTypeOK, sysfsVars, controlVars
    <2>2. StopTypeOK'
      BY <1>1, <1>10 DEF Start, StopTypeOK, HandBackTypeOK
    <2> QED BY <1>1, <1>10, <2>1, <2>2, ActorsUnchanged
            DEF Start, TypeOK, ActorTypeOK, StopTypeOK
  <1> QED BY <1>2, <1>3, <1>4, <1>5, <1>6, <1>7, <1>8, <1>9, <1>10 DEF StopStep

LEMMA EnvStepType == ASSUME TypeOK, EnvStep PROVE TypeOK'
  <1>1. ControlTypeOK /\ ActorTypeOK /\ StopTypeOK /\ HandBackTypeOK /\ lease \in Leases
    BY TypeGroups DEF ControlTypeOK
  <1>2. StopTypeOK'
    <2>1. budget' = budget - 1 /\ budget > 0 /\ Calm
      <3>1. \E e \in {"reclaim", "meddle", "chip", "resume", "expire", "deadman", "force",
                       "profile", "disk"} : Event(e) /\ Calm
        BY Zenon DEF EnvStep, Reclaim, Meddle, ChipAnswers, Resume, Expires, Deadman,
                     ForceChange, ProfileChange, DiskChange
      <3> QED BY <3>1 DEF Event
    <2> QED BY <1>1, <2>1, WritesAssumption DEF Calm, StopTypeOK
  <1>3. CASE Reclaim \/ Meddle \/ ChipAnswers \/ DiskChange
    <2>1. UNCHANGED <<lease, ledgerVars, stopping, driven, controlVars, actorVars>>
      BY <1>3 DEF Reclaim, Meddle, ChipAnswers, DiskChange
    <2>2. enable' \in [Headers -> Modes]
      BY <1>1, <1>3 DEF Reclaim, Meddle, ChipAnswers, DiskChange, HandBackTypeOK, Modes,
                        Headers, sysfsVars
    <2>3. duty' \in [Headers -> Duty]
      BY <1>1, <1>3, WritesAssumption
         DEF Reclaim, Meddle, ChipAnswers, DiskChange, HandBackTypeOK, sysfsVars
    <2>4. alive' \subseteq Headers
      BY <1>1, <1>3, ControlAssumption
         DEF Reclaim, Meddle, ChipAnswers, DiskChange, HandBackTypeOK, sysfsVars, Headers
    <2>5. disk' \in BOOLEAN
      BY <1>1, <1>3 DEF Reclaim, Meddle, ChipAnswers, DiskChange, HandBackTypeOK
    <2>6. ControlTypeOK'
      BY <1>1, <2>1, <2>2, <2>3, <2>4, <2>5
         DEF ControlTypeOK, HandBackTypeOK, ledgerVars, controlVars
    <2> QED BY <1>1, <1>2, <2>1, <2>6, ActorsUnchanged DEF TypeOK, ActorTypeOK, StopTypeOK
  <1>4. CASE Resume
    <2>1. duty' \in [Headers -> Duty]
      BY <1>1, <1>4 DEF Resume, HandBackTypeOK, Duty
    <2>2. enable' \in [Headers -> Modes]
      BY <1>1, <1>4 DEF Resume, HandBackTypeOK, Modes
    <2>3. ControlTypeOK'
      BY <1>1, <1>4, <2>1, <2>2 DEF Resume, ControlTypeOK, HandBackTypeOK, ledgerVars
    <2> QED BY <1>1, <1>2, <1>4, <2>3, ActorsUnchanged
            DEF Resume, TypeOK, ActorTypeOK, StopTypeOK
  <1>5. CASE Expires
    <2>1. lease' \in Leases
      BY <1>1, <1>5 DEF Expires, Expire, Leases
    <2> QED BY <1>1, <1>2, <1>5, <2>1, ControlUnchanged, ActorsUnchanged
            DEF Expires, TypeOK, ActorTypeOK, StopTypeOK
  <1>6. CASE Deadman
    <2>1. slot.owner \in Diags /\ slot' \in [owner : Diags \cup {"none"}, live : BOOLEAN]
      BY <1>1, <1>6 DEF Deadman, verify_active, ActorTypeOK
    <2>2. diag' \in [Diags -> DiagStates]
          /\ \A d \in Diags : diag'[d].pc = diag[d].pc /\ diag'[d].h = diag[d].h
      <3> DEFINE o == slot.owner
      <3>1. diag \in [Diags -> DiagStates] /\ diag' = [diag EXCEPT ![o].lapsed = TRUE]
        BY <1>1, <1>6 DEF Deadman, ActorTypeOK
      <3> HIDE DEF o
      <3>2. [diag[o] EXCEPT !.lapsed = TRUE] \in DiagStates
        <4>1. diag[o] \in DiagStates
          BY <2>1, <3>1 DEF o
        <4> QED BY <4>1 DEF DiagStates
      <3>3. diag' = [diag EXCEPT ![o] = [diag[o] EXCEPT !.lapsed = TRUE]]
        BY <3>1
      <3> QED BY <2>1, <3>1, <3>2, <3>3 DEF DiagStates, o
    <2>3. ActorTypeOK'
      BY <1>1, <1>6, <2>1, <2>2 DEF Deadman, ActorTypeOK
    <2> QED BY <1>1, <1>2, <1>6, <2>3, ControlUnchanged
            DEF Deadman, TypeOK, ActorTypeOK, StopTypeOK
  <1>7. CASE ForceChange \/ ProfileChange
    <2>1. UNCHANGED <<lease, handBackVars, controlVars, task, slot, diag>>
      BY <1>7 DEF ForceChange, ProfileChange
    <2>2. members' \subseteq Headers /\ forced' \in {0, SafePct, 100}
      BY <1>1, <1>7 DEF ForceChange, ProfileChange, ActorTypeOK
    <2>3. ActorTypeOK'
      BY <1>1, <2>1, <2>2 DEF ActorTypeOK
    <2> QED BY <1>1, <1>2, <2>1, <2>3, ControlUnchanged DEF TypeOK, ActorTypeOK, StopTypeOK
  <1> QED BY <1>3, <1>4, <1>5, <1>6, <1>7 DEF EnvStep

(* Only the diagnostic whose call it is waits for it. *)
LEMMA CallerStep == ASSUME TypeOK, CallerInv, Next PROVE CallerInv'
  <1>1. diag \in [Diags -> DiagStates] /\ op \in Calls
    BY DEF TypeOK, ControlTypeOK
  <1>2. Diags \cap {"engine", "stop", "none"} = {} /\ Idle.by = "none"
    BY WritesAssumption DEF Idle
  <1>3. ASSUME NEW states, NEW owner, NEW by, NEW h, NEW pct, NEW release,
               set_pwm_from(states, owner, by, h, pct, release)
        PROVE  op'.by = by
    BY ZenonT(60), <1>3 DEF set_pwm_from, Idle
  <1>4. ASSUME EngineStep PROVE CallerInv'
    <2>1. diag' = diag
      BY <1>4 DEF EngineStep, TickApply, TickIdle, TickForce, TaskLease, TaskForceLease,
                  TaskWrite, TaskListUnheld, TaskGiveBack, TaskEnd, vars, actorVars
    <2>2. CASE TaskWrite
      <3>1. op' = op \/ op'.by = "engine"
        BY <1>3, <2>2, Zenon DEF TaskWrite, set_pwm, controlVars
      <3> QED BY <1>2, <2>1, <3>1 DEF CallerInv
    <2>3. CASE TaskGiveBack
      <3>1. \/ op' = op
            \/ \E h : HandBackHeader("engine", h)
            \/ \E h : set_pwm_from(ws, lease.owner, "engine", h, ReleaseDuty(h), TRUE)
        BY <2>3 DEF TaskGiveBack, release_no_mode, set_pwm, controlVars
      <3>2. ASSUME NEW h, HandBackHeader("engine", h) PROVE op'.by = "engine"
        BY <3>2 DEF HandBackHeader, Idle
      <3>3. op' = op \/ op'.by = "engine"
        BY <1>3, <3>1, <3>2
      <3> QED BY <1>2, <2>1, <3>3 DEF CallerInv
    <2>4. CASE ~TaskWrite /\ ~TaskGiveBack
      <3>1. op' = op
        BY <1>4, <2>4 DEF EngineStep, TickApply, TickIdle, TickForce, TaskLease,
                TaskForceLease, TaskListUnheld, TaskEnd, vars, controlVars
      <3> QED BY <2>1, <3>1 DEF CallerInv
    <2> QED BY <2>2, <2>3, <2>4
  <1>5. ASSUME NEW d \in Diags, DiagStep(d) PROVE CallerInv'
    <2>1. /\ diag[d].pc \notin {"testing", "restoring"}
          /\ \A e \in Diags \ {d} : diag'[e] = diag[e]
      BY ZenonT(60), <1>1, <1>5 DEF DiagStep, DiagGate, DiagBegin, DiagLease, DiagRead, DiagTest,
             DiagSettled, DiagRestore, DiagAbandon, DiagDropLease, DiagDropSlot, DiagDone,
             DiagWrite
    <2>2. CASE op' = op
      BY <2>1, <2>2 DEF CallerInv
    <2>3. CASE op' # op
      <3>1. \E pct, next : next \in {"testing", "restoring"} /\ DiagWrite(d, pct, next)
        BY <1>5, <2>3 DEF DiagStep, DiagGate, DiagBegin, DiagLease, DiagRead, DiagTest,
             DiagSettled, DiagRestore, DiagAbandon, DiagDropLease, DiagDropSlot, DiagDone,
             controlVars
      <3>2. PICK pct, next : next \in {"testing", "restoring"} /\ DiagWrite(d, pct, next)
        BY <3>1
      <3>3. set_pwm_from(ws, lease.owner, d, diag[d].h, pct, FALSE)
              /\ diag' = [diag EXCEPT ![d].pc = next]
        BY <2>3, <3>2 DEF DiagWrite, set_pwm, controlVars
      <3>4. op'.by = d
        BY <1>3, <3>3
      <3>5. diag'[d].pc = next
        BY <1>1, <3>3 DEF DiagStates
      <3> QED BY <3>2, <3>4, <3>5 DEF CallerInv
    <2> QED BY <2>2, <2>3
  <1>6. ASSUME ControlStep PROVE CallerInv'
    <2>1. (op'.by = op.by /\ diag' = diag) \/ op' = Idle
      BY <1>1, <1>6 DEF ControlStep, OpNote, OpTake, OpEnable, OpCheck, OpWrite, OpBack,
                        OpReturn, Calls
    <2> QED BY <1>2, <2>1 DEF CallerInv
  <1>7. ASSUME StopStep PROVE CallerInv'
    <2>1. (op' = op /\ diag' = diag) \/ op' = Idle \/ op'.by = "stop"
      BY <1>7 DEF StopStep, StopBegin, StopFloor, FloorLatch, LatchExitFloor, FloorRaise,
             RaiseToFloor, FloorEnd, FloorDone, StopFlag, StopSnapshot, StopHandBack, Exit,
             ExecStopPost, ExecStopPostDone, Start, controlVars, actorVars, Idle
    <2> QED BY <1>2, <2>1 DEF CallerInv
  <1>8. ASSUME EnvStep PROVE CallerInv'
    <2>1. op' = op
      BY <1>8 DEF EnvStep, Reclaim, Meddle, ChipAnswers, Resume, Expires, Deadman, ForceChange,
             ProfileChange, DiskChange, controlVars
    <2>2. \A d \in Diags : diag'[d].pc = diag[d].pc
      <3>1. diag' = diag \/ diag' = [diag EXCEPT ![slot.owner].lapsed = TRUE]
        BY <1>8 DEF EnvStep, Reclaim, Meddle, ChipAnswers, Resume, Expires, Deadman,
               ForceChange, ProfileChange, DiskChange, actorVars
      <3> QED BY <1>1, <3>1 DEF DiagStates
    <2> QED BY <2>1, <2>2 DEF CallerInv
  <1> QED BY <1>4, <1>5, <1>6, <1>7, <1>8 DEF Next

TypeInv == TypeOK /\ CallerInv

LEMMA TypeInit == Init => TypeInv
  <1> SUFFICES ASSUME Init PROVE TypeInv
    OBVIOUS
  <1>1. ControlTypeOK
    <2>1. enable \in [Headers -> Modes] /\ duty \in [Headers -> Duty]
      BY WritesAssumption DEF Init, ControlInit, HandBackInit
    <2> QED BY <2>1, IdleType, NoStateType
            DEF Init, ControlInit, HandBackInit, LeaseInit, NoLease, Leases, Owners,
                ControlTypeOK, HandBackTypeOK
  <1>2. ActorTypeOK
    BY NoTaskType, NoDiagType DEF Init, ActorTypeOK, FreeSlot
  <1>3. StopTypeOK
    BY <1>1, WritesAssumption DEF Init, StopTypeOK, ControlTypeOK, HandBackTypeOK
  <1>4. CallerInv
    BY WritesAssumption DEF Init, ControlInit, Idle, CallerInv
  <1> QED BY <1>1, <1>2, <1>3, <1>4, TypeGroups DEF TypeInv

LEMMA TypeStep == TypeInv /\ [Next]_vars => TypeInv'
  <1> SUFFICES ASSUME TypeOK, CallerInv, [Next]_vars PROVE TypeOK' /\ CallerInv'
    BY DEF TypeInv
  <1>1. CASE UNCHANGED vars
    <2>1. CallerInv'
      BY <1>1 DEF vars, CallerInv, controlVars, actorVars
    <2>2. ControlTypeOK' /\ ActorTypeOK' /\ StopTypeOK'
      BY <1>1, TypeGroups, ControlUnchanged, ActorsUnchanged, StopUnchanged
         DEF vars, ControlTypeOK
    <2> QED BY <2>1, <2>2 DEF TypeOK, ActorTypeOK, StopTypeOK
  <1>2. CASE Next
    <2>1. CASE EngineStep
      <3>1. CASE TickIdle
        BY <1>1, <3>1 DEF TickIdle
      <3> QED BY <2>1, <3>1, TickApplyType, TickForceType, TaskLeaseType, TaskForceLeaseType,
                 TaskWriteType, TaskListUnheldType, TaskGiveBackType, TaskEndType,
                 CallerStep, <1>2 DEF EngineStep
    <2> QED BY <1>2, <2>1, CallerStep, DiagStepType, ControlStepType, StopStepType, EnvStepType
            DEF Next
  <1> QED BY <1>1, <1>2

(* Types: every lease, header, ledger entry, write state, task and         *)
(* diagnostic the actions build is one of the kind the code declares; a    *)
(* call in flight is on a header, and on one with a mode switch while it   *)
(* takes it or gives it back (HwmonPwmController, HwmonBackend).           *)
THEOREM HwmonTypeCorrect == Spec => []TypeOK
  <1>1. TypeInv => TypeOK
    BY DEF TypeInv
  <1> QED BY <1>1, TypeInit, TypeStep, PTL DEF Spec

----------------------------------------------------------------------------
(* What makes WriteAhead and GivenBackAtStop inductive.  A header counts   *)
(* as held from before its mode switch is written until after it has been  *)
(* given back: a write state in manual mode, or a call past note_take, is  *)
(* about a held header, and a call about to strike a header off the ledger *)
(* no longer drives it.                                                    *)
HeldInv ==
    /\ \A h \in ModeHeaders : ws[h].mode => h \in taken
    /\ op.step \in {"enable", "check", "write"} /\ op.h \in ModeHeaders => op.h \in taken
    /\ op.step = "back" => op.h \notin driven

(* After the end no call is left, and what ExecStopPost has not reached is *)
(* on the record.                                                          *)
EndedInv ==
    /\ ~Up => op = Idle /\ \A h \in ModeHeaders : ~ws[h].mode
    /\ phase = "exited" /\ ~recordStale =>
          \A h \in driven \cap ModeHeaders : record[h] # Unknown \/ h \in undone
    /\ phase = "down" => \A h \in ModeHeaders : record[h] = Unknown

LedgerInv == HeldInv /\ WriteAhead /\ EndedInv /\ GivenBackAtStop

LEMMA LedgerUnchanged ==
    ASSUME LedgerInv, UNCHANGED <<ws, op, driven, ledgerVars, phase, undone>>
    PROVE  LedgerInv'
  BY DEF LedgerInv, HeldInv, WriteAhead, EndedInv, GivenBackAtStop, Up, ledgerVars

(* While the daemon runs, the two conjuncts about its end say nothing. *)
LEMMA RunningLedger ==
    ASSUME Up', HeldInv', WriteAhead' PROVE LedgerInv'
  BY DEF LedgerInv, EndedInv, GivenBackAtStop, Up

(* Rewriting the record from the ledger as it stands. *)
LEMMA PersistLedger ==
    ASSUME WriteAhead, Up, Up', driven' \cap ModeHeaders \subseteq taken',
           \/ persist(original', taken')
           \/ UNCHANGED <<original, taken, record, recordStale>>
    PROVE  WriteAhead'
  BY DEF WriteAhead, persist, render_record, TakenAction

LEMMA RetryLedger ==
    ASSUME WriteAhead, Up, Up', retry_record_if_failed \/ UNCHANGED <<record, recordStale>>,
           UNCHANGED <<original, taken>>, driven' \subseteq driven
    PROVE  WriteAhead'
  BY DEF WriteAhead, retry_record_if_failed, persist, render_record, TakenAction

(* What set_pwm does up to its first write: no header gains manual mode,   *)
(* and a call that skips the take was in manual mode already.              *)
LEMMA SetPwmEffect ==
    ASSUME ControlTypeOK, NEW states \in [Headers -> WriteStates], NEW owner, NEW by,
           NEW h \in Headers, NEW pct \in Duty, NEW release,
           set_pwm_from(states, owner, by, h, pct, release)
    PROVE  /\ \A x \in Headers : ws'[x].mode => states[x].mode
           /\ op'.h = h /\ op'.step \in {"done", "note", "check"}
           /\ op'.step = "check" /\ h \in ModeHeaders => states[h].mode
           /\ UNCHANGED <<original, taken, driven>>
           /\ retry_record_if_failed \/ UNCHANGED <<record, recordStale>>
  <1> DEFINE reconciles  == owner # "verify"
             effective   == effective_pct(h, pct)
             noted       == IF resumed THEN ModesForgotten(states) ELSE states
             w           == [noted[h] EXCEPT !.entry = TRUE,
                                             !.mode = @ /\ ~enable_reclaimed(h, noted[h])]
             expected    == ExpectedDuty(w, effective)
             coalescible == reconciles /\ w.mode /\ w.last = effective
             fix         == coalescible /\ Rewrites(expected, Readback(h), w)
             call        == [Idle EXCEPT !.by = by, !.h = h, !.pct = effective,
                                         !.reconciles = reconciles, !.fix = fix,
                                         !.release = release]
  <1>1. effective \in Duty
    BY DEF effective_pct, ControlTypeOK, Duty, NoDuty
  <1>2. /\ noted \in [Headers -> WriteStates]
        /\ \A x \in Headers : noted[x].mode => states[x].mode
    BY ModesForgottenType
  <1>3. w \in WriteStates /\ (w.mode => states[h].mode)
    <2> DEFINE m == noted[h].mode /\ ~enable_reclaimed(h, noted[h])
    <2>1. m \in BOOLEAN /\ (m => noted[h].mode)
      OBVIOUS
    <2>2. noted[h] \in WriteStates /\ (noted[h].mode => states[h].mode)
      BY <1>2
    <2>3. w = [noted[h] EXCEPT !.entry = TRUE, !.mode = m]
      BY Zenon
    <2> HIDE DEF m, noted, w
    <2> QED BY <2>1, <2>2, <2>3 DEF WriteStates
  <1>4. expected \in Int /\ Readback(h) \in Int
    <2>1. Readback(h) \in Int
      BY DEF Readback, Duty, NoDuty, ControlTypeOK, HandBackTypeOK
    <2> HIDE DEF w, effective
    <2> QED BY <1>1, <1>3, <2>1 DEF ExpectedDuty, WriteStates, Duty, NoDuty
  <1>5. DriftAfter(expected, Readback(h), w).mode = w.mode
    <2>1. w \in WriteStates
      BY <1>3
    <2> HIDE DEF w, expected
    <2> QED BY <1>4, <2>1, DriftAfterType, Zenon
  <1>6. call.h = h /\ DOMAIN call = DOMAIN Idle
    <2> HIDE DEF effective, reconciles, fix
    <2> QED BY DEF Idle
  <1>7. UNCHANGED <<original, taken, driven>>
    BY DEF set_pwm_from
  <1>8. CASE refused(h)
    <2>1. /\ ws' = noted
          /\ op' = [call EXCEPT !.step = "done"]
          /\ UNCHANGED <<record, recordStale, engineHeld>>
      BY <1>8, Zenon DEF set_pwm_from
    <2>2. op'.h = h /\ op'.step = "done"
      <3> HIDE DEF call
      <3> QED BY <1>6, <2>1 DEF Idle
    <2> HIDE DEF noted, call
    <2> QED BY <1>2, <1>7, <2>1, <2>2
  <1>9. CASE ~refused(h)
    <2> DEFINE st == IF coalescible /\ ~fix THEN "done"
                     ELSE IF h \in ModeHeaders /\ ~w.mode THEN "note" ELSE "check"
               after == IF coalescible THEN DriftAfter(expected, Readback(h), w) ELSE w
    <2>1. /\ retry_record_if_failed
          /\ ws' = [noted EXCEPT ![h] = after]
          /\ op' = [call EXCEPT !.step = st, !.ok = (coalescible /\ ~fix)]
      BY <1>9, Zenon DEF set_pwm_from
    <2>2. after.mode => states[h].mode
      BY <1>3, <1>5
    <2>3. \A x \in Headers : ws'[x].mode => states[x].mode
      <3> HIDE DEF after, noted
      <3> QED BY <1>2, <2>1, <2>2
    <2>4. op'.h = h /\ op'.step = st
      <3> HIDE DEF call, st, coalescible, fix
      <3> QED BY <1>6, <2>1 DEF Idle
    <2>5. /\ st \in {"done", "note", "check"}
          /\ st = "check" /\ h \in ModeHeaders => w.mode
      BY Zenon
    <2> HIDE DEF st, after, noted, call, w
    <2> QED BY <1>3, <1>7, <2>1, <2>3, <2>4, <2>5
  <1> QED BY <1>8, <1>9

LEMMA SetPwmLedger ==
    ASSUME ControlTypeOK, HeldInv, WriteAhead, Up, Up',
           NEW states \in [Headers -> WriteStates],
           \A x \in ModeHeaders : states[x].mode => ws[x].mode,
           NEW owner, NEW by, NEW h \in Headers, NEW pct \in Duty, NEW release,
           set_pwm_from(states, owner, by, h, pct, release)
    PROVE  LedgerInv'
  <1>1. /\ \A x \in Headers : ws'[x].mode => states[x].mode
        /\ op'.h = h /\ op'.step \in {"done", "note", "check"}
        /\ op'.step = "check" /\ h \in ModeHeaders => states[h].mode
        /\ UNCHANGED <<original, taken, driven>>
        /\ retry_record_if_failed \/ UNCHANGED <<record, recordStale>>
    BY SetPwmEffect
  <1>2. WriteAhead'
    BY <1>1, RetryLedger
  <1>3. HeldInv'
    BY <1>1 DEF HeldInv, Headers
  <1> QED BY <1>2, <1>3, RunningLedger

LEMMA HandBackHeaderLedger ==
    ASSUME ControlTypeOK, HeldInv, WriteAhead, Up, Up', NEW by, NEW h, HandBackHeader(by, h)
    PROVE  LedgerInv'
  <1>1. PICK result \in hand_back(h, TakenAction(original, h)) :
          /\ driven' = IF released(result) THEN driven \ {h} ELSE driven
          /\ IF released(result)
             THEN /\ op' = [Idle EXCEPT !.step = "back", !.by = by, !.h = h]
                  /\ UNCHANGED ws
             ELSE /\ op' = [Idle EXCEPT !.step = "done", !.by = by, !.h = h]
                  /\ ws' = [ws EXCEPT ![h] = [NoState EXCEPT !.entry = ws[h].entry,
                         !.last = ws[h].last, !.mode = ws[h].mode, !.held = ws[h].held]]
    BY DEF HandBackHeader, PerformHandBack
  <1>2. /\ UNCHANGED <<original, taken>> /\ retry_record_if_failed
        /\ ws \in [Headers -> WriteStates]
    BY DEF HandBackHeader, ControlTypeOK
  <1>3. \A x \in ModeHeaders : ws'[x].mode => ws[x].mode
    <2>1. CASE UNCHANGED ws
      BY <2>1
    <2>2. CASE ws' = [ws EXCEPT ![h] = [NoState EXCEPT !.entry = ws[h].entry,
                         !.last = ws[h].last, !.mode = ws[h].mode, !.held = ws[h].held]]
      <3>1. [NoState EXCEPT !.entry = ws[h].entry, !.last = ws[h].last, !.mode = ws[h].mode,
                            !.held = ws[h].held].mode = ws[h].mode
        BY DEF NoState
      <3> QED BY <1>2, <2>2, <3>1 DEF Headers
    <2> QED BY <1>1, <2>1, <2>2
  <1>4. \/ op'.step = "back" /\ op'.h = h /\ driven' = driven \ {h}
        \/ op'.step = "done"
    <2>1. CASE released(result)
      BY <1>1, <2>1 DEF Idle
    <2>2. CASE ~released(result)
      BY <1>1, <2>2 DEF Idle
    <2> QED BY <2>1, <2>2
  <1>5. HeldInv'
    BY <1>2, <1>3, <1>4 DEF HeldInv
  <1>6. WriteAhead'
    BY <1>1, <1>2, RetryLedger
  <1> QED BY <1>5, <1>6, RunningLedger

LEMMA ForgetLedger ==
    ASSUME ControlTypeOK, NEW h \in Headers, Forget(h)
    PROVE  \A x \in Headers : ws'[x].mode => ws[x].mode
  BY DEF Forget, NoState, ControlTypeOK

LEMMA ReleaseNoModeLedger ==
    ASSUME ControlTypeOK, HeldInv, WriteAhead, Up, Up', NEW by, NEW h \in NoModeHeaders,
           release_no_mode(by, h)
    PROVE  LedgerInv'
  <1>1. h \in Headers /\ ws \in [Headers -> WriteStates]
    BY DEF Headers, ControlTypeOK
  <1>2. CASE ReleaseDuty(h) # NoDuty
    <2>1. ReleaseDuty(h) \in Duty
      BY <1>2, ExitDutyType DEF ReleaseDuty
    <2>2. set_pwm_from(ws, lease.owner, by, h, ReleaseDuty(h), TRUE)
      BY <1>2 DEF release_no_mode, set_pwm
    <2> QED BY <1>1, <2>1, <2>2, SetPwmLedger
  <1>3. CASE ReleaseDuty(h) = NoDuty
    <2>1. Forget(h) /\ UNCHANGED <<ledgerVars, driven, op>>
      BY <1>3 DEF release_no_mode
    <2>2. HeldInv'
      BY <1>1, <2>1, ForgetLedger DEF HeldInv, ledgerVars, Headers
    <2>3. WriteAhead'
      BY <2>1, RetryLedger DEF ledgerVars
    <2> QED BY <2>2, <2>3, RunningLedger
  <1> QED BY <1>2, <1>3

LEMMA ControlStepLedger == ASSUME TypeOK, LedgerInv, ControlStep PROVE LedgerInv'
  <1>1. /\ ControlTypeOK /\ HandBackTypeOK /\ HeldInv /\ WriteAhead /\ op \in Calls
        /\ ws \in [Headers -> WriteStates] /\ ModeHeaders \cap NoModeHeaders = {}
    BY HeaderAssumption DEF TypeOK, ControlTypeOK, LedgerInv
  <1>2. Up /\ Up' /\ UNCHANGED disk
    BY DEF ControlStep, Up, stopVars
  <1>3. CASE OpNote
    <2>1. op'.step \in {"done", "take"} /\ UNCHANGED <<ws, ledgerVars, driven>>
      BY <1>1, <1>3 DEF OpNote, Calls
    <2> QED BY <1>1, <1>2, <2>1, RetryLedger, RunningLedger DEF HeldInv, ledgerVars
  <1>4. CASE OpTake
    <2>1. /\ op'.step = "enable" /\ op'.h = op.h /\ UNCHANGED <<ws, driven>>
          /\ note_take(op.h, op.orig)
      BY <1>1, <1>4 DEF OpTake, Calls
    <2>2. /\ taken' = taken \cup {op.h}
          /\ persist(original', taken') \/ UNCHANGED <<original, taken, record, recordStale>>
      BY <2>1 DEF note_take
    <2>3. HeldInv'
      BY <1>1, <2>1, <2>2 DEF HeldInv
    <2>4. WriteAhead'
      <3>1. driven' \cap ModeHeaders \subseteq taken'
        BY <1>1, <1>2, <2>1, <2>2 DEF WriteAhead
      <3> QED BY <1>1, <1>2, <2>2, <3>1, PersistLedger
    <2> QED BY <1>2, <2>3, <2>4, RunningLedger
  <1>5. CASE OpEnable
    <2>1. /\ op'.step \in {"done", "check"} /\ op'.h = op.h /\ UNCHANGED <<ws, ledgerVars>>
          /\ op.h \in taken /\ driven' \subseteq driven \cup {op.h}
      BY <1>1, <1>5 DEF OpEnable, Calls, HeldInv, ControlTypeOK
    <2>2. HeldInv'
      BY <1>1, <2>1 DEF HeldInv, ledgerVars
    <2>3. WriteAhead'
      BY <1>1, <1>2, <2>1 DEF WriteAhead, ledgerVars
    <2> QED BY <1>2, <2>2, <2>3, RunningLedger
  <1>6. CASE OpCheck
    <2>1. /\ op'.step \in {"done", "write"} /\ op'.h = op.h /\ UNCHANGED <<ledgerVars, driven>>
          /\ op.step = "check"
      BY <1>1, <1>6 DEF OpCheck, Calls
    <2>2. \A x \in ModeHeaders : ws'[x].mode => ws[x].mode
      <3>1. op.h \in Headers
        BY <1>6 DEF OpCheck, TypeOK, ControlTypeOK
      <3>2. Uncounted(ws[op.h]).mode = ws[op.h].mode
        BY <1>1, <3>1, UncountedType
      <3> QED BY <1>1, <1>6, <3>1, <3>2 DEF OpCheck, Headers
    <2>3. HeldInv'
      BY <1>1, <2>1, <2>2 DEF HeldInv, ledgerVars
    <2>4. WriteAhead'
      BY <1>1, <1>2, <2>1, RetryLedger DEF ledgerVars
    <2> QED BY <1>2, <2>3, <2>4, RunningLedger
  <1>7. CASE OpWrite
    <2>1. /\ op'.step = "done" /\ op.step = "write" /\ UNCHANGED ledgerVars
          /\ op.h \in ModeHeaders => op.h \in taken
      <3>1. op' = [op EXCEPT !.step = "done", !.ok = TRUE] \/ op' = [op EXCEPT !.step = "done"]
        BY <1>7 DEF OpWrite
      <3> QED BY <1>1, <1>7, <3>1 DEF OpWrite, Calls, HeldInv
    <2>2. \A x \in Headers \ {op.h} : ws'[x] = ws[x]
      BY <1>1, <1>7 DEF OpWrite
    <2>3. driven' \subseteq driven \cup {op.h}
      BY <1>7 DEF OpWrite, WriteLands, WriteFails
    <2>4. HeldInv'
      BY <1>1, <2>1, <2>2 DEF HeldInv, ledgerVars, Headers
    <2>5. WriteAhead'
      BY <1>1, <1>2, <2>1, <2>3 DEF WriteAhead, ledgerVars
    <2> QED BY <1>2, <2>4, <2>5, RunningLedger
  <1>8. CASE OpBack
    <2>1. /\ op'.step = "done" /\ note_handed_back(op.h) /\ UNCHANGED driven
          /\ op.h \notin driven /\ op.h \in ModeHeaders
      BY <1>1, <1>8 DEF OpBack, Calls, HeldInv, ControlTypeOK
    <2>2. /\ taken' = taken \ {op.h} /\ UNCHANGED original
          /\ persist(original', taken') \/ UNCHANGED <<original, taken, record, recordStale>>
      BY <2>1 DEF note_handed_back, persist
    <2>3. \A x \in ModeHeaders : ws'[x].mode => ws[x].mode /\ x # op.h
      BY <1>1, <1>8 DEF OpBack, NoState, Headers
    <2>4. HeldInv'
      BY <1>1, <2>1, <2>2, <2>3 DEF HeldInv
    <2>5. WriteAhead'
      <3>1. driven' \cap ModeHeaders \subseteq taken'
        BY <1>1, <1>2, <2>1, <2>2 DEF WriteAhead
      <3> QED BY <1>1, <1>2, <2>2, <3>1, PersistLedger
    <2> QED BY <1>2, <2>4, <2>5, RunningLedger
  <1>9. CASE OpReturn
    <2>1. op'.step = "idle" /\ UNCHANGED <<ledgerVars, driven>>
      BY <1>9, IdleType DEF OpReturn
    <2>2. \A x \in ModeHeaders : ws'[x].mode => ws[x].mode
      <3>1. CASE UNCHANGED ws
        BY <3>1
      <3>2. CASE op.release /\ Forget(op.h)
        BY <1>1, <3>2, ForgetLedger DEF ControlTypeOK, Headers
      <3> QED BY <1>9, <3>1, <3>2 DEF OpReturn
    <2>3. HeldInv'
      BY <1>1, <2>1, <2>2 DEF HeldInv, ledgerVars
    <2> QED BY <1>1, <1>2, <2>1, <2>3, RetryLedger, RunningLedger DEF ledgerVars
  <1> QED BY <1>3, <1>4, <1>5, <1>6, <1>7, <1>8, <1>9 DEF ControlStep

LEMMA EngineStepLedger == ASSUME TypeOK, LedgerInv, EngineStep PROVE LedgerInv'
  <1>1. /\ ControlTypeOK /\ HeldInv /\ WriteAhead /\ ws \in [Headers -> WriteStates]
        /\ task \in Tasks /\ \A h \in task.todo : task.pct[h] \in Duty
    BY DEF TypeOK, ControlTypeOK, LedgerInv
  <1>2. ModesForgotten(ws) \in [Headers -> WriteStates]
        /\ \A x \in Headers : ~ModesForgotten(ws)[x].mode
    BY SMTT(30), ZenonT(30), <1>1, ModesForgottenType
  <1>3. CASE TickApply \/ TickIdle \/ TickForce \/ TaskLease \/ TaskListUnheld \/ TaskEnd
    BY <1>3, LedgerUnchanged
       DEF TickApply, TickIdle, TickForce, TaskLease, TaskListUnheld, TaskEnd, vars,
           handBackVars, ledgerVars, controlVars, stopVars
  <1>4. CASE TaskForceLease
    <2>1. /\ Up /\ Up' /\ UNCHANGED <<op, driven, ledgerVars>>
          /\ ws' = ws \/ ws' = ModesForgotten(ws)
      BY <1>4 DEF TaskForceLease, Up, handBackVars, stopVars
    <2>2. HeldInv'
      BY <1>1, <1>2, <2>1 DEF HeldInv, ledgerVars, Headers
    <2> QED BY <1>1, <2>1, <2>2, RetryLedger, RunningLedger DEF ledgerVars
  <1>5. CASE TaskWrite
    <2>1. /\ Up /\ Up'
          /\ \/ UNCHANGED <<ws, op, driven, ledgerVars, phase, undone>>
             \/ \E h \in task.todo : \E owner :
                   \/ set_pwm_from(ws, owner, "engine", h, task.pct[h], FALSE)
                   \/ set_pwm_from(ModesForgotten(ws), owner, "engine", h, task.pct[h], FALSE)
      BY <1>5 DEF TaskWrite, set_pwm, Up, stopVars, controlVars
    <2>2. CASE UNCHANGED <<ws, op, driven, ledgerVars, phase, undone>>
      BY <2>2, LedgerUnchanged
    <2>3. ASSUME NEW h \in task.todo, NEW owner,
                 \/ set_pwm_from(ws, owner, "engine", h, task.pct[h], FALSE)
                 \/ set_pwm_from(ModesForgotten(ws), owner, "engine", h, task.pct[h], FALSE)
          PROVE  LedgerInv'
      <3>1. h \in Headers /\ task.pct[h] \in Duty
        BY <1>1 DEF Tasks
      <3>2. \A x \in ModeHeaders : ModesForgotten(ws)[x].mode => ws[x].mode
        BY <1>2 DEF Headers
      <3> QED BY <1>1, <1>2, <2>1, <2>3, <3>1, <3>2, SetPwmLedger
    <2> QED BY <2>1, <2>2, <2>3
  <1>6. CASE TaskGiveBack
    <2>1. /\ Up /\ Up'
          /\ \E h \in task.back :
              \/ UNCHANGED <<ws, op, driven, ledgerVars, phase, undone>>
              \/ h \in ModeHeaders /\ HandBackHeader("engine", h)
              \/ h \notin ModeHeaders /\ release_no_mode("engine", h)
      BY <1>6 DEF TaskGiveBack, Up, stopVars, controlVars
    <2>2. PICK h \in task.back :
              \/ UNCHANGED <<ws, op, driven, ledgerVars, phase, undone>>
              \/ h \in ModeHeaders /\ HandBackHeader("engine", h)
              \/ h \notin ModeHeaders /\ release_no_mode("engine", h)
      BY <2>1
    <2>3. h \in Headers
      BY <1>1 DEF Tasks
    <2>4. CASE UNCHANGED <<ws, op, driven, ledgerVars, phase, undone>>
      BY <2>4, LedgerUnchanged
    <2>5. CASE HandBackHeader("engine", h)
      BY <1>1, <2>1, <2>5, HandBackHeaderLedger
    <2>6. CASE h \notin ModeHeaders /\ release_no_mode("engine", h)
      BY <1>1, <2>1, <2>3, <2>6, ReleaseNoModeLedger DEF Headers
    <2> QED BY <2>2, <2>4, <2>5, <2>6
  <1> QED BY <1>3, <1>4, <1>5, <1>6 DEF EngineStep

LEMMA DiagStepLedger ==
    ASSUME TypeOK, LedgerInv, NEW d \in Diags, DiagStep(d) PROVE LedgerInv'
  <1>1. /\ ControlTypeOK /\ HeldInv /\ WriteAhead /\ ws \in [Headers -> WriteStates]
        /\ diag \in [Diags -> DiagStates]
    BY DEF TypeOK, ControlTypeOK, LedgerInv
  <1>2. ASSUME NEW pct \in Duty, NEW next, DiagWrite(d, pct, next), diag[d].pc # "idle", Up,
               UNCHANGED <<stopVars>>
        PROVE  LedgerInv'
    <2>1. Up' /\ UNCHANGED <<phase, undone>>
      BY <1>2 DEF Up, stopVars
    <2>2. CASE validate_lease(diag[d].id)
      <3>1. set_pwm_from(ws, lease.owner, d, diag[d].h, pct, FALSE)
        BY <1>2, <2>2 DEF DiagWrite, set_pwm
      <3>2. diag[d].h \in Headers
        BY <1>2 DEF TypeOK
      <3> QED BY <1>1, <1>2, <2>1, <3>1, <3>2, SetPwmLedger
    <2>3. CASE ~validate_lease(diag[d].id)
      <3>1. UNCHANGED <<ledgerVars, driven, controlVars>>
        BY <1>2, <2>3 DEF DiagWrite
      <3> QED BY <2>1, <3>1, LedgerUnchanged DEF controlVars
    <2> QED BY <2>2, <2>3
  <1>3. CASE DiagTest(d)
    <2>1. verify_test_duty(diag[d].was) \in Duty
      BY DEF verify_test_duty, Duty
    <2> QED BY <1>2, <1>3, <2>1 DEF DiagTest
  <1>4. CASE DiagRestore(d)
    <2>1. diag[d].was \in Duty
      BY <1>1 DEF DiagStates
    <2> QED BY <1>2, <1>4, <2>1 DEF DiagRestore
  <1>5. CASE ~DiagTest(d) /\ ~DiagRestore(d)
    <2>1. UNCHANGED <<ws, op, driven, ledgerVars, phase, undone>>
      BY <1>5 DEF DiagStep, DiagGate, DiagBegin, DiagLease, DiagRead, DiagSettled,
             DiagAbandon, DiagDropLease, DiagDropSlot, DiagDone, handBackVars, ledgerVars,
             controlVars, stopVars
    <2> QED BY SMTT(30), ZenonT(30), <2>1, LedgerUnchanged
  <1> QED BY <1>3, <1>4, <1>5

LEMMA StopStepLedger == ASSUME TypeOK, LedgerInv, StopStep PROVE LedgerInv'
  <1>1. /\ ControlTypeOK /\ HandBackTypeOK /\ HeldInv /\ WriteAhead /\ EndedInv
        /\ GivenBackAtStop /\ ws \in [Headers -> WriteStates]
        /\ floorTodo \subseteq NoModeHeaders /\ ModeHeaders \cap NoModeHeaders = {}
    BY HeaderAssumption DEF TypeOK, ControlTypeOK, LedgerInv
  <1>2. CASE StopBegin \/ StopFloor \/ StopFlag \/ StopSnapshot
    <2>1. Up /\ Up' /\ UNCHANGED <<ws, op, driven, ledgerVars>>
      BY <1>2 DEF StopBegin, StopFloor, StopFlag, StopSnapshot, Up, handBackVars, ledgerVars,
             controlVars
    <2>2. HeldInv'
      BY <1>1, <2>1 DEF HeldInv, ledgerVars
    <2> QED BY <1>1, <2>1, <2>2, RetryLedger, RunningLedger DEF ledgerVars
  <1>3. CASE FloorLatch \/ FloorEnd
    <2>1. /\ Up /\ Up' /\ UNCHANGED <<ws, driven, ledgerVars>>
          /\ op'.step \in {"floor", "idle"}
      BY <1>3, IdleType
         DEF FloorLatch, LatchExitFloor, FloorEnd, FloorDone, Up, stopVars, Calls
    <2>2. HeldInv'
      BY <1>1, <2>1 DEF HeldInv, ledgerVars
    <2> QED BY <1>1, <2>1, <2>2, RetryLedger, RunningLedger DEF ledgerVars
  <1>4. CASE FloorRaise
    <2>1. PICK h \in floorTodo : RaiseToFloor(h)
      BY <1>4 DEF FloorRaise
    <2>2. Up /\ Up' /\ h \in Headers /\ h \notin ModeHeaders
      BY <1>1, <1>4 DEF FloorRaise, Up, Headers
    <2>3. /\ UNCHANGED <<op, ledgerVars>> /\ op.step = "floor"
          /\ driven' \subseteq driven \cup {h}
          /\ \A x \in ModeHeaders : ws'[x] = ws[x]
      BY <1>1, <2>1, <2>2 DEF RaiseToFloor, WriteLands, Headers
    <2>4. HeldInv'
      BY <1>1, <2>3 DEF HeldInv, ledgerVars
    <2>5. WriteAhead'
      BY <1>1, <2>2, <2>3 DEF WriteAhead, ledgerVars
    <2> QED BY <2>2, <2>4, <2>5, RunningLedger
  <1>5. CASE StopHandBack
    <2>1. /\ Up /\ Up' /\ UNCHANGED <<ws, op, ledgerVars>> /\ driven' \subseteq driven
      BY <1>5 DEF StopHandBack, PerformHandBack, Up, controlVars
    <2>2. HeldInv'
      BY <1>1, <2>1 DEF HeldInv, ledgerVars
    <2> QED BY <1>1, <2>1, <2>2, RetryLedger, RunningLedger DEF ledgerVars
  <1>6. CASE Exit
    <2>1. /\ Up /\ phase' = "exited" /\ op' = Idle /\ UNCHANGED <<ledgerVars, driven, undone>>
          /\ \A x \in ModeHeaders : ~ws'[x].mode
      BY <1>6 DEF Exit, Up, NoState, Headers
    <2>2. HeldInv'
      BY <2>1, IdleType DEF HeldInv
    <2>3. ASSUME ~recordStale, NEW h \in driven \cap ModeHeaders PROVE record[h] # Unknown
      <3>1. h \in taken /\ record = render_record(original, taken)
        BY <1>1, <2>1, <2>3 DEF WriteAhead
      <3>2. TakenAction(original, h) # Unknown
        BY <1>1, TakenActionType DEF HandBackTypeOK
      <3> QED BY <3>1, <3>2 DEF render_record
    <2>4. EndedInv'
      BY <2>1, <2>3 DEF EndedInv, Up, ledgerVars
    <2> QED BY <2>1, <2>2, <2>4 DEF LedgerInv, WriteAhead, GivenBackAtStop, Up
  <1>7. CASE ExecStopPost
    <2>1. PICK h \in ModeHeaders :
             /\ \E result : /\ driven' = IF released(result) THEN driven \ {h} ELSE driven
                            /\ undone' = Undone(h, result)
             /\ record' = [record EXCEPT ![h] = Unknown]
      BY <1>7 DEF ExecStopPost, PerformHandBack
    <2>2. /\ phase = "exited" /\ UNCHANGED <<op, ws, taken, recordStale, phase>>
      BY <1>7 DEF ExecStopPost, controlVars
    <2>3. /\ driven' \subseteq driven /\ undone \ {h} \subseteq undone'
          /\ h \in driven' => h \in undone'
      BY <2>1 DEF Undone
    <2>4. op = Idle /\ HeldInv'
      BY <1>1, <2>2, IdleType DEF HeldInv, EndedInv, Up
    <2>5. EndedInv'
      <3>1. ASSUME ~recordStale, NEW x \in driven' \cap ModeHeaders
            PROVE  record'[x] # Unknown \/ x \in undone'
        <4>1. CASE x = h
          BY <2>3, <3>1, <4>1
        <4>2. CASE x # h
          <5>1. record[x] # Unknown \/ x \in undone
            BY <1>1, <2>2, <2>3, <3>1 DEF EndedInv
          <5> QED BY <1>1, <2>1, <2>3, <4>2, <5>1 DEF HandBackTypeOK
        <4> QED BY <4>1, <4>2
      <3> QED BY <1>1, <2>2, <3>1 DEF EndedInv, Up
    <2> QED BY <2>2, <2>4, <2>5 DEF LedgerInv, WriteAhead, GivenBackAtStop, Up
  <1>8. CASE ExecStopPostDone
    <2>1. /\ phase \in {"exited", "down"} /\ phase' = "down"
          /\ UNCHANGED <<ws, op, driven, ledgerVars, undone>>
          /\ \A h \in ModeHeaders : record[h] = Unknown
      BY <1>8 DEF ExecStopPostDone, handBackVars, ledgerVars, controlVars
    <2>2. HeldInv' /\ EndedInv' /\ GivenBackAtStop'
      BY <1>1, <2>1 DEF HeldInv, EndedInv, GivenBackAtStop, Up, ledgerVars
    <2> QED BY <2>1, <2>2 DEF LedgerInv, WriteAhead, Up
  <1>9. CASE Start
    <2>1. /\ phase = "down" /\ phase' = "running" /\ UNCHANGED <<ws, op, record>>
          /\ taken' = {} /\ driven' = {}
      BY <1>9 DEF Start, controlVars
    <2>2. op = Idle /\ \A h \in ModeHeaders : ~ws[h].mode /\ record[h] = Unknown
      BY <1>1, <2>1 DEF EndedInv, Up
    <2>3. HeldInv'
      BY <2>1, <2>2, IdleType DEF HeldInv
    <2>4. WriteAhead'
      <3>1. record = [h \in ModeHeaders |-> Unknown]
        BY <1>1, <2>2 DEF HandBackTypeOK
      <3> QED BY <2>1, <3>1 DEF WriteAhead, render_record
    <2>5. Up'
      BY <2>1 DEF Up
    <2> QED BY <2>3, <2>4, <2>5, RunningLedger
  <1> QED BY <1>2, <1>3, <1>4, <1>5, <1>6, <1>7, <1>8, <1>9 DEF StopStep

LEMMA EnvStepLedger == ASSUME LedgerInv, EnvStep PROVE LedgerInv'
  <1>1. UNCHANGED <<ws, op, driven, ledgerVars, phase, undone>>
    BY DEF EnvStep, Calm, Reclaim, Meddle, ChipAnswers, Resume, Expires, Deadman, ForceChange,
           ProfileChange, DiskChange, handBackVars, ledgerVars, controlVars
  <1> QED BY <1>1, LedgerUnchanged

LEMMA LedgerInit == Init => LedgerInv
  <1> SUFFICES ASSUME Init PROVE LedgerInv
    OBVIOUS
  <1>1. HeldInv
    BY IdleType DEF Init, ControlInit, HeldInv, NoState, Headers
  <1>2. WriteAhead
    BY DEF Init, ControlInit, HandBackInit, WriteAhead, render_record
  <1> QED BY <1>1, <1>2 DEF Init, LedgerInv, EndedInv, GivenBackAtStop, Up

LEMMA LedgerStep == TypeOK /\ LedgerInv /\ [Next]_vars => LedgerInv'
  <1> SUFFICES ASSUME TypeOK, LedgerInv, [Next]_vars PROVE LedgerInv'
    OBVIOUS
  <1>1. CASE UNCHANGED vars
    BY <1>1, LedgerUnchanged DEF vars, handBackVars, controlVars, stopVars
  <1>2. CASE Next
    BY <1>2, EngineStepLedger, DiagStepLedger, ControlStepLedger, StopStepLedger, EnvStepLedger
       DEF Next
  <1> QED BY <1>1, <1>2

LEMMA LedgerAlways == Spec => []LedgerInv
  BY HwmonTypeCorrect, LedgerInit, LedgerStep, PTL DEF Spec

(* The ledger is written ahead of the hardware, for every interleaving of  *)
(* set_pwm with the lock-free shutdown hand-back: while the daemon runs,   *)
(* whatever header with a mode switch it drives is held by the ledger, and *)
(* the record says so unless its last write failed (note_take, persist).   *)
THEOREM LedgerWrittenAhead == Spec => []WriteAhead
  <1>1. LedgerInv => WriteAhead
    BY DEF LedgerInv
  <1> QED BY <1>1, LedgerAlways, PTL

(* However the process ends, clean stop, panic or kill, at any point of    *)
(* any call: once ExecStopPost has replayed an up-to-date record, no       *)
(* header with a mode switch is still driven, except where the last        *)
(* attempt to give it back failed (hand_back, control-ofc-restore-auto.sh).*)
THEOREM EverythingGivenBack == Spec => []GivenBackAtStop
  <1>1. LedgerInv => GivenBackAtStop
    BY DEF LedgerInv
  <1> QED BY <1>1, LedgerAlways, PTL

----------------------------------------------------------------------------
(* The call set_pwm leaves behind it. *)
LEMMA SetPwmCall ==
    ASSUME ControlTypeOK, NEW states, NEW owner, NEW by, NEW h \in Headers, NEW pct \in Duty,
           NEW release, set_pwm_from(states, owner, by, h, pct, release)
    PROVE  /\ op'.by = by /\ op'.h = h /\ op'.pct = effective_pct(h, pct)
           /\ op'.step \in {"done", "note", "check"}
           /\ op'.ok => op'.step = "done" /\ owner # "verify"
           /\ UNCHANGED <<sysfsVars, original, taken, driven, exitRecord, exitMin>>
           /\ retry_record_if_failed \/ UNCHANGED <<record, recordStale>>
  <1> DEFINE reconciles  == owner # "verify"
             effective   == effective_pct(h, pct)
             noted       == IF resumed THEN ModesForgotten(states) ELSE states
             w           == [noted[h] EXCEPT !.entry = TRUE,
                                             !.mode = @ /\ ~enable_reclaimed(h, noted[h])]
             expected    == ExpectedDuty(w, effective)
             coalescible == reconciles /\ w.mode /\ w.last = effective
             fix         == coalescible /\ Rewrites(expected, Readback(h), w)
             call        == [Idle EXCEPT !.by = by, !.h = h, !.pct = effective,
                                         !.reconciles = reconciles, !.fix = fix,
                                         !.release = release]
             st          == IF coalescible /\ ~fix THEN "done"
                            ELSE IF h \in ModeHeaders /\ ~w.mode THEN "note" ELSE "check"
             good        == coalescible /\ ~fix
  <1>1. UNCHANGED <<sysfsVars, original, taken, driven, exitRecord, exitMin>>
    BY DEF set_pwm_from
  <1>2. /\ st \in {"done", "note", "check"}
        /\ good => st = "done" /\ owner # "verify"
    BY Zenon
  <1>3. \/ /\ op' = [call EXCEPT !.step = "done"]
           /\ UNCHANGED <<record, recordStale>>
        \/ /\ op' = [call EXCEPT !.step = st, !.ok = good]
           /\ retry_record_if_failed
    BY Zenon DEF set_pwm_from
  <1>4. /\ call.by = by /\ call.h = h /\ call.pct = effective /\ ~call.ok
        /\ DOMAIN call = DOMAIN Idle
    <2> HIDE DEF effective, reconciles, fix
    <2> QED BY DEF Idle
  <1> HIDE DEF call, st, good
  <1>5. /\ op'.by = by /\ op'.h = h /\ op'.pct = effective
        /\ \/ op'.step = "done" /\ ~op'.ok
           \/ op'.step = st /\ op'.ok = good
    BY <1>3, <1>4 DEF Idle
  <1> QED BY <1>1, <1>2, <1>3, <1>5

(* What each step of a call leaves of it, whatever it does to the header.  *)
LEMMA OpMoves ==
    ASSUME ControlTypeOK, OpNote \/ OpTake \/ OpEnable \/ OpCheck \/ OpWrite \/ OpBack
    PROVE  /\ op'.by = op.by /\ op'.h = op.h /\ op'.pct = op.pct
           /\ OpNote => /\ op.step = "note" /\ op'.step \in {"take", "done"} /\ op'.ok = op.ok
                        /\ op'.step = "take" => op'.orig = from_reading(op.h) /\ ~refused(op.h)
           /\ OpTake => op.step = "take" /\ op'.step = "enable" /\ op'.ok = op.ok
           /\ OpEnable => op.step = "enable" /\ op'.step \in {"check", "done"} /\ op'.ok = op.ok
           /\ OpCheck => op.step = "check" /\ op'.step \in {"write", "done"} /\ op'.ok = op.ok
           /\ OpWrite => /\ op.step = "write" /\ op'.step = "done"
                         /\ op'.ok = op.ok \/ (op.h \in alive /\ WriteLands(op.h, op.pct))
           /\ OpBack => op.step = "back" /\ op'.step = "done"
  <1>1. op \in Calls
    BY DEF ControlTypeOK
  <1>2. CASE OpNote
    BY <1>1, <1>2 DEF OpNote, Calls, OpTake, OpEnable, OpCheck, OpWrite, OpBack
  <1>3. CASE OpTake
    BY <1>1, <1>3 DEF OpNote, Calls, OpTake, OpEnable, OpCheck, OpWrite, OpBack
  <1>4. CASE OpEnable
    BY <1>1, <1>4 DEF OpNote, Calls, OpTake, OpEnable, OpCheck, OpWrite, OpBack
  <1>5. CASE OpCheck
    BY <1>1, <1>5 DEF OpNote, Calls, OpTake, OpEnable, OpCheck, OpWrite, OpBack
  <1>6. CASE OpWrite
    <2>1. \/ op' = [op EXCEPT !.step = "done", !.ok = TRUE] /\ op.h \in alive
             /\ WriteLands(op.h, op.pct)
          \/ op' = [op EXCEPT !.step = "done"]
      BY <1>6 DEF OpWrite
    <2>2. op.step = "write"
      BY <1>6 DEF OpWrite
    <2>3. /\ op'.by = op.by /\ op'.h = op.h /\ op'.pct = op.pct /\ op'.step = "done"
          /\ op'.ok = op.ok \/ (op.h \in alive /\ WriteLands(op.h, op.pct))
      BY <1>1, <2>1 DEF Calls
    <2> QED BY <2>2, <2>3 DEF OpNote, OpTake, OpEnable, OpCheck, OpBack
  <1>7. CASE OpBack
    <2>1. op' = [op EXCEPT !.step = "done", !.ok = TRUE] /\ op.step = "back"
      BY <1>7 DEF OpBack
    <2>2. op'.by = op.by /\ op'.h = op.h /\ op'.pct = op.pct /\ op'.step = "done"
      BY <1>1, <2>1 DEF Calls
    <2> QED BY <2>1, <2>2 DEF OpNote, OpTake, OpEnable, OpCheck, OpWrite
  <1> QED BY <1>2, <1>3, <1>4, <1>5, <1>6, <1>7

----------------------------------------------------------------------------
(* Next, by what a step does to the headers, the ledger and the call.  A   *)
(* step of the engine, of a diagnostic or of the environment that touches  *)
(* none of them is still for what follows; one that begins a call has only *)
(* begun it.                                                               *)
Still == UNCHANGED <<enable, duty, ledgerVars, stopping, op, exitRecord, exitMin,
                     phase, floorTodo, undone, found>>

Begun ==
    /\ Up /\ Free
    /\ op'.h \in Headers /\ op'.step \in {"done", "note", "check"}
    /\ op'.pct >= exitMin[op'.h]
    /\ UNCHANGED <<enable, duty, original, taken, stopping, exitRecord, exitMin,
                   phase, floorTodo, undone, found>>
    /\ retry_record_if_failed \/ UNCHANGED <<record, recordStale>>

GivesBack ==
    /\ Up /\ Free
    /\ \E h \in ModeHeaders : HandBackHeader("engine", h)
    /\ UNCHANGED <<stopping, disk, phase, floorTodo, undone, found>>

LEMMA SetPwmBegun ==
    ASSUME ControlTypeOK, Up, Free, NEW states, NEW owner, NEW by, NEW h \in Headers,
           NEW pct \in Duty, NEW release, set_pwm_from(states, owner, by, h, pct, release),
           UNCHANGED <<stopping, phase, floorTodo, undone, found>>
    PROVE  Begun
  <1>1. /\ op'.h = h /\ op'.pct = effective_pct(h, pct) /\ op'.step \in {"done", "note", "check"}
        /\ UNCHANGED <<sysfsVars, original, taken, exitRecord, exitMin>>
        /\ retry_record_if_failed \/ UNCHANGED <<record, recordStale>>
    BY SetPwmCall
  <1>2. exitMin[h] \in Int /\ pct \in Int
    BY DEF ControlTypeOK, Duty, NoDuty
  <1>3. effective_pct(h, pct) >= exitMin[h]
    BY <1>2 DEF effective_pct
  <1> QED BY <1>1, <1>3 DEF Begun, sysfsVars

LEMMA EngineMoves == ASSUME TypeOK, EngineStep PROVE Still \/ Begun \/ GivesBack
  <1>1. /\ ControlTypeOK /\ task \in Tasks /\ \A h \in task.todo : task.pct[h] \in Duty
    BY SMTT(30), ZenonT(30) DEF TypeOK
  <1>2. CASE TickApply \/ TickIdle \/ TickForce \/ TaskLease \/ TaskForceLease
               \/ TaskListUnheld \/ TaskEnd
    BY <1>2 DEF TickApply, TickIdle, TickForce, TaskLease, TaskForceLease, TaskListUnheld,
         TaskEnd, vars, handBackVars, sysfsVars, ledgerVars, controlVars, stopVars, Still
  <1>3. CASE TaskWrite
    <2>1. /\ Up /\ Free /\ UNCHANGED <<stopping, phase, floorTodo, undone, found>>
          /\ \/ UNCHANGED <<sysfsVars, ledgerVars, controlVars>>
             \/ \E h \in task.todo : \E states, owner :
                   set_pwm_from(states, owner, "engine", h, task.pct[h], FALSE)
      BY <1>3 DEF TaskWrite, set_pwm, stopVars
    <2>2. CASE UNCHANGED <<sysfsVars, ledgerVars, controlVars>>
      BY <2>1, <2>2 DEF Still, sysfsVars, ledgerVars, controlVars
    <2>3. ASSUME NEW h \in task.todo, NEW states, NEW owner,
                 set_pwm_from(states, owner, "engine", h, task.pct[h], FALSE)
          PROVE  Begun
      <3>1. h \in Headers /\ task.pct[h] \in Duty
        BY <1>1 DEF Tasks
      <3> QED BY <1>1, <2>1, <2>3, <3>1, SetPwmBegun
    <2> QED BY <2>1, <2>2, <2>3
  <1>4. CASE TaskGiveBack
    <2>1. /\ Up /\ Free /\ UNCHANGED <<stopping, disk, phase, floorTodo, undone, found>>
      BY <1>4 DEF TaskGiveBack, stopVars
    <2>2. PICK h \in task.back :
              \/ UNCHANGED <<sysfsVars, ledgerVars, controlVars>>
              \/ h \in ModeHeaders /\ HandBackHeader("engine", h)
              \/ h \notin ModeHeaders /\ release_no_mode("engine", h)
      BY <1>4 DEF TaskGiveBack
    <2>3. h \in Headers
      BY <1>1 DEF Tasks
    <2>4. CASE UNCHANGED <<sysfsVars, ledgerVars, controlVars>>
      BY <2>1, <2>4 DEF Still, sysfsVars, ledgerVars, controlVars
    <2>5. CASE h \in ModeHeaders /\ HandBackHeader("engine", h)
      BY <2>1, <2>5 DEF GivesBack
    <2>6. CASE h \notin ModeHeaders /\ release_no_mode("engine", h)
      <3>1. CASE ReleaseDuty(h) # NoDuty
        <4>1. ReleaseDuty(h) \in Duty
          BY <1>1, <2>3, <2>6, <3>1, ExitDutyType DEF ReleaseDuty, Headers
        <4>2. set_pwm_from(ws, lease.owner, "engine", h, ReleaseDuty(h), TRUE)
          BY <2>6, <3>1 DEF release_no_mode, set_pwm
        <4> QED BY <1>1, <2>1, <2>3, <4>1, <4>2, SetPwmBegun
      <3>2. CASE ReleaseDuty(h) = NoDuty
        BY <2>1, <2>6, <3>2 DEF release_no_mode, Still, sysfsVars, ledgerVars
      <3> QED BY <3>1, <3>2
    <2> QED BY <2>2, <2>4, <2>5, <2>6
  <1> QED BY <1>2, <1>3, <1>4 DEF EngineStep

LEMMA DiagMoves == ASSUME TypeOK, NEW d \in Diags, DiagStep(d) PROVE Still \/ Begun
  <1>1. ControlTypeOK /\ diag \in [Diags -> DiagStates]
    BY DEF TypeOK
  <1>2. ASSUME NEW pct \in Duty, NEW next, DiagWrite(d, pct, next), diag[d].pc # "idle", Up,
               Free, UNCHANGED <<stopping, stopVars>>
        PROVE  Still \/ Begun
    <2>1. CASE validate_lease(diag[d].id)
      <3>1. set_pwm_from(ws, lease.owner, d, diag[d].h, pct, FALSE)
        BY <1>2, <2>1 DEF DiagWrite, set_pwm
      <3>2. diag[d].h \in Headers
        BY <1>2 DEF TypeOK
      <3> QED BY <1>1, <1>2, <3>1, <3>2, SetPwmBegun DEF stopVars
    <2>2. CASE ~validate_lease(diag[d].id)
      BY <1>2, <2>2 DEF DiagWrite, Still, sysfsVars, ledgerVars, controlVars, stopVars
    <2> QED BY <2>1, <2>2
  <1>3. CASE DiagTest(d)
    <2>1. verify_test_duty(diag[d].was) \in Duty
      BY DEF verify_test_duty, Duty
    <2> QED BY <1>2, <1>3, <2>1 DEF DiagTest
  <1>4. CASE DiagRestore(d)
    <2>1. diag[d].was \in Duty
      BY SMTT(30), ZenonT(30), <1>1 DEF DiagStates
    <2> QED BY <1>2, <1>4, <2>1 DEF DiagRestore
  <1>5. CASE ~DiagTest(d) /\ ~DiagRestore(d)
    BY <1>5 DEF DiagStep, DiagGate, DiagBegin, DiagLease, DiagRead, DiagSettled,
           DiagAbandon, DiagDropLease, DiagDropSlot, DiagDone, handBackVars, sysfsVars,
           ledgerVars, controlVars, stopVars, Still
  <1> QED BY <1>3, <1>4, <1>5

LEMMA StepKinds ==
    ASSUME TypeOK, Next
    PROVE  Still \/ Begun \/ GivesBack \/ ControlStep \/ StopStep \/ Reclaim \/ Meddle \/ Resume
  <1>1. CASE EnvStep
    BY <1>1 DEF EnvStep, Calm, ChipAnswers, Expires, Deadman, ForceChange, ProfileChange,
           DiskChange, handBackVars, sysfsVars, ledgerVars, controlVars, Still
  <1> QED BY <1>1, EngineMoves, DiagMoves DEF Next

----------------------------------------------------------------------------
(* The exit floor.  From the latch on, what the controller believes it     *)
(* last wrote to a header without a mode switch is no less than the        *)
(* latched minimum, or the floor has yet to reach it and will raise it     *)
(* there; and a call under way carries a duty no less than it.             *)
FloorInv ==
    /\ op.step # "floor" => floorTodo = {}
    /\ op.step \in {"note", "take", "enable", "check", "write"} => op.pct >= exitMin[op.h]
    /\ \A h \in NoModeHeaders \ floorTodo :
          exitMin[h] # NoDuty /\ exitRecord[h] \in Duty => exitRecord[h] >= exitMin[h]
    /\ \A h \in floorTodo : exit_duty(exitRecord[h], ExitFloor) >= exitMin[h]

(* As long as nobody else writes a header and no chip forgets its          *)
(* registers in a sleep, the register holds what the controller wrote.     *)
Undisturbed == Env \cap {"meddle", "resume"} = {}

RegisterInv ==
    Undisturbed =>
        \A h \in NoModeHeaders : exitRecord[h] \in Duty => duty[h] = Stores[exitRecord[h]]

LEMMA FloorFrame ==
    ASSUME ControlTypeOK, FloorInv, RegisterInv,
           UNCHANGED <<exitRecord, exitMin, floorTodo>>,
           \A h \in NoModeHeaders : duty'[h] = duty[h],
           \/ UNCHANGED op
           \/ /\ op.step # "floor" /\ op'.step # "floor"
              /\ op'.step \in {"note", "take", "enable", "check", "write"} =>
                    op'.pct >= exitMin[op'.h]
    PROVE  FloorInv' /\ RegisterInv'
  BY DEF FloorInv, RegisterInv, Undisturbed

(* A write that lands, of the duty it lands with and of the siblings it primes. *)
LEMMA WriteLandsFloor ==
    ASSUME ControlTypeOK, StopTypeOK, FloorInv, RegisterInv, NEW h \in Headers, NEW pct \in Duty,
           WriteLands(h, pct), pct >= exitMin[h], UNCHANGED exitMin
    PROVE  /\ \A x \in NoModeHeaders : exitMin[x] # NoDuty /\ exitRecord'[x] \in Duty =>
                 exitRecord'[x] >= exitMin[x] \/ (x \in floorTodo /\ x # h)
           /\ \A x \in floorTodo \ {h} : exit_duty(exitRecord'[x], ExitFloor) >= exitMin[x]
           /\ RegisterInv'
  <1>1. /\ exitMin \in [Headers -> Duty \cup {NoDuty}] /\ duty \in [Headers -> Duty]
        /\ NoModeHeaders \subseteq Headers /\ Unprimed(h) \subseteq NoModeHeaders
        /\ exitRecord \in [Headers -> Duty \cup {NoDuty, NotWritten}]
        /\ floorTodo \subseteq NoModeHeaders /\ ExitFloor \in Duty
    BY ControlAssumption
       DEF ControlTypeOK, HandBackTypeOK, Headers, Unprimed, StopTypeOK
  <1>2. \A x \in Headers :
           /\ duty'[x] = IF x = h THEN Stores[pct]
                         ELSE IF x \in Unprimed(h) THEN Stores[100] ELSE duty[x]
           /\ exitRecord'[x] = IF x = h /\ h \in NoModeHeaders THEN pct
                               ELSE IF x \in Unprimed(h) THEN 100 ELSE exitRecord[x]
    BY DEF WriteLands
  <1>3. \A x \in NoModeHeaders : 100 >= exitMin[x]
    BY <1>1 DEF Duty, NoDuty
  <1>4. ASSUME NEW x \in NoModeHeaders, exitMin[x] # NoDuty, exitRecord'[x] \in Duty
        PROVE  exitRecord'[x] >= exitMin[x] \/ (x \in floorTodo /\ x # h)
    BY <1>1, <1>2, <1>3, <1>4 DEF FloorInv
  <1>5. ASSUME NEW x \in floorTodo \ {h}
        PROVE  exit_duty(exitRecord'[x], ExitFloor) >= exitMin[x]
    <2>1. CASE x \in Unprimed(h)
      <3>1. exit_duty(100, ExitFloor) = 100
        BY <1>1 DEF exit_duty, Duty
      <3> QED BY <1>1, <1>2, <1>3, <1>5, <2>1, <3>1
    <2>2. CASE x \notin Unprimed(h)
      BY <1>1, <1>2, <1>5, <2>2 DEF FloorInv
    <2> QED BY <2>1, <2>2
  <1>6. RegisterInv'
    BY <1>1, <1>2 DEF RegisterInv, Undisturbed
  <1> QED BY <1>4, <1>5, <1>6

LEMMA ControlStepFloor ==
    ASSUME TypeOK, FloorInv, RegisterInv, ControlStep PROVE FloorInv' /\ RegisterInv'
  <1>1. /\ ControlTypeOK /\ StopTypeOK /\ op \in Calls
        /\ exitMin \in [Headers -> Duty \cup {NoDuty}] /\ NoModeHeaders \subseteq Headers
        /\ exitRecord \in [Headers -> Duty \cup {NoDuty, NotWritten}]
        /\ UNCHANGED floorTodo
    BY TypeGroups DEF ControlTypeOK, Headers, ControlStep, stopVars
  <1>2. NoDuty \notin Duty
    BY DEF Duty, NoDuty
  <1>3. CASE OpNote \/ OpTake \/ OpEnable \/ OpBack
    <2>1. /\ UNCHANGED <<exitRecord, exitMin, duty>> /\ op.step # "floor"
          /\ op'.h = op.h /\ op'.pct = op.pct /\ op'.step \in {"take", "done", "enable", "check"}
          /\ op.step \in {"note", "take", "enable"} \/ op'.step = "done"
      BY <1>1, <1>3, OpMoves DEF OpNote, OpTake, OpEnable, OpBack, sysfsVars
    <2> QED BY <1>1, <2>1, FloorFrame DEF FloorInv
  <1>4. CASE OpCheck
    <2>1. /\ op.step = "check" /\ op'.step \in {"write", "done"} /\ op'.h = op.h /\ op'.pct = op.pct
          /\ UNCHANGED <<exitMin, duty>>
          /\ exitRecord' = IF op.h \in NoModeHeaders
                           THEN [exitRecord EXCEPT ![op.h] = NoDuty] ELSE exitRecord
      BY <1>1, <1>4, OpMoves DEF OpCheck, sysfsVars
    <2>2. \A x \in NoModeHeaders : exitRecord'[x] \in Duty => exitRecord'[x] = exitRecord[x]
      BY <1>1, <1>2, <2>1
    <2>3. floorTodo = {}
      BY <2>1 DEF FloorInv
    <2> QED BY <1>1, <2>1, <2>2, <2>3 DEF FloorInv, RegisterInv, Undisturbed
  <1>5. CASE OpWrite
    <2>1. /\ op.step = "write" /\ op'.step = "done" /\ op.h \in Headers /\ op.pct \in Duty
          /\ floorTodo = {} /\ op.pct >= exitMin[op.h]
      BY <1>1, <1>5, OpMoves DEF FloorInv, ControlTypeOK, Calls
    <2>2. UNCHANGED exitMin /\ (WriteLands(op.h, op.pct) \/ WriteFails(op.h))
      BY <1>5 DEF OpWrite
    <2>3. CASE WriteLands(op.h, op.pct)
      BY <1>1, <2>1, <2>2, <2>3, WriteLandsFloor DEF FloorInv
    <2>4. CASE WriteFails(op.h)
      <3>1. UNCHANGED duty
            /\ \A x \in NoModeHeaders : exitRecord'[x] \in Duty => exitRecord'[x] = exitRecord[x]
        BY <1>1, <1>2, <2>4 DEF WriteFails
      <3> QED BY <1>1, <2>1, <2>2, <3>1 DEF FloorInv, RegisterInv, Undisturbed
    <2> QED BY <2>2, <2>3, <2>4
  <1>6. CASE OpReturn
    <2>1. /\ UNCHANGED <<exitRecord, exitMin, duty>> /\ op.step = "done" /\ op'.step = "idle"
      BY <1>6, IdleType DEF OpReturn, sysfsVars
    <2> QED BY <1>1, <2>1, FloorFrame
  <1> QED BY <1>3, <1>4, <1>5, <1>6 DEF ControlStep

LEMMA StopStepFloor ==
    ASSUME TypeOK, FloorInv, RegisterInv, StopStep PROVE FloorInv' /\ RegisterInv'
  <1>1. /\ ControlTypeOK /\ StopTypeOK /\ op \in Calls
        /\ exitMin \in [Headers -> Duty \cup {NoDuty}] /\ NoModeHeaders \subseteq Headers
        /\ exitRecord \in [Headers -> Duty \cup {NoDuty, NotWritten}]
        /\ floorTodo \subseteq NoModeHeaders /\ ExitFloor \in Duty
        /\ ModeHeaders \cap NoModeHeaders = {} /\ duty \in [Headers -> Duty]
    BY TypeGroups, ControlAssumption, HeaderAssumption
       DEF ControlTypeOK, StopTypeOK, Headers, HandBackTypeOK
  <1>2. NoDuty \notin Duty /\ NotWritten \notin Duty
    BY DEF Duty, NoDuty, NotWritten
  <1>3. CASE StopBegin \/ StopFloor \/ StopFlag \/ StopSnapshot \/ ExecStopPostDone \/ Start
    <2>1. UNCHANGED <<exitRecord, exitMin, floorTodo, duty, op>>
      BY <1>3 DEF StopBegin, StopFloor, StopFlag, StopSnapshot, ExecStopPostDone, Start,
             handBackVars, sysfsVars, controlVars
    <2> QED BY <1>1, <2>1, FloorFrame
  <1>4. CASE StopHandBack \/ ExecStopPost
    <2>1. /\ UNCHANGED <<exitRecord, exitMin, floorTodo, op>>
          /\ \E h \in ModeHeaders : \E d : duty' = [duty EXCEPT ![h] = d]
      BY <1>1, <1>4
         DEF StopHandBack, ExecStopPost, PerformHandBack, controlVars, StopTypeOK
    <2>2. \A h \in NoModeHeaders : duty'[h] = duty[h]
      BY <1>1, <2>1
    <2> QED BY <1>1, <2>1, <2>2, FloorFrame
  <1>5. CASE FloorLatch
    <2>1. /\ op'.step = "floor" /\ UNCHANGED <<exitRecord, duty>>
          /\ floorTodo' = {h \in NoModeHeaders : exitRecord[h] # NotWritten}
          /\ \A h \in NoModeHeaders : exitRecord[h] # NotWritten =>
                exitMin'[h] = exit_duty(exitRecord[h], ExitFloor)
      BY <1>1, <1>5 DEF FloorLatch, LatchExitFloor, Idle, sysfsVars
    <2>2. \A h \in NoModeHeaders : exit_duty(exitRecord[h], ExitFloor) \in Int
      BY <1>1 DEF exit_duty, Duty
    <2>3. \A h \in NoModeHeaders : exitRecord[h] # NotWritten =>
             exit_duty(exitRecord[h], ExitFloor) >= exitMin'[h]
      BY <2>1, <2>2
    <2> QED BY <1>1, <1>2, <2>1, <2>3 DEF FloorInv, RegisterInv, Undisturbed
  <1>6. CASE FloorRaise
    <2>1. PICK h \in floorTodo : RaiseToFloor(h) /\ floorTodo' = floorTodo \ {h}
      BY <1>6 DEF FloorRaise
    <2> DEFINE target == exit_duty(exitRecord[h], ExitFloor)
    <2>2. /\ op.step = "floor" /\ UNCHANGED <<op, exitMin>> /\ h \in Headers
          /\ target \in Duty /\ target >= exitMin[h]
      BY <1>1, <2>1, ExitDutyType DEF RaiseToFloor, FloorInv
    <2>3. \A x \in NoModeHeaders : exit_duty(NoDuty, ExitFloor) >= exitMin[x]
      BY <1>1, <1>2 DEF exit_duty, Duty, NoDuty
    <2>4. CASE UNCHANGED <<duty, exitRecord>> /\ target = exitRecord[h]
      BY <1>1, <2>1, <2>2, <2>4 DEF FloorInv, RegisterInv, Undisturbed
    <2>5. CASE WriteLands(h, target)
      <3> HIDE DEF target
      <3> QED BY <1>1, <2>1, <2>2, <2>5, WriteLandsFloor DEF FloorInv
    <2>6. CASE UNCHANGED duty /\ \E s \in Headers :
                 exitRecord' = [exitRecord EXCEPT ![h] = NoDuty, ![s] = NoDuty]
      <3>1. \A x \in Headers : exitRecord'[x] = exitRecord[x] \/ exitRecord'[x] = NoDuty
        BY <1>1, <2>6
      <3>2. exitRecord'[h] = NoDuty
        BY <1>1, <2>2, <2>6
      <3>3. RegisterInv'
        BY <1>1, <1>2, <2>6, <3>1 DEF RegisterInv, Undisturbed
      <3>4. ASSUME NEW x \in NoModeHeaders \ floorTodo', exitMin'[x] # NoDuty,
                   exitRecord'[x] \in Duty
            PROVE  exitRecord'[x] >= exitMin'[x]
        BY <1>1, <1>2, <2>1, <2>2, <3>1, <3>2, <3>4 DEF FloorInv
      <3>5. ASSUME NEW x \in floorTodo'
            PROVE  exit_duty(exitRecord'[x], ExitFloor) >= exitMin'[x]
        BY <1>1, <2>1, <2>2, <2>3, <3>1, <3>5 DEF FloorInv
      <3> QED BY <2>2, <3>3, <3>4, <3>5 DEF FloorInv
    <2>7. \/ UNCHANGED <<duty, exitRecord>> /\ target = exitRecord[h]
          \/ WriteLands(h, target)
          \/ UNCHANGED duty /\ \E s \in Headers :
                 exitRecord' = [exitRecord EXCEPT ![h] = NoDuty, ![s] = NoDuty]
      <3>1. Unprimed(h) \subseteq Headers
        BY <1>1, ControlAssumption DEF Unprimed
      <3> QED BY <2>1, <2>2, <3>1 DEF RaiseToFloor
    <2> QED BY <2>4, <2>5, <2>6, <2>7
  <1>7. CASE FloorEnd
    <2>1. /\ UNCHANGED <<exitRecord, exitMin, floorTodo, duty>> /\ floorTodo = {}
          /\ op'.step = "idle"
      BY <1>7, IdleType DEF FloorEnd, FloorDone, sysfsVars, stopVars
    <2> QED BY <2>1 DEF FloorInv, RegisterInv, Undisturbed
  <1>8. CASE Exit
    <2>1. /\ floorTodo' = {} /\ op'.step = "idle"
          /\ \A h \in NoModeHeaders : exitRecord'[h] = NotWritten
      BY <1>1, <1>8, IdleType DEF Exit
    <2> QED BY <1>2, <2>1 DEF FloorInv, RegisterInv, Undisturbed
  <1> QED BY <1>3, <1>4, <1>5, <1>6, <1>7, <1>8 DEF StopStep

LEMMA FloorStep ==
    TypeOK /\ FloorInv /\ RegisterInv /\ [Next]_vars => FloorInv' /\ RegisterInv'
  <1> SUFFICES ASSUME TypeOK, FloorInv, RegisterInv, [Next]_vars PROVE FloorInv' /\ RegisterInv'
    OBVIOUS
  <1>1. /\ ControlTypeOK /\ ModeHeaders \cap NoModeHeaders = {} /\ duty \in [Headers -> Duty]
        /\ NoModeHeaders \subseteq Headers
    BY HeaderAssumption DEF TypeOK, ControlTypeOK, HandBackTypeOK, Headers
  <1>2. CASE UNCHANGED vars \/ Still \/ Reclaim
    BY <1>1, <1>2, FloorFrame
       DEF vars, handBackVars, sysfsVars, controlVars, stopVars, Still, Reclaim, Calm
  <1>3. CASE Begun
    <2>1. op.step = "idle"
      BY <1>3, IdleType DEF Begun, Free
    <2> QED BY <1>1, <1>3, <2>1, FloorFrame DEF Begun
  <1>4. CASE GivesBack
    <2>1. PICK h \in ModeHeaders : HandBackHeader("engine", h)
      BY <1>4 DEF GivesBack
    <2>2. /\ op.step = "idle" /\ UNCHANGED <<exitRecord, exitMin, floorTodo>>
          /\ \E d : duty' = [duty EXCEPT ![h] = d]
      BY <1>4, <2>1, IdleType DEF GivesBack, HandBackHeader, Free, PerformHandBack
    <2>3. op'.step \in {"back", "done"}
      BY <2>1 DEF HandBackHeader, Idle
    <2>4. \A x \in NoModeHeaders : duty'[x] = duty[x]
      BY <1>1, <2>2
    <2> QED BY <1>1, <2>2, <2>3, <2>4, FloorFrame
  <1>5. CASE Meddle \/ Resume
    <2>1. ~Undisturbed /\ UNCHANGED <<op, exitRecord, exitMin, floorTodo>>
      BY <1>5 DEF Meddle, Resume, Event, Undisturbed, controlVars, Calm
    <2> QED BY <2>1 DEF FloorInv, RegisterInv, Undisturbed
  <1> QED BY <1>2, <1>3, <1>4, <1>5, StepKinds, ControlStepFloor, StopStepFloor

LEMMA FloorAlways == Spec => [](FloorInv /\ RegisterInv)
  <1>1. Init => FloorInv /\ RegisterInv
    BY IdleType DEF Init, ControlInit, FloorInv, RegisterInv, Duty, NotWritten, NoDuty, Headers
  <1> QED BY <1>1, FloorStep, HwmonTypeCorrect, PTL DEF Spec

(* Once the exit floor has run, the duty the daemon last wrote to a header *)
(* without a mode switch is no less than the minimum latched for it,       *)
(* whatever else moves the register: an engine task that outlived its      *)
(* drain and a diagnostic's late restore are raised to it (effective_pct,  *)
(* apply_exit_floor).                                                      *)
WrittenAtFloor ==
    \A h \in NoModeHeaders :
        exitMin[h] # NoDuty /\ op.step # "floor" /\ exitRecord[h] \in Duty =>
            exitRecord[h] >= exitMin[h]

(* Stated of every instance, whoever else writes the headers. *)
THEOREM FloorOutlasts == Spec => []WrittenAtFloor
  <1>1. FloorInv => WrittenAtFloor
    BY DEF FloorInv, WrittenAtFloor
  <1> QED BY <1>1, FloorAlways, PTL

(* ... and where no other program writes the header and no sleep clears a  *)
(* chip's registers, it is also what the register holds.                   *)
THEOREM FloorKept == Spec => [](Undisturbed => FloorSurvives)
  <1>1. FloorInv /\ RegisterInv => (Undisturbed => FloorSurvives)
    BY DEF FloorInv, RegisterInv, FloorSurvives
  <1> QED BY <1>1, FloorAlways, PTL

----------------------------------------------------------------------------
(* What the ledger and the record hold is an action that leaves the header *)
(* as it was found, at full speed or under firmware.                       *)
Sound(h, a) ==
    /\ a.kind = "manual" => a.duty = 100 \/ (found[h].mode = "manual" /\ a.duty = found[h].duty)
    /\ a.kind \in {"mode", "write_only"} => a.mode # "manual"

AsFound(h) ==
    \/ enable[h] # "manual"
    \/ duty[h] = 100
    \/ found[h].mode = "manual" /\ duty[h] = found[h].duty

(* Settled: given back, or noted as a failure to give back. *)
Settled(h) == AsFound(h) \/ h \in undone

(* The reading that becomes an original is taken of a header that is       *)
(* settled, or it is not kept because the header has one.  A hand-back     *)
(* fails only once the stop has begun, and by then takes are refused.      *)
SoundInv ==
    /\ \A h \in ModeHeaders : Sound(h, original[h]) /\ Sound(h, record[h])
    /\ \A h \in taken : original[h] # Unknown
    /\ op.step = "take" =>
          /\ op.orig \in HandBacks
          /\ original[op.h] # Unknown \/ Sound(op.h, op.orig)
    /\ undone # {} => phase \in {"hand_back", "exited", "down"}
    /\ phase \in {"flagged", "hand_back"} => stopping

SettledInv ==
    /\ Up => \A h \in ModeHeaders \ taken : Settled(h)
    /\ op.step = "back" => Settled(op.h)
    /\ ~Up /\ ~recordStale => \A h \in ModeHeaders : Settled(h) \/ record[h] # Unknown

(* Nobody else writes a duty. *)
Unmoved == "meddle" \notin Env

LEMMA SoundActions ==
    ASSUME NEW orig \in [ModeHeaders -> HandBacks \cup {Unknown}],
           \A x \in ModeHeaders : Sound(x, orig[x]), NEW h \in ModeHeaders
    PROVE  /\ Sound(h, TakenAction(orig, h))
           /\ \A held : Sound(h, render_record(orig, held)[h])
  BY DEF Sound, TakenAction, FullSpeed, Unknown, render_record

(* A hand-back by a sound action that is released leaves the header settled. *)
LEMMA HandBackSettles ==
    ASSUME HandBackTypeOK, NEW h \in ModeHeaders, NEW action \in HandBacks, Sound(h, action),
           NEW result \in hand_back(h, action), released(result),
           enable' = [enable EXCEPT ![h] = result.enable],
           duty' = [duty EXCEPT ![h] = result.duty], UNCHANGED found
    PROVE  AsFound(h)'
  <1>1. enable'[h] = result.enable /\ duty'[h] = result.duty
    BY DEF HandBackTypeOK, Headers
  <1>2. ASSUME result \in full_speed(h) PROVE result.enable # "manual" \/ result.duty = 100
    BY <1>2 DEF full_speed, Result, released
  <1>3. CASE h \notin alive
    BY <1>3 DEF hand_back, Result, released
  <1>4. CASE result \in full_speed(h)
    BY <1>1, <1>2, <1>4 DEF AsFound
  <1>5. CASE h \in alive /\ result \notin full_speed(h)
    <2>1. \/ /\ action.kind \in {"mode", "write_only"}
             /\ result = Result(action.mode, duty[h], "restored")
          \/ action.kind = "manual" /\ result = Result("manual", action.duty, "restored")
      BY <1>5 DEF hand_back
    <2>2. \/ result.enable # "manual"
          \/ result.duty = 100
          \/ found[h].mode = "manual" /\ result.duty = found[h].duty
      BY <2>1 DEF Result, Sound
    <2> QED BY <1>1, <2>2 DEF AsFound
  <1> QED BY <1>3, <1>4, <1>5

LEMMA LeftFrame ==
    ASSUME SoundInv, SettledInv, UNCHANGED <<ledgerVars, stopping, phase, undone, found>>,
           \A h \in ModeHeaders : AsFound(h) => AsFound(h)',
           UNCHANGED op \/ op'.step \notin {"take", "back"}, TypeOK
    PROVE  SoundInv' /\ SettledInv'
  <1>1. op.step = "back" => op.h \in ModeHeaders
    BY DEF TypeOK, ControlTypeOK
  <1> QED BY <1>1 DEF SoundInv, SettledInv, Sound, Settled, Up, ledgerVars

(* The record may be written again from the ledger as it stands. *)
LEMMA RetrySound ==
    ASSUME TypeOK, SoundInv, UNCHANGED <<original, taken, found>>,
           retry_record_if_failed \/ UNCHANGED <<record, recordStale>>
    PROVE  \A h \in ModeHeaders : Sound(h, original[h])' /\ Sound(h, record[h])'
  <1>1. original \in [ModeHeaders -> HandBacks \cup {Unknown}]
    BY DEF TypeOK, ControlTypeOK, HandBackTypeOK
  <1>2. record' = record \/ record' = render_record(original, taken)
    BY DEF retry_record_if_failed, persist
  <1>3. ASSUME NEW h \in ModeHeaders PROVE Sound(h, original[h])' /\ Sound(h, record[h])'
    <2>1. Sound(h, original[h]) /\ Sound(h, record'[h])
      BY <1>1, <1>2, SoundActions DEF SoundInv
    <2> QED BY <2>1 DEF Sound
  <1> QED BY <1>3

LEMMA ControlStepLeft ==
    ASSUME TypeOK, LedgerInv, SoundInv, SettledInv, ControlStep PROVE SoundInv' /\ SettledInv'
  <1>1. /\ ControlTypeOK /\ HandBackTypeOK /\ op \in Calls /\ HeldInv /\ WriteAhead
        /\ original \in [ModeHeaders -> HandBacks \cup {Unknown}] /\ taken \subseteq ModeHeaders
        /\ ModeHeaders \cap NoModeHeaders = {} /\ ModeHeaders \subseteq Headers
        /\ enable \in [Headers -> Modes] /\ duty \in [Headers -> Duty]
        /\ SharedReport \subseteq NoModeHeaders
    BY HeaderAssumption, ControlAssumption
       DEF TypeOK, ControlTypeOK, HandBackTypeOK, LedgerInv, Headers
  <1>2. Up /\ Up' /\ UNCHANGED <<stopping, phase, undone, found>>
    BY DEF ControlStep, Up, stopVars
  <1>3. CASE OpNote
    <2>1. /\ op.step = "note" /\ op.h \in ModeHeaders /\ op'.h = op.h
          /\ op'.step \in {"take", "done"}
          /\ op'.step = "take" => op'.orig = from_reading(op.h) /\ ~stopping
          /\ UNCHANGED <<enable, duty, ledgerVars>>
      BY <1>1, <1>3, OpMoves DEF OpNote, ControlTypeOK, refused, sysfsVars
    <2>2. from_reading(op.h) \in HandBacks
      BY <1>1, <2>1, FromReadingType
    <2>3. ASSUME op'.step = "take", original[op.h] = Unknown
          PROVE  Sound(op.h, from_reading(op.h))
      <3>1. undone = {}
        BY <1>2, <2>1, <2>3 DEF SoundInv, Up
      <3>2. op.h \notin taken
        BY <2>3 DEF SoundInv
      <3>3. AsFound(op.h)
        BY <1>2, <2>1, <3>1, <3>2 DEF SettledInv, Settled
      <3> QED BY <2>1, <3>3
              DEF AsFound, Sound, from_reading, WriteOnly, FullSpeed, ToManual, ToMode
    <2> QED BY <1>2, <2>1, <2>2, <2>3 DEF SoundInv, SettledInv, Sound, Settled, AsFound, ledgerVars
  <1>4. CASE OpTake
    <2>1. /\ op.step = "take" /\ op.h \in ModeHeaders /\ op'.step = "enable"
          /\ UNCHANGED <<enable, duty>> /\ note_take(op.h, op.orig)
      BY <1>1, <1>4, OpMoves DEF OpTake, ControlTypeOK, sysfsVars
    <2>2. /\ original' = [original EXCEPT ![op.h] =
                            IF original[op.h] = Unknown THEN op.orig ELSE original[op.h]]
          /\ taken' = taken \cup {op.h}
          /\ record' = record \/ record' = render_record(original', taken')
      BY <2>1 DEF note_take, persist
    <2>3. /\ op.orig \in HandBacks /\ op.orig # Unknown
          /\ original[op.h] # Unknown \/ Sound(op.h, op.orig)
      BY <2>1 DEF SoundInv, HandBacks, Unknown
    <2>4. /\ original' \in [ModeHeaders -> HandBacks \cup {Unknown}]
          /\ \A x \in ModeHeaders : Sound(x, original'[x])
          /\ \A x \in taken' : original'[x] # Unknown
      BY <1>1, <2>1, <2>2, <2>3 DEF SoundInv
    <2>5. \A x \in ModeHeaders : Sound(x, record'[x])
      BY <2>2, <2>4, SoundActions DEF SoundInv
    <2>6. SoundInv'
      BY <1>2, <2>1, <2>4, <2>5 DEF SoundInv, Sound
    <2>7. SettledInv'
      BY <1>2, <2>1, <2>2 DEF SettledInv, Settled, AsFound
    <2> QED BY <2>6, <2>7
  <1>5. CASE OpEnable
    <2>1. /\ op.step = "enable" /\ op.h \in taken /\ op'.step \in {"check", "done"}
          /\ UNCHANGED <<duty, ledgerVars>>
          /\ enable' = enable \/ enable' = [enable EXCEPT ![op.h] = "manual"]
      BY <1>1, <1>5, OpMoves DEF OpEnable, ControlTypeOK, HeldInv
    <2>2. \A x \in ModeHeaders \ taken : enable'[x] = enable[x]
      BY <1>1, <2>1
    <2> QED BY <1>2, <2>1, <2>2 DEF SoundInv, SettledInv, Sound, Settled, AsFound, ledgerVars
  <1>6. CASE OpCheck \/ OpReturn
    <2>1. /\ op'.step \notin {"take", "back"} /\ UNCHANGED <<enable, duty, ledgerVars>>
      BY <1>1, <1>6, OpMoves, IdleType DEF OpCheck, OpReturn, sysfsVars
    <2> QED BY <1>2, <2>1, LeftFrame DEF AsFound
  <1>7. CASE OpWrite
    <2>1. /\ op.step = "write" /\ op'.step = "done" /\ UNCHANGED <<enable, ledgerVars>>
          /\ op.h \in ModeHeaders => op.h \in taken
      BY <1>1, <1>7, OpMoves DEF OpWrite, HeldInv
    <2>2. \A x \in ModeHeaders \ {op.h} : duty'[x] = duty[x]
      BY <1>1, <1>7 DEF OpWrite, WriteLands, WriteFails, Unprimed
    <2> QED BY <1>2, <2>1, <2>2 DEF SoundInv, SettledInv, Sound, Settled, AsFound, ledgerVars
  <1>8. CASE OpBack
    <2>1. /\ op.step = "back" /\ op'.step = "done" /\ UNCHANGED <<enable, duty>>
          /\ note_handed_back(op.h)
      BY <1>1, <1>8, OpMoves DEF OpBack, sysfsVars
    <2>2. /\ original' = original /\ taken' = taken \ {op.h}
          /\ record' = record \/ record' = render_record(original, taken')
      BY <2>1 DEF note_handed_back, persist
    <2>3. \A x \in ModeHeaders : Sound(x, record'[x])
      BY <1>1, <2>2, SoundActions DEF SoundInv
    <2>4. SoundInv'
      BY <1>2, <2>1, <2>2, <2>3 DEF SoundInv, Sound
    <2>5. SettledInv'
      BY <1>2, <2>1, <2>2 DEF SettledInv, Settled, AsFound
    <2> QED BY <2>4, <2>5
  <1> QED BY <1>3, <1>4, <1>5, <1>6, <1>7, <1>8 DEF ControlStep

LEMMA GivesBackLeft ==
    ASSUME TypeOK, SoundInv, SettledInv, GivesBack PROVE SoundInv' /\ SettledInv'
  <1>1. PICK h \in ModeHeaders : HandBackHeader("engine", h)
    BY DEF GivesBack
  <1>2. /\ HandBackTypeOK /\ enable \in [Headers -> Modes] /\ duty \in [Headers -> Duty]
        /\ original \in [ModeHeaders -> HandBacks \cup {Unknown}] /\ ModeHeaders \subseteq Headers
    BY DEF TypeOK, ControlTypeOK, HandBackTypeOK, Headers
  <1>3. /\ Up /\ Up' /\ UNCHANGED <<stopping, phase, undone, found, original, taken>>
        /\ h \in taken /\ retry_record_if_failed
    BY <1>1 DEF GivesBack, HandBackHeader, Up
  <1>4. PICK result \in hand_back(h, TakenAction(original, h)) :
          /\ enable' = [enable EXCEPT ![h] = result.enable]
          /\ duty' = [duty EXCEPT ![h] = result.duty]
          /\ IF released(result) THEN op' = [Idle EXCEPT !.step = "back", !.by = "engine", !.h = h]
             ELSE op' = [Idle EXCEPT !.step = "done", !.by = "engine", !.h = h]
    BY <1>1 DEF HandBackHeader, PerformHandBack
  <1>5. /\ op'.step \in {"back", "done"}
        /\ op'.step = "back" => released(result) /\ op'.h = h
    <2>1. CASE released(result)
      BY <1>4, <2>1 DEF Idle
    <2>2. CASE ~released(result)
      BY <1>4, <2>2 DEF Idle
    <2> QED BY <2>1, <2>2
  <1>6. op'.step = "back" => AsFound(h)'
    <2>1. TakenAction(original, h) \in HandBacks /\ Sound(h, TakenAction(original, h))
      BY <1>2, TakenActionType, SoundActions DEF SoundInv
    <2> QED BY <1>2, <1>3, <1>4, <1>5, <2>1, HandBackSettles
  <1>7. \A x \in ModeHeaders \ taken : enable'[x] = enable[x] /\ duty'[x] = duty[x]
    BY <1>2, <1>3, <1>4
  <1>8. \A x \in ModeHeaders : Sound(x, original[x])' /\ Sound(x, record[x])'
    BY <1>3, RetrySound
  <1>9. SoundInv'
    BY <1>3, <1>5, <1>8 DEF SoundInv
  <1>10. SettledInv'
    BY <1>3, <1>5, <1>6, <1>7 DEF SettledInv, Settled, AsFound
  <1> QED BY <1>9, <1>10

(* A hand-back after the stop, of a header named by the ledger or by the   *)
(* record: released, or noted as undone.                                   *)
LEMMA UndoneSettles ==
    ASSUME TypeOK, NEW h \in ModeHeaders, NEW action \in HandBacks, Sound(h, action),
           NEW result \in hand_back(h, action), PerformHandBack(h, result),
           undone' = Undone(h, result), UNCHANGED found
    PROVE  /\ Settled(h)'
           /\ \A x \in ModeHeaders \ {h} : Settled(x) => Settled(x)'
  <1>1. HandBackTypeOK /\ ModeHeaders \subseteq Headers
        /\ enable \in [Headers -> Modes] /\ duty \in [Headers -> Duty]
    BY DEF TypeOK, ControlTypeOK, HandBackTypeOK, Headers
  <1>2. /\ enable' = [enable EXCEPT ![h] = result.enable]
        /\ duty' = [duty EXCEPT ![h] = result.duty]
        /\ released(result) => undone' = undone \ {h}
        /\ ~released(result) => undone' = undone \cup {h}
    BY DEF PerformHandBack, Undone
  <1>3. Settled(h)'
    BY <1>1, <1>2, HandBackSettles DEF Settled
  <1>4. \A x \in ModeHeaders \ {h} : enable'[x] = enable[x] /\ duty'[x] = duty[x]
    BY <1>1, <1>2
  <1> QED BY <1>2, <1>3, <1>4 DEF Settled, AsFound

LEMMA StopStepLeft ==
    ASSUME TypeOK, LedgerInv, SoundInv, SettledInv, StopStep PROVE SoundInv' /\ SettledInv'
  <1>1. /\ ControlTypeOK /\ HandBackTypeOK /\ op \in Calls /\ WriteAhead /\ EndedInv
        /\ original \in [ModeHeaders -> HandBacks \cup {Unknown}] /\ taken \subseteq ModeHeaders
        /\ record \in [ModeHeaders -> HandBacks \cup {Unknown}]
        /\ ModeHeaders \cap NoModeHeaders = {} /\ ModeHeaders \subseteq Headers
        /\ enable \in [Headers -> Modes] /\ duty \in [Headers -> Duty]
        /\ SharedReport \subseteq NoModeHeaders
        /\ floorTodo \subseteq NoModeHeaders /\ stopTodo \subseteq ModeHeaders
        /\ op.step = "back" => op.h \in ModeHeaders
    BY HeaderAssumption, ControlAssumption
       DEF TypeOK, ControlTypeOK, HandBackTypeOK, LedgerInv, Headers
  <1>2. CASE StopBegin \/ StopFloor \/ StopFlag \/ StopSnapshot
    <2>1. /\ Up /\ Up' /\ UNCHANGED <<enable, duty, ledgerVars, op, undone, found>>
          /\ phase \notin {"hand_back", "exited", "down"}
          /\ phase' = "hand_back" => phase = "flagged" /\ UNCHANGED stopping
          /\ phase' = "flagged" => stopping'
      BY <1>2 DEF StopBegin, StopFloor, StopFlag, StopSnapshot, Up, handBackVars, sysfsVars,
             ledgerVars, controlVars
    <2>2. phase = "flagged" => stopping
      BY DEF SoundInv
    <2> QED BY <2>1, <2>2 DEF SoundInv, SettledInv, Sound, Settled, AsFound, ledgerVars
  <1>3. CASE FloorLatch \/ FloorEnd
    <2>1. /\ UNCHANGED <<enable, duty, ledgerVars, stopping, phase, undone, found>>
          /\ op'.step \notin {"take", "back"}
      BY <1>3, IdleType DEF FloorLatch, LatchExitFloor, FloorEnd, FloorDone, Idle, sysfsVars,
             stopVars
    <2> QED BY <2>1, LeftFrame DEF AsFound
  <1>4. CASE FloorRaise
    <2>1. PICK h \in floorTodo : RaiseToFloor(h)
      BY <1>4 DEF FloorRaise
    <2>2. /\ UNCHANGED <<enable, ledgerVars, stopping, op, phase, undone, found>>
      BY <1>4, <2>1 DEF FloorRaise, RaiseToFloor
    <2>3. \A x \in ModeHeaders : duty'[x] = duty[x]
      BY <1>1, <2>1 DEF RaiseToFloor, WriteLands, Unprimed
    <2> QED BY <2>2, <2>3, LeftFrame DEF AsFound
  <1>5. CASE StopHandBack
    <2>1. PICK h \in stopTodo : \E result \in hand_back(h, TakenAction(original, h)) :
             PerformHandBack(h, result) /\ undone' = Undone(h, result)
      BY <1>5 DEF StopHandBack
    <2>2. /\ phase = "hand_back" /\ UNCHANGED <<ledgerVars, op, stopping, phase, found>>
      BY <1>5 DEF StopHandBack, controlVars
    <2>3. /\ h \in ModeHeaders /\ TakenAction(original, h) \in HandBacks
          /\ Sound(h, TakenAction(original, h))
      BY <1>1, TakenActionType, SoundActions DEF SoundInv
    <2>4. \A x \in ModeHeaders : Settled(x) => Settled(x)'
      BY <2>1, <2>2, <2>3, UndoneSettles
    <2>5. SoundInv'
      BY <2>2 DEF SoundInv, Sound, ledgerVars
    <2>6. SettledInv'
      BY <1>1, <2>2, <2>4 DEF SettledInv, Up, ledgerVars
    <2> QED BY <2>5, <2>6
  <1>6. CASE Exit
    <2>1. /\ Up /\ ~Up' /\ phase' = "exited" /\ op'.step = "idle"
          /\ UNCHANGED <<enable, duty, ledgerVars, undone, found>>
      BY <1>6, IdleType DEF Exit, Up, sysfsVars
    <2>2. ASSUME ~recordStale, NEW h \in ModeHeaders PROVE Settled(h) \/ record[h] # Unknown
      <3>1. CASE h \in taken
        <4>1. record = render_record(original, taken) /\ TakenAction(original, h) # Unknown
          BY <1>1, <2>1, <2>2, TakenActionType DEF WriteAhead
        <4> QED BY <3>1, <4>1 DEF render_record
      <3>2. CASE h \notin taken
        BY <2>1, <3>2 DEF SettledInv
      <3> QED BY <3>1, <3>2
    <2>3. SettledInv'
      BY <2>1, <2>2 DEF SettledInv, Settled, AsFound, ledgerVars
    <2>4. SoundInv'
      BY <2>1 DEF SoundInv, Sound, ledgerVars
    <2> QED BY <2>3, <2>4
  <1>7. CASE ExecStopPost
    <2>1. PICK h \in ModeHeaders :
             /\ record[h] # Unknown
             /\ \E result \in hand_back(h, record[h]) :
                   PerformHandBack(h, result) /\ undone' = Undone(h, result)
             /\ record' = [record EXCEPT ![h] = Unknown]
      BY <1>7 DEF ExecStopPost
    <2>2. /\ phase = "exited" /\ UNCHANGED <<original, taken, recordStale, op, phase, found>>
      BY <1>7 DEF ExecStopPost, controlVars
    <2>3. record[h] \in HandBacks /\ Sound(h, record[h])
      BY <1>1, <2>1 DEF SoundInv
    <2>4. Settled(h)' /\ \A x \in ModeHeaders \ {h} : Settled(x) => Settled(x)'
      BY <2>1, <2>2, <2>3, UndoneSettles
    <2>5. /\ \A x \in ModeHeaders \ {h} : record'[x] = record[x]
          /\ record'[h] = Unknown
      BY <1>1, <2>1
    <2>6. SoundInv'
      BY <2>2, <2>5 DEF SoundInv, Sound, Unknown
    <2>7. op.step = "idle"
      BY <1>1, <2>2, IdleType DEF EndedInv, Up
    <2>8. SettledInv'
      BY <2>2, <2>4, <2>5, <2>7 DEF SettledInv, Up
    <2> QED BY <2>6, <2>8
  <1>8. CASE ExecStopPostDone
    <2>1. /\ ~Up /\ ~Up' /\ phase \in {"exited", "down"} /\ phase' = "down"
          /\ UNCHANGED <<enable, duty, ledgerVars, op, undone, found>>
      BY <1>8 DEF ExecStopPostDone, Up, handBackVars, sysfsVars, controlVars
    <2> QED BY <2>1 DEF SoundInv, SettledInv, Sound, Settled, AsFound, ledgerVars
  <1>9. CASE Start
    <2>1. /\ phase = "down" /\ phase' = "running" /\ Up' /\ undone' = {}
          /\ \A h \in ModeHeaders : original'[h] = Unknown
          /\ taken' = {} /\ UNCHANGED <<enable, duty, record, op>>
          /\ \A h \in ModeHeaders : found'[h].mode = enable[h] /\ found'[h].duty = duty[h]
      BY <1>1, <1>9 DEF Start, Up, sysfsVars, controlVars
    <2>2. op.step = "idle" /\ \A h \in ModeHeaders : record[h] = Unknown
      BY <1>1, <2>1, IdleType DEF EndedInv, Up
    <2> QED BY <2>1, <2>2 DEF SoundInv, SettledInv, Sound, Settled, AsFound, Unknown
  <1> QED BY <1>2, <1>3, <1>4, <1>5, <1>6, <1>7, <1>8, <1>9 DEF StopStep

LEMMA LeftStep ==
    ASSUME Unmoved
    PROVE  TypeOK /\ LedgerInv /\ SoundInv /\ SettledInv /\ [Next]_vars => SoundInv' /\ SettledInv'
  <1> SUFFICES ASSUME TypeOK, LedgerInv, SoundInv, SettledInv, [Next]_vars
               PROVE  SoundInv' /\ SettledInv'
    OBVIOUS
  <1>1. /\ ModeHeaders \cap NoModeHeaders = {} /\ ModeHeaders \subseteq Headers
        /\ enable \in [Headers -> Modes] /\ SharedReport \subseteq NoModeHeaders
        /\ duty \in [Headers -> Duty]
    BY HeaderAssumption, ControlAssumption DEF TypeOK, ControlTypeOK, HandBackTypeOK, Headers
  <1>2. CASE UNCHANGED vars \/ Still
    BY <1>2, LeftFrame
       DEF AsFound, vars, handBackVars, sysfsVars, controlVars, stopVars, Still
  <1>3. CASE Begun
    <2>1. \A h \in ModeHeaders : Sound(h, original[h])' /\ Sound(h, record[h])'
      BY <1>3, RetrySound DEF Begun
    <2>2. /\ Up /\ Up' /\ op'.step \notin {"take", "back"}
          /\ UNCHANGED <<enable, duty, original, taken, stopping, phase, undone, found>>
      BY <1>3 DEF Begun, Up
    <2>3. SoundInv'
      BY <2>1, <2>2 DEF SoundInv
    <2>4. SettledInv'
      BY <2>2 DEF SettledInv, Settled, AsFound
    <2> QED BY <2>3, <2>4
  <1>4. CASE Reclaim
    <2>1. /\ UNCHANGED <<duty, ledgerVars, stopping, op, phase, undone, found>>
          /\ \A h \in ModeHeaders : enable'[h] = enable[h] \/ enable'[h] = "auto"
      BY <1>1, <1>4 DEF Reclaim, controlVars, Calm
    <2> QED BY <2>1, LeftFrame DEF AsFound
  <1>5. CASE Resume
    <2>1. /\ UNCHANGED <<ledgerVars, stopping, op, phase, undone, found>>
          /\ \A h \in ModeHeaders : /\ enable'[h] = enable[h] \/ enable'[h] = "auto"
                                    /\ duty'[h] = duty[h]
      BY <1>1, <1>5 DEF Resume, Calm
    <2> QED BY <2>1, LeftFrame DEF AsFound
  <1>6. CASE Meddle
    BY <1>6 DEF Meddle, Event, Unmoved
  <1> QED BY <1>2, <1>3, <1>4, <1>5, <1>6, StepKinds, ControlStepLeft, GivesBackLeft, StopStepLeft

(* However the process ends, once ExecStopPost has replayed an up-to-date  *)
(* record no header with a mode switch is left in manual mode at a duty of *)
(* the daemon's: it is under firmware, at full speed, or at the manual     *)
(* duty it was found at, except where its hand-back failed; as long as no  *)
(* other program writes duties of its own (from_reading, hand_back).       *)
THEOREM NothingLeftDriven == Spec => [](Unmoved => LeftAsFound)
  <1> DEFINE LInv == Unmoved => SoundInv /\ SettledInv
  <1>1. Init => LInv
    <2> SUFFICES ASSUME Init PROVE SoundInv /\ SettledInv
      OBVIOUS
    <2>1. /\ \A h \in ModeHeaders : original[h] = Unknown /\ record[h] = Unknown
          /\ taken = {} /\ undone = {} /\ op.step = "idle" /\ phase = "running"
          /\ \A h \in ModeHeaders : found[h].mode = enable[h] /\ found[h].duty = duty[h]
      BY IdleType DEF Init, ControlInit, HandBackInit, Headers
    <2> QED BY <2>1 DEF SoundInv, SettledInv, Sound, Settled, AsFound, Unknown, Up
  <1>2. TypeOK /\ LedgerInv /\ LInv /\ [Next]_vars => LInv'
    BY LeftStep DEF Unmoved
  <1>3. LedgerInv /\ LInv => (Unmoved => LeftAsFound)
    <2> SUFFICES ASSUME EndedInv, SettledInv PROVE LeftAsFound
      BY SMTT(30), ZenonT(30) DEF LedgerInv
    <2> QED BY DEF EndedInv, SettledInv, Settled, AsFound, LeftAsFound, Up
  <1> QED BY <1>1, <1>2, <1>3, HwmonTypeCorrect, LedgerAlways, PTL DEF Spec

----------------------------------------------------------------------------
(* The diagnostics: what each of their steps leaves of the run. *)
Working == {"leased", "read", "testing", "settle", "restore", "restoring"}

LEMMA DiagFields ==
    ASSUME TypeOK, NEW d \in Diags, DiagStep(d)
    PROVE  /\ \A e \in Diags \ {d} : diag'[e] = diag[e]
           /\ DiagGate(d) => diag'[d].pc = "gated" /\ diag'[d].id = NoId /\ diag'[d].left = {}
           /\ DiagBegin(d) =>
                 /\ diag[d].pc = "gated" /\ UNCHANGED lease
                 /\ \/ diag'[d].pc = "idle" /\ diag'[d].id = NoId /\ diag'[d].left = {}
                       /\ UNCHANGED slot
                    \/ diag'[d].pc = "slot" /\ diag'[d].id = diag[d].id
                       /\ diag'[d].left = {"slot"} /\ ~verify_active
                       /\ slot' = [owner |-> d, live |-> TRUE]
           /\ DiagLease(d) =>
                 /\ diag[d].pc = "slot" /\ diag'[d].lapsed = diag[d].lapsed
                 /\ \/ diag'[d].pc = "leased" /\ diag'[d].id = lease'.id
                       /\ diag'[d].left = {"slot", "lease"} /\ TakeLease(FreshId, "verify")
                    \/ diag'[d].pc = "ending" /\ diag'[d].id = diag[d].id
                       /\ diag'[d].left = diag[d].left /\ UNCHANGED lease
           /\ DiagDropLease(d) =>
                 /\ diag[d].pc = "ending" /\ diag'[d].pc = "ending" /\ diag'[d].id = NoId
                 /\ diag'[d].left = diag[d].left \ {"lease"}
                 /\ diag'[d].lapsed = diag[d].lapsed /\ release_lease(diag[d].id)
           /\ DiagDropSlot(d) =>
                 /\ diag[d].pc = "ending" /\ diag'[d].pc = "ending" /\ diag'[d].id = diag[d].id
                 /\ diag'[d].left = diag[d].left \ {"slot"} /\ end_verify(d)
           /\ DiagDone(d) => diag'[d].pc = "idle" /\ diag'[d].id = NoId /\ diag'[d].left = {}
           /\ DiagRead(d) \/ DiagTest(d) \/ DiagSettled(d) \/ DiagRestore(d) \/ DiagAbandon(d) =>
                 /\ diag[d].pc \in {"leased", "read", "settle", "restore"}
                 /\ diag'[d].pc \in Working \cup {"ending"}
                 /\ diag'[d].id = diag[d].id /\ diag'[d].left = diag[d].left
                 /\ diag'[d].lapsed = diag[d].lapsed /\ diag'[d].h = diag[d].h
                 /\ DiagRead(d) \/ diag'[d].was = diag[d].was
  <1>1. diag \in [Diags -> DiagStates] /\ diag[d] \in DiagStates
    BY DEF TypeOK
  <1>2. CASE DiagGate(d)
    BY <1>1, <1>2 DEF DiagStates, NoDiag, DiagGate, DiagBegin, DiagLease, DiagRead, DiagTest,
       DiagSettled, DiagRestore, DiagAbandon, DiagDropLease, DiagDropSlot, DiagDone
  <1>3. CASE DiagBegin(d)
    BY <1>1, <1>3 DEF DiagStates, NoDiag, DiagGate, DiagBegin, DiagLease, DiagRead, DiagTest,
       DiagSettled, DiagRestore, DiagAbandon, DiagDropLease, DiagDropSlot, DiagDone
  <1>4. CASE DiagLease(d)
    <2>1. CASE TakeLease(FreshId, "verify")
               /\ diag' = [diag EXCEPT ![d].pc = "leased", ![d].id = lease'.id,
                                       ![d].left = {"slot", "lease"}]
      BY <1>1, <1>4, <2>1 DEF DiagStates, NoDiag, DiagGate, DiagBegin, DiagLease, DiagRead,
         DiagTest, DiagSettled, DiagRestore, DiagAbandon, DiagDropLease, DiagDropSlot, DiagDone
    <2>2. CASE diag' = [diag EXCEPT ![d].pc = "ending"] /\ UNCHANGED lease
      BY <1>1, <1>4, <2>2 DEF DiagStates, NoDiag, DiagGate, DiagBegin, DiagLease, DiagRead,
         DiagTest, DiagSettled, DiagRestore, DiagAbandon, DiagDropLease, DiagDropSlot, DiagDone
    <2> QED BY <1>4, <2>1, <2>2 DEF DiagLease
  <1>5. CASE DiagRead(d)
    BY <1>1, <1>5 DEF DiagStates, Working, DiagGate, DiagBegin, DiagLease, DiagRead, DiagTest,
       DiagSettled, DiagRestore, DiagAbandon, DiagDropLease, DiagDropSlot, DiagDone
  <1>6. CASE DiagTest(d) \/ DiagRestore(d)
    <2>1. PICK next \in {"testing", "restoring", "ending"} : diag' = [diag EXCEPT ![d].pc = next]
      BY <1>6 DEF DiagTest, DiagRestore, DiagWrite
    <2> QED BY <1>1, <1>6, <2>1 DEF DiagStates, Working, DiagGate, DiagBegin, DiagLease, DiagRead,
       DiagTest, DiagSettled, DiagRestore, DiagAbandon, DiagDropLease, DiagDropSlot, DiagDone
  <1>7. CASE DiagSettled(d) \/ DiagAbandon(d)
    <2>1. PICK next \in {"restore", "ending"} : diag' = [diag EXCEPT ![d].pc = next]
      BY <1>7 DEF DiagSettled, DiagAbandon
    <2> QED BY <1>1, <1>7, <2>1 DEF DiagStates, Working, DiagGate, DiagBegin, DiagLease, DiagRead,
       DiagTest, DiagSettled, DiagRestore, DiagAbandon, DiagDropLease, DiagDropSlot, DiagDone
  <1>8. CASE DiagDropLease(d)
    BY <1>1, <1>8 DEF DiagStates, NoDiag, DiagGate, DiagBegin, DiagLease, DiagRead, DiagTest,
       DiagSettled, DiagRestore, DiagAbandon, DiagDropLease, DiagDropSlot, DiagDone
  <1>9. CASE DiagDropSlot(d)
    <2>1. /\ diag[d].pc = "ending"
          /\ diag' = [diag EXCEPT ![d].left = diag[d].left \ {"slot"}] /\ end_verify(d)
      BY <1>1, <1>9 DEF DiagDropSlot
    <2>2. diag'[d].left = diag[d].left \ {"slot"} /\ diag'[d].pc = "ending"
          /\ diag'[d].id = diag[d].id /\ \A e \in Diags \ {d} : diag'[e] = diag[e]
      BY <1>1, <2>1 DEF DiagStates
    <2>3. ~(DiagRead(d) \/ DiagTest(d) \/ DiagSettled(d) \/ DiagRestore(d) \/ DiagAbandon(d)
            \/ DiagGate(d) \/ DiagBegin(d) \/ DiagLease(d))
      BY <2>1 DEF DiagGate, DiagBegin, DiagLease, DiagRead, DiagTest, DiagSettled,
         DiagRestore, DiagAbandon
    <2>4. ~DiagDone(d)
      BY <1>9 DEF DiagDone, DiagDropSlot
    <2>5. DiagDropLease(d) => diag'[d].left = diag[d].left \ {"lease"}
      BY <1>1 DEF DiagDropLease, DiagStates
    <2>6. ~DiagDropLease(d)
      BY <1>9, <2>2, <2>5 DEF DiagDropLease, DiagDropSlot
    <2> QED BY <2>1, <2>2, <2>3, <2>4, <2>6
  <1>10. CASE DiagDone(d)
    BY <1>1, <1>10 DEF DiagStates, NoDiag, DiagGate, DiagBegin, DiagLease, DiagRead, DiagTest,
       DiagSettled, DiagRestore, DiagAbandon, DiagDropLease, DiagDropSlot, DiagDone
  <1> QED BY <1>2, <1>3, <1>4, <1>5, <1>6, <1>7, <1>8, <1>9, <1>10 DEF DiagStep

(* An id nobody holds. *)
LEMMA FreshIdNew ==
    ASSUME TypeOK
    PROVE  /\ FreshId \in LeaseIds /\ FreshId # NoId
           /\ FreshId # lease.id /\ FreshId # task.id /\ \A d \in Diags : FreshId # diag[d].id
  BY FreshIdType, LeaseAssumption DEF TypeOK, ControlTypeOK

(* The verify slot belongs to a run until it gives it up or its deadman elapses. *)
SlotInv ==
    \A d \in Diags :
        /\ "slot" \in diag[d].left /\ ~diag[d].lapsed => slot.owner = d /\ slot.live
        /\ diag[d].pc = "slot" => "slot" \in diag[d].left

LEMMA SlotStep == TypeOK /\ CallerInv /\ SlotInv /\ [Next]_vars => SlotInv'
  <1> SUFFICES ASSUME TypeOK, CallerInv, SlotInv, [Next]_vars PROVE SlotInv'
    OBVIOUS
  <1>1. /\ diag \in [Diags -> DiagStates] /\ slot \in [owner : Diags \cup {"none"}, live : BOOLEAN]
        /\ "none" \notin Diags
    BY WritesAssumption DEF TypeOK
  <1>2. CASE UNCHANGED <<slot, diag>>
    BY <1>2 DEF SlotInv
  <1>3. ASSUME NEW d \in Diags, DiagStep(d) PROVE SlotInv'
    <2>1. \A e \in Diags \ {d} : diag'[e] = diag[e]
      BY <1>3, DiagFields
    <2>2. CASE DiagGate(d) \/ DiagDone(d)
      <3>1. diag'[d].left = {} /\ diag'[d].pc # "slot" /\ UNCHANGED slot
        BY <1>3, <2>2, DiagFields DEF DiagGate, DiagDone
      <3> QED BY SMTT(30), ZenonT(30), <2>1, <3>1 DEF SlotInv
    <2>3. CASE DiagBegin(d)
      <3>1. CASE UNCHANGED slot /\ diag'[d].left = {} /\ diag'[d].pc = "idle"
        BY <2>1, <3>1 DEF SlotInv
      <3>2. CASE ~verify_active /\ slot' = [owner |-> d, live |-> TRUE] /\ diag'[d].left = {"slot"}
        BY <1>1, <2>1, <3>2 DEF SlotInv, verify_active
      <3> QED BY <1>3, <2>3, <3>1, <3>2, DiagFields
    <2>4. CASE DiagLease(d)
      <3>1. /\ diag[d].pc = "slot" /\ UNCHANGED slot /\ diag'[d].lapsed = diag[d].lapsed
            /\ diag'[d].pc # "slot"
        BY <1>3, <2>4, DiagFields DEF DiagLease
      <3> QED BY <2>1, <3>1 DEF SlotInv
    <2>5. CASE DiagRead(d) \/ DiagTest(d) \/ DiagSettled(d) \/ DiagRestore(d) \/ DiagAbandon(d)
      <3>1. /\ diag'[d].left = diag[d].left /\ diag'[d].lapsed = diag[d].lapsed
            /\ diag'[d].pc # "slot"
        BY <1>3, <2>5, DiagFields DEF Working
      <3>2. slot' = slot \/ slot' = [slot EXCEPT !.live = TRUE]
        BY <2>5 DEF DiagRead, DiagTest, DiagSettled, DiagRestore, DiagAbandon
      <3> QED BY <1>1, <2>1, <3>1, <3>2 DEF SlotInv
    <2>6. CASE DiagDropLease(d)
      <3>1. /\ diag'[d].left \subseteq diag[d].left /\ diag'[d].lapsed = diag[d].lapsed
            /\ diag'[d].pc = "ending" /\ UNCHANGED slot
        BY ZenonT(60), <1>3, <2>6, DiagFields DEF DiagDropLease
      <3> QED BY <2>1, <3>1 DEF SlotInv
    <2>7. CASE DiagDropSlot(d)
      <3>1. /\ "slot" \notin diag'[d].left /\ diag'[d].pc = "ending"
            /\ slot.owner # d => slot' = slot
        BY <1>3, <2>7, DiagFields DEF end_verify
      <3> QED BY <2>1, <3>1 DEF SlotInv
    <2> QED BY <1>3, <2>2, <2>3, <2>4, <2>5, <2>6, <2>7 DEF DiagStep
  <1>4. CASE ControlStep
    <2>1. UNCHANGED slot
      BY <1>4 DEF ControlStep
    <2>2. \/ UNCHANGED diag
          \/ op.by \in Diags /\ \E pc \in {"settle", "ending"} : diag' = [diag EXCEPT ![op.by].pc = pc]
      BY <1>1, <1>4 DEF ControlStep
    <2> QED BY <1>1, <1>2, <2>1, <2>2 DEF SlotInv, DiagStates
  <1>5. CASE StopStep
    <2>1. UNCHANGED <<slot, diag>> \/ \A d \in Diags : diag'[d] = NoDiag
      BY <1>5 DEF StopStep, StopBegin, StopFloor, FloorLatch, FloorRaise, FloorEnd, StopFlag,
             StopSnapshot, StopHandBack, Exit, ExecStopPost, ExecStopPostDone, Start, actorVars
    <2> QED BY <1>2, <2>1 DEF SlotInv, NoDiag
  <1>6. CASE Deadman
    <2>1. /\ slot.owner \in Diags /\ diag' = [diag EXCEPT ![slot.owner].lapsed = TRUE]
      BY <1>1, <1>6 DEF Deadman, verify_active
    <2>2. \A d \in Diags : /\ diag'[d].left = diag[d].left /\ diag'[d].pc = diag[d].pc
                           /\ ~diag'[d].lapsed => ~diag[d].lapsed /\ d # slot.owner
      BY SMTT(30), ZenonT(30), <1>1, <2>1 DEF DiagStates
    <2> QED BY <2>2 DEF SlotInv
  <1>7. CASE (EnvStep /\ ~Deadman) \/ EngineStep \/ UNCHANGED vars
    BY <1>2, <1>7 DEF EnvStep, Reclaim, Meddle, ChipAnswers, Resume, Expires, ForceChange,
       ProfileChange, DiskChange, EngineStep, TickApply, TickIdle, TickForce, TaskLease,
       TaskForceLease, TaskWrite, TaskListUnheld, TaskGiveBack, TaskEnd, vars, actorVars
  <1> QED BY <1>3, <1>4, <1>5, <1>6, <1>7 DEF Next

(* The leases the diagnostics hold: a run holds one from its take to its   *)
(* end, nobody shares it, and a lease a run still holds is a diagnostic's. *)
HoldsOwn(d) ==
    /\ diag[d].id # NoId <=> "lease" \in diag[d].left
    /\ diag[d].pc \in {"idle", "gated", "slot"} => diag[d].id = NoId
    /\ diag[d].pc \in Working => diag[d].id # NoId
    /\ diag[d].id # NoId => diag[d].id # task.id /\ (lease.id = diag[d].id => lease.owner = "verify")

HolderInv ==
    /\ \A d \in Diags : HoldsOwn(d)
    /\ \A d, e \in Diags : d # e /\ diag[d].id # NoId => diag[d].id # diag[e].id

(* What the engine's steps do to the lease, and under which lease they     *)
(* begin a call.                                                           *)
LEMMA EngineLease ==
    ASSUME TypeOK, EngineStep
    PROVE  /\ UNCHANGED diag
           /\ UNCHANGED lease \/ lease' = NoLease \/ lease'.id = FreshId
           /\ \/ task'.id \in {task.id, NoId}
              \/ task'.id = FreshId
              \/ task'.id = lease.id /\ lease.owner # "verify" /\ UNCHANGED lease
           /\ \/ UNCHANGED <<op, duty>>
              \/ Free /\ (lease'.id = FreshId \/ (UNCHANGED lease /\ validate_lease(task.id)))
  <1>0. ASSUME NEW owner, TakeLease(FreshId, owner) PROVE lease'.id = FreshId
    BY <1>0 DEF TakeLease
  <1>1. task \in Tasks /\ lease \in Leases
    BY SMTT(30), ZenonT(30) DEF TypeOK, ControlTypeOK
  <1>2. CASE TickApply \/ TickForce
    BY ZenonT(60), <1>1, <1>2 DEF TickApply, TickForce, NoTask, handBackVars, sysfsVars, controlVars
  <1>3. CASE TickIdle
    BY <1>1, <1>3 DEF TickIdle, vars, handBackVars, sysfsVars, controlVars, actorVars
  <1>4. CASE TaskLease
    <2>1. UNCHANGED <<diag, op, duty>>
      BY <1>4 DEF TaskLease, handBackVars, sysfsVars, controlVars
    <2>2. \/ UNCHANGED lease /\ task' = NoTask
          \/ UNCHANGED lease /\ lease.owner # "verify"
             /\ task' = [task EXCEPT !.step = "write", !.id = lease.id]
          \/ TakeLease(FreshId, "engine") /\ task' = [task EXCEPT !.step = "write", !.id = lease'.id]
      BY <1>4 DEF TaskLease
    <2>3. NoTask.id = NoId
      BY DEF NoTask
    <2>4. CASE UNCHANGED lease /\ task' = NoTask
      BY <2>1, <2>3, <2>4
    <2>5. CASE UNCHANGED lease /\ lease.owner # "verify"
               /\ task' = [task EXCEPT !.step = "write", !.id = lease.id]
      <3>1. task'.id = lease.id
        BY <1>1, <2>5 DEF Tasks
      <3> QED BY <2>1, <2>5, <3>1
    <2>6. CASE lease'.id = FreshId /\ task' = [task EXCEPT !.step = "write", !.id = lease'.id]
      <3>1. task'.id = lease'.id
        BY <1>1, <2>6 DEF Tasks
      <3> QED BY <2>1, <2>6, <3>1
    <2> QED BY <1>0, <2>2, <2>4, <2>5, <2>6
  <1>5. CASE TaskForceLease
    <2>1. /\ UNCHANGED <<diag, op, duty>>
          /\ \/ UNCHANGED lease /\ task' = NoTask
             \/ TakeLease(FreshId, "thermal") /\ \E p : task' = [task EXCEPT !.step = "write",
                     !.id = lease'.id, !.held = {}, !.pct = p]
      BY <1>5 DEF TaskForceLease, handBackVars, sysfsVars
    <2>2. NoTask.id = NoId
      BY DEF NoTask
    <2>3. CASE UNCHANGED lease /\ task' = NoTask
      BY <2>1, <2>2, <2>3
    <2>4. CASE lease'.id = FreshId /\ \E p : task' = [task EXCEPT !.step = "write",
                     !.id = lease'.id, !.held = {}, !.pct = p]
      <3>1. task'.id = lease'.id
        BY <1>1, <2>4 DEF Tasks
      <3> QED BY <2>1, <2>4, <3>1
    <2> QED BY <1>0, <2>1, <2>3, <2>4
  <1>6. CASE TaskWrite
    <2>1. Free /\ UNCHANGED diag
      BY <1>6 DEF TaskWrite
    <2>2. \/ /\ validate_lease(task.id) /\ UNCHANGED lease
             /\ \E h : task' = [task EXCEPT !.todo = @ \ {h}]
          \/ UNCHANGED <<lease, op, duty>> /\ \E h : task' = [task EXCEPT !.todo = @ \ {h}]
          \/ /\ TakeLease(FreshId, "thermal")
             /\ \E h : task' = [task EXCEPT !.todo = @ \ {h}, !.id = lease'.id]
      BY <1>6 DEF TaskWrite, sysfsVars, controlVars
    <2>3. ASSUME NEW h, task' = [task EXCEPT !.todo = @ \ {h}] PROVE task'.id = task.id
      BY <1>1, <2>3 DEF Tasks
    <2>4. ASSUME NEW h, task' = [task EXCEPT !.todo = @ \ {h}, !.id = lease'.id]
          PROVE  task'.id = lease'.id
      BY <1>1, <2>4 DEF Tasks
    <2> QED BY <1>0, <2>1, <2>2, <2>3, <2>4
  <1>7. CASE TaskListUnheld
    BY <1>1, <1>7 DEF TaskListUnheld, Tasks, handBackVars, sysfsVars, controlVars
  <1>8. CASE TaskGiveBack
    <2>1. Free /\ UNCHANGED <<diag, lease>>
          /\ \E h : task' = [task EXCEPT !.back = @ \ {h}]
      BY <1>8 DEF TaskGiveBack
    <2>2. validate_lease(task.id) \/ UNCHANGED <<op, duty>>
      BY <1>8 DEF TaskGiveBack, sysfsVars, controlVars
    <2> QED BY <1>1, <2>1, <2>2 DEF Tasks
  <1>9. CASE TaskEnd
    BY <1>1, <1>9 DEF TaskEnd, release_lease, NoTask, handBackVars, sysfsVars, controlVars
  <1> QED BY <1>2, <1>3, <1>4, <1>5, <1>6, <1>7, <1>8, <1>9 DEF EngineStep

LEMMA HolderStep == TypeOK /\ HolderInv /\ [Next]_vars => HolderInv'
  <1> SUFFICES ASSUME TypeOK, HolderInv, [Next]_vars PROVE HolderInv'
    OBVIOUS
  <1>1. /\ diag \in [Diags -> DiagStates] /\ lease \in Leases
    BY DEF TypeOK, ControlTypeOK
  <1>2. /\ FreshId \in LeaseIds /\ FreshId # NoId
        /\ FreshId # lease.id /\ FreshId # task.id /\ \A d \in Diags : FreshId # diag[d].id
    BY FreshIdNew
  <1>3. CASE EngineStep
    <2>1. /\ UNCHANGED diag
          /\ UNCHANGED lease \/ lease' = NoLease \/ lease'.id = FreshId
          /\ \/ task'.id \in {task.id, NoId}
             \/ task'.id = FreshId
             \/ task'.id = lease.id /\ lease.owner # "verify" /\ UNCHANGED lease
      BY <1>3, EngineLease
    <2> QED BY <1>2, <2>1 DEF HolderInv, HoldsOwn, NoLease
  <1>4. ASSUME NEW d \in Diags, DiagStep(d) PROVE HolderInv'
    <2>1. \A e \in Diags \ {d} : diag'[e] = diag[e]
      BY SMTT(30), ZenonT(30), <1>4, DiagFields
    <2>2. UNCHANGED task
      BY <1>4 DEF DiagStep, DiagGate, DiagBegin, DiagLease, DiagRead, DiagTest,
         DiagSettled, DiagRestore, DiagAbandon, DiagDropLease, DiagDropSlot, DiagDone
    <2>3. CASE DiagGate(d) \/ DiagDone(d)
      <3>1. diag'[d].left = {} /\ diag'[d].id = NoId /\ diag'[d].pc \in {"idle", "gated"}
            /\ UNCHANGED lease
        BY <1>4, <2>3, DiagFields DEF DiagGate, DiagDone
      <3> QED BY SMTT(30), ZenonT(30), <2>1, <2>2, <3>1 DEF HolderInv, HoldsOwn, Working
    <2>4. CASE DiagBegin(d)
      <3>1. /\ "lease" \notin diag'[d].left /\ diag'[d].id = NoId
            /\ diag'[d].pc \in {"idle", "slot"} /\ UNCHANGED lease
        BY <1>4, <2>4, DiagFields DEF HolderInv, HoldsOwn
      <3> QED BY <2>1, <2>2, <3>1 DEF HolderInv, HoldsOwn, Working
    <2>5. CASE DiagLease(d)
      <3>1. CASE /\ diag'[d].pc = "leased" /\ diag'[d].id = lease'.id
                 /\ diag'[d].left = {"slot", "lease"} /\ TakeLease(FreshId, "verify")
        <4>1. lease'.id = FreshId /\ lease'.owner = "verify"
          BY <3>1 DEF TakeLease
        <4>2. diag'[d].id = FreshId
          BY <3>1, <4>1
        <4>3. HoldsOwn(d)'
          BY <1>2, <2>2, <3>1, <4>1, <4>2 DEF HoldsOwn
        <4>4. \A e \in Diags \ {d} : HoldsOwn(e)'
          BY <1>2, <2>1, <2>2, <4>1 DEF HoldsOwn, HolderInv
        <4>5. ASSUME NEW e \in Diags, NEW x \in Diags, e # x, diag'[e].id # NoId
              PROVE  diag'[e].id # diag'[x].id
          BY <1>2, <2>1, <4>2, <4>5 DEF HolderInv
        <4> QED BY <4>3, <4>4, <4>5 DEF HolderInv
      <3>2. CASE /\ diag'[d].pc = "ending" /\ diag'[d].id = diag[d].id
                 /\ diag'[d].left = diag[d].left /\ UNCHANGED lease
        BY <2>1, <2>2, <3>2 DEF HolderInv, HoldsOwn, Working
      <3> QED BY <1>4, <2>5, <3>1, <3>2, DiagFields
    <2>6. CASE DiagRead(d) \/ DiagTest(d) \/ DiagSettled(d) \/ DiagRestore(d) \/ DiagAbandon(d)
      <3>1. /\ diag[d].pc \in Working /\ diag'[d].pc \in Working \cup {"ending"}
            /\ diag'[d].id = diag[d].id /\ diag'[d].left = diag[d].left
            /\ UNCHANGED lease
        BY <1>4, <2>6, DiagFields
           DEF Working, DiagRead, DiagTest, DiagSettled, DiagRestore, DiagAbandon
      <3> QED BY <2>1, <2>2, <3>1 DEF HolderInv, HoldsOwn, Working
    <2>7. CASE DiagDropLease(d)
      <3>1. /\ diag'[d].pc = "ending" /\ diag'[d].id = NoId /\ "lease" \notin diag'[d].left
            /\ lease' = lease \/ lease' = NoLease
        BY <1>4, <2>7, DiagFields DEF release_lease
      <3> QED BY <2>1, <2>2, <3>1 DEF HolderInv, HoldsOwn, Working, NoLease
    <2>8. CASE DiagDropSlot(d)
      <3>1. /\ diag'[d].pc = "ending" /\ diag[d].pc = "ending" /\ diag'[d].id = diag[d].id
            /\ "lease" \in diag'[d].left <=> "lease" \in diag[d].left
            /\ UNCHANGED lease
        BY <1>4, <2>8, DiagFields DEF DiagDropSlot
      <3> QED BY <2>1, <2>2, <3>1 DEF HolderInv, HoldsOwn, Working
    <2> QED BY <1>4, <2>3, <2>4, <2>5, <2>6, <2>7, <2>8 DEF DiagStep
  <1>5. CASE ControlStep
    <2>1. UNCHANGED <<task, lease>>
      BY <1>5 DEF ControlStep
    <2>2. CASE UNCHANGED diag
      BY <2>1, <2>2 DEF HolderInv, HoldsOwn
    <2>3. ASSUME op.by \in Diags, OpReturn, ~UNCHANGED diag PROVE HolderInv'
      <3>1. CASE diag[op.by].pc = "testing" /\ diag' = [diag EXCEPT ![op.by].pc = "settle"]
        <4>1. \A d \in Diags : /\ diag'[d].id = diag[d].id /\ diag'[d].left = diag[d].left
                               /\ diag'[d].pc = diag[d].pc \/ (diag[d].pc = "testing" /\ diag'[d].pc = "settle")
          BY <1>1, <3>1 DEF DiagStates
        <4> QED BY <2>1, <4>1 DEF HolderInv, HoldsOwn, Working
      <3>2. CASE diag' = [diag EXCEPT ![op.by].pc = "ending"]
        <4>1. \A d \in Diags : /\ diag'[d].id = diag[d].id /\ diag'[d].left = diag[d].left
                               /\ diag'[d].pc = diag[d].pc \/ diag'[d].pc = "ending"
          BY <1>1, <3>2 DEF DiagStates
        <4> QED BY <2>1, <4>1 DEF HolderInv, HoldsOwn, Working
      <3> QED BY <1>1, <1>5, <2>3, <3>1, <3>2 DEF ControlStep
    <2> QED BY <1>5, <2>2, <2>3 DEF ControlStep
  <1>6. CASE StopStep
    <2>1. UNCHANGED <<diag, task, lease>> \/ \A d \in Diags : diag'[d] = NoDiag
      BY <1>6 DEF StopStep, StopBegin, StopFloor, FloorLatch, FloorRaise, FloorEnd, StopFlag,
             StopSnapshot, StopHandBack, Exit, ExecStopPost, ExecStopPostDone, Start, actorVars
    <2> QED BY <2>1 DEF HolderInv, HoldsOwn, NoDiag, Working
  <1>7. CASE EnvStep \/ UNCHANGED vars
    <2>1. /\ UNCHANGED task
          /\ lease' = lease \/ lease' = [lease EXCEPT !.live = FALSE]
          /\ diag' = diag \/ diag' = [diag EXCEPT ![slot.owner].lapsed = TRUE]
      BY <1>7 DEF EnvStep, Reclaim, Meddle, ChipAnswers, Resume, Expires, Expire, Deadman,
             ForceChange, ProfileChange, DiskChange, vars, actorVars
    <2>2. \A d \in Diags : diag'[d].id = diag[d].id /\ diag'[d].left = diag[d].left
                           /\ diag'[d].pc = diag[d].pc
      BY <1>1, <2>1 DEF DiagStates
    <2>3. lease'.id = lease.id /\ lease'.owner = lease.owner
      BY <1>1, <2>1 DEF Leases
    <2> QED BY <2>1, <2>2, <2>3 DEF HolderInv, HoldsOwn
  <1> QED BY <1>3, <1>4, <1>5, <1>6, <1>7 DEF Next

(* A diagnostic's test.  While a run waits for a call, the call is its own *)
(* and of its own header; when it has its result it holds the lease, and   *)
(* whoever begins a call after that holds another one, or none is needed:  *)
(* the exit floor, which has latched its headers by then, and the stop.    *)
Owns(d) == validate_lease(diag[d].id)

CallOf(d) ==
    /\ op.by = d /\ op.h = diag[d].h
    /\ op.step \in {"note", "take", "enable", "check", "write", "done"}

TestOf(d) ==
    /\ exitMin[diag[d].h] = NoDuty => op.pct = verify_test_duty(diag[d].was)
    /\ op.ok => op.step = "done"
    /\ op.ok /\ exitMin[diag[d].h] = NoDuty /\ ~stopping =>
          duty[diag[d].h] = Stores[verify_test_duty(diag[d].was)]

HeldAtTest(d) ==
    exitMin[diag[d].h] = NoDuty /\ ~stopping =>
        duty[diag[d].h] = Stores[verify_test_duty(diag[d].was)]

RunInv(d) ==
    /\ diag[d].pc \in {"testing", "restoring"} => CallOf(d)
    /\ diag[d].pc = "testing" => TestOf(d)
    /\ diag[d].pc \in {"settle", "restore"} /\ Owns(d) =>
          op.step \in {"idle", "floor"} /\ HeldAtTest(d)
    /\ ~Up => diag[d].pc = "idle"

TestInv ==
    /\ \A d \in Diags : RunInv(d)
    /\ op.step = "floor" => \A h \in NoModeHeaders : exitMin[h] # NoDuty
    /\ phase \in {"flagged", "hand_back"} => stopping

(* The run of e goes on as it was: neither its call nor its header is touched. *)
Same(e) == diag'[e].pc = diag[e].pc /\ diag'[e].h = diag[e].h /\ diag'[e].was = diag[e].was

LEMMA RunFrame ==
    ASSUME NEW e \in Diags, RunInv(e), UNCHANGED <<op, duty, exitMin, stopping, phase>>,
           \/ Same(e) /\ (Owns(e)' => Owns(e))
           \/ diag'[e].pc \notin {"testing", "restoring", "settle", "restore"} /\ Up
    PROVE  RunInv(e)'
  BY DEF RunInv, CallOf, TestOf, HeldAtTest, Same, Up

(* While nobody holds the lock, nobody waits for a call. *)
LEMMA FreeNoCall ==
    ASSUME Free, TestInv PROVE \A e \in Diags : diag[e].pc \notin {"testing", "restoring"}
  BY WritesAssumption DEF Free, TestInv, RunInv, CallOf, Idle

LEMMA EngineStepTest ==
    ASSUME TypeOK, HolderInv, TestInv, EngineStep PROVE TestInv'
  <1>1. /\ FreshId # NoId /\ \A d \in Diags : FreshId # diag[d].id
    BY FreshIdNew
  <1>2. /\ UNCHANGED diag
        /\ UNCHANGED lease \/ lease' = NoLease \/ lease'.id = FreshId
        /\ \/ UNCHANGED <<op, duty>>
           \/ Free /\ (lease'.id = FreshId \/ (UNCHANGED lease /\ validate_lease(task.id)))
    BY EngineLease
  <1>3. UNCHANGED <<exitMin, stopping, phase>> /\ (op' = op \/ op'.step # "floor")
    <2>1. CASE Still
      BY <2>1 DEF Still
    <2>2. CASE Begun
      BY <2>2 DEF Begun
    <2>3. CASE GivesBack
      BY ZenonT(60), <2>3 DEF GivesBack, HandBackHeader, Idle
    <2> QED BY <2>1, <2>2, <2>3, EngineMoves
  <1>4. \A e \in Diags : diag[e].pc \in {"settle", "restore"} => (Owns(e)' => Owns(e))
    BY <1>1, <1>2 DEF Owns, validate_lease, HolderInv, HoldsOwn, Working, NoLease
  <1>5. CASE UNCHANGED <<op, duty>>
    <2>1. \A e \in Diags : RunInv(e)'
      BY <1>2, <1>3, <1>4, <1>5 DEF TestInv, RunInv, CallOf, TestOf, HeldAtTest, Up
    <2> QED BY <1>3, <1>5, <2>1 DEF TestInv
  <1>6. CASE Free /\ (lease'.id = FreshId \/ (UNCHANGED lease /\ validate_lease(task.id)))
    <2>1. \A e \in Diags : diag[e].pc \in {"settle", "restore"} => ~Owns(e)'
      BY <1>1, <1>2, <1>6 DEF Owns, validate_lease, HolderInv, HoldsOwn, Working
    <2>2. \A e \in Diags : diag[e].pc \notin {"testing", "restoring"}
      BY <1>6, FreeNoCall
    <2>3. \A e \in Diags : RunInv(e)'
      BY <1>2, <1>3, <2>1, <2>2 DEF TestInv, RunInv, Up
    <2> QED BY <1>3, <2>3 DEF TestInv
  <1> QED BY <1>2, <1>5, <1>6

(* A run begins a call, under its own lease, when nobody holds the lock. *)
LEMMA DiagWriteTest ==
    ASSUME TypeOK, HolderInv, TestInv, NEW d \in Diags, NEW pct \in Duty,
           NEW next \in {"testing", "restoring"}, DiagWrite(d, pct, next),
           diag[d].pc \in {"read", "restore"}, Up, Free,
           next = "testing" => pct = verify_test_duty(diag[d].was),
           UNCHANGED <<lease, stopping, task, stopVars>>
    PROVE  TestInv'
  <1>1. /\ ControlTypeOK /\ diag \in [Diags -> DiagStates] /\ diag[d].h \in Headers
        /\ diag[d].id # NoId /\ exitMin \in [Headers -> Duty \cup {NoDuty}]
    BY DEF TypeOK, ControlTypeOK, HolderInv, HoldsOwn, Working
  <1>2. \A e \in Diags : diag[e].pc \notin {"testing", "restoring"}
    BY FreeNoCall
  <1>3. CASE validate_lease(diag[d].id)
    <2>1. /\ set_pwm_from(ws, lease.owner, d, diag[d].h, pct, FALSE)
          /\ diag' = [diag EXCEPT ![d].pc = next]
      BY <1>3 DEF DiagWrite, set_pwm
    <2>2. /\ op'.by = d /\ op'.h = diag[d].h /\ op'.pct = effective_pct(diag[d].h, pct)
          /\ op'.step \in {"done", "note", "check"}
          /\ op'.ok => op'.step = "done" /\ lease.owner # "verify"
          /\ UNCHANGED exitMin
      BY ZenonT(60), <1>1, <2>1, SetPwmCall
    <2>3. lease.owner = "verify"
      BY <1>1, <1>3 DEF validate_lease, HolderInv, HoldsOwn
    <2>4. exitMin[diag[d].h] = NoDuty => effective_pct(diag[d].h, pct) = pct
      BY DEF effective_pct, NoDuty, Duty
    <2>5. /\ diag'[d].pc = next /\ diag'[d].h = diag[d].h /\ diag'[d].was = diag[d].was
          /\ \A e \in Diags \ {d} : diag'[e] = diag[e]
      BY <1>1, <2>1 DEF DiagStates
    <2>6. RunInv(d)'
      BY <2>2, <2>3, <2>4, <2>5 DEF RunInv, CallOf, TestOf, Up, stopVars
    <2>7. ASSUME NEW e \in Diags \ {d} PROVE RunInv(e)'
      <3>1. diag[e].pc \in {"settle", "restore"} => ~Owns(e)
        BY <1>1, <1>3 DEF Owns, validate_lease, HolderInv
      <3> QED BY <1>2, <2>5, <3>1 DEF RunInv, TestInv, Owns, validate_lease, Up, stopVars
    <2> QED BY <2>2, <2>6, <2>7 DEF TestInv, stopVars
  <1>4. CASE ~validate_lease(diag[d].id)
    <2>1. /\ diag' = [diag EXCEPT ![d].pc = "ending"] /\ UNCHANGED <<sysfsVars, controlVars>>
      BY <1>4 DEF DiagWrite
    <2>2. diag'[d].pc = "ending" /\ \A e \in Diags \ {d} : diag'[e] = diag[e]
      BY <1>1, <2>1 DEF DiagStates
    <2>3. UNCHANGED <<op, duty, exitMin, stopping, phase>>
      BY <2>1 DEF sysfsVars, controlVars, stopVars
    <2>4. \A e \in Diags : RunInv(e)'
      BY <2>2, <2>3, RunFrame DEF TestInv, Same, Owns, validate_lease
    <2> QED BY <2>3, <2>4 DEF TestInv
  <1> QED BY <1>3, <1>4

LEMMA DiagStepTest ==
    ASSUME TypeOK, HolderInv, TestInv, NEW d \in Diags, DiagStep(d) PROVE TestInv'
  <1>1. /\ diag \in [Diags -> DiagStates] /\ \A e \in Diags \ {d} : diag'[e] = diag[e]
    BY DiagFields DEF TypeOK
  <1>2. /\ FreshId # NoId /\ \A e \in Diags : FreshId # diag[e].id
    BY FreshIdNew
  <1>3. CASE DiagTest(d)
    <2>1. verify_test_duty(diag[d].was) \in Duty
      BY DEF verify_test_duty, Duty
    <2> QED BY <1>3, <2>1, DiagWriteTest DEF DiagTest
  <1>4. CASE DiagRestore(d)
    <2>1. diag[d].was \in Duty
      BY <1>1 DEF DiagStates
    <2> QED BY <1>4, <2>1, DiagWriteTest DEF DiagRestore
  <1>5. CASE ~DiagTest(d) /\ ~DiagRestore(d)
    <2>1. UNCHANGED <<op, duty, exitMin, stopping, phase>>
      BY <1>5 DEF DiagStep, DiagGate, DiagBegin, DiagLease, DiagRead, DiagSettled,
           DiagAbandon, DiagDropLease, DiagDropSlot, DiagDone, handBackVars, sysfsVars,
           controlVars, stopVars
    <2>2. lease' = lease \/ lease' = NoLease \/ lease'.id = FreshId
      <3>1. lease' = lease \/ lease' = NoLease \/ TakeLease(FreshId, "verify")
        BY <1>5 DEF DiagStep, DiagGate, DiagBegin, DiagLease, DiagRead, DiagSettled,
             DiagAbandon, DiagDropLease, DiagDropSlot, DiagDone, release_lease
      <3>2. TakeLease(FreshId, "verify") => lease'.id = FreshId
        BY DEF TakeLease
      <3> QED BY <3>1, <3>2
    <2>3. \A e \in Diags \ {d} :
             diag[e].pc \in {"settle", "restore"} => (Owns(e)' => Owns(e))
      BY <1>1, <1>2, <2>2 DEF Owns, validate_lease, HolderInv, HoldsOwn, Working, NoLease
    <2>4. \A e \in Diags \ {d} : RunInv(e)'
      BY <1>1, <2>1, <2>3 DEF TestInv, RunInv, CallOf, TestOf, HeldAtTest, Up
    <2>5. RunInv(d)'
      <3>1. CASE DiagSettled(d)
        <4>1. /\ diag[d].pc = "settle" /\ diag'[d].pc \in {"restore", "ending"} /\ Up
              /\ UNCHANGED lease
          BY <1>1, <3>1 DEF DiagSettled, DiagStates
        <4>2. diag'[d].id = diag[d].id /\ diag'[d].h = diag[d].h /\ diag'[d].was = diag[d].was
          BY <1>1, <3>1 DEF DiagSettled, DiagStates
        <4> QED BY <2>1, <4>1, <4>2
                DEF TestInv, RunInv, HeldAtTest, Owns, validate_lease, Up
      <3>2. CASE ~DiagSettled(d)
        <4>1. diag'[d].pc \notin {"testing", "restoring", "settle", "restore"}
          <5>1. CASE DiagRead(d) \/ DiagAbandon(d)
            BY <1>1, <5>1 DEF DiagRead, DiagAbandon, DiagStates
          <5>2. CASE ~DiagRead(d) /\ ~DiagAbandon(d)
            BY <1>5, <3>2, <5>2, DiagFields DEF DiagStep
          <5> QED BY <5>1, <5>2
        <4>2. Up
          <5>1. CASE DiagDone(d)
            BY <5>1 DEF DiagDone, TestInv, RunInv
          <5>2. CASE ~DiagDone(d)
            BY <1>5, <3>2, <5>2 DEF DiagStep, DiagGate, DiagBegin, DiagLease, DiagRead,
               DiagAbandon, DiagDropLease, DiagDropSlot, Up
          <5> QED BY <5>1, <5>2
        <4> QED BY <2>1, <4>1, <4>2, RunFrame DEF TestInv
      <3> QED BY <3>1, <3>2
    <2> QED BY <2>1, <2>4, <2>5 DEF TestInv
  <1> QED BY <1>3, <1>4, <1>5

LEMMA ControlStepTest ==
    ASSUME TypeOK, CallerInv, TestInv, ControlStep PROVE TestInv'
  <1>1. /\ ControlTypeOK /\ op \in Calls /\ diag \in [Diags -> DiagStates]
        /\ Idle.step = "idle"
    BY IdleType DEF TypeOK, ControlTypeOK
  <1>2. Up /\ Up' /\ UNCHANGED <<lease, stopping, phase>>
    BY DEF ControlStep, Up, stopVars
  <1>3. CASE OpNote \/ OpTake \/ OpEnable \/ OpCheck \/ OpWrite \/ OpBack
    <2>1. /\ op'.by = op.by /\ op'.h = op.h /\ op'.pct = op.pct /\ op.step \notin {"idle", "floor"}
          /\ op'.step \in {"note", "take", "enable", "check", "write", "done"}
          /\ op.step # "done"
          /\ op.step # "back" =>
                op'.ok = op.ok \/ (WriteLands(op.h, op.pct) /\ op'.step = "done")
      BY <1>1, <1>3, OpMoves
    <2>2. UNCHANGED <<diag, exitMin>>
      <3>1. ~OpReturn
        BY <2>1 DEF OpReturn
      <3> QED BY <1>3, <3>1 DEF ControlStep, OpNote, OpTake, OpEnable, OpCheck, OpWrite, OpBack
    <2>3. ASSUME NEW e \in Diags PROVE RunInv(e)'
      <3>1. CASE diag[e].pc = "testing"
        <4>1. CallOf(e) /\ TestOf(e) /\ diag[e].h \in Headers
          BY <3>1 DEF TestInv, RunInv, TypeOK
        <4>2. ~op.ok /\ op.step # "back" /\ op.h = diag[e].h
          BY <2>1, <4>1 DEF CallOf, TestOf
        <4>3. op'.ok => WriteLands(op.h, op.pct) /\ op'.step = "done"
          BY <2>1, <4>2
        <4>4. op'.ok => duty'[op.h] = Stores[op.pct]
          BY <4>1, <4>2, <4>3 DEF WriteLands
        <4> QED BY <1>2, <2>1, <2>2, <3>1, <4>1, <4>2, <4>3, <4>4 DEF RunInv, CallOf, TestOf
      <3>2. CASE diag[e].pc = "restoring"
        <4>1. CallOf(e)
          BY <3>2 DEF TestInv, RunInv
        <4> QED BY <1>2, <2>1, <2>2, <3>2, <4>1 DEF RunInv, CallOf
      <3>3. CASE diag[e].pc \notin {"testing", "restoring"}
        BY <1>2, <2>1, <2>2, <3>3 DEF TestInv, RunInv, Owns, validate_lease
      <3> QED BY <3>1, <3>2, <3>3
    <2> QED BY <1>2, <2>1, <2>2, <2>3 DEF TestInv
  <1>4. CASE OpReturn
    <2>1. /\ op.step = "done" /\ op'.step = "idle" /\ UNCHANGED <<duty, exitMin>>
      BY <1>1, <1>4 DEF OpReturn, sysfsVars
    <2>2. diag' = IF op.by \notin Diags THEN diag
                  ELSE [diag EXCEPT ![op.by].pc =
                          IF diag[op.by].pc = "testing" /\ op.ok THEN "settle" ELSE "ending"]
      BY <1>1, <1>4, <2>1
         DEF ControlStep, OpNote, OpTake, OpEnable, OpCheck, OpWrite, OpBack
    <2>3. ASSUME NEW e \in Diags PROVE RunInv(e)'
      <3>1. CASE e = op.by
        <4>1. /\ diag'[e].h = diag[e].h /\ diag'[e].was = diag[e].was
              /\ \/ diag'[e].pc = "settle" /\ diag[e].pc = "testing" /\ op.ok
                 \/ diag'[e].pc = "ending"
          BY <1>1, <2>2, <3>1 DEF DiagStates
        <4> QED BY <1>2, <2>1, <4>1 DEF TestInv, RunInv, TestOf, HeldAtTest
      <3>2. CASE e # op.by
        <4>1. diag'[e] = diag[e] /\ diag[e].pc \notin {"testing", "restoring"}
          BY <1>1, <2>2, <3>2 DEF TestInv, RunInv, CallOf
        <4> QED BY <1>2, <2>1, <4>1 DEF TestInv, RunInv, Owns, validate_lease
      <3> QED BY <3>1, <3>2
    <2> QED BY <1>2, <2>1, <2>3 DEF TestInv
  <1> QED BY <1>3, <1>4 DEF ControlStep

LEMMA StopStepTest ==
    ASSUME TypeOK, LedgerInv, TestInv, StopStep PROVE TestInv'
  <1>1. /\ ControlTypeOK /\ op \in Calls /\ diag \in [Diags -> DiagStates]
        /\ Idle.step = "idle" /\ EndedInv /\ floorTodo \subseteq NoModeHeaders
        /\ SharedReport \subseteq NoModeHeaders /\ NoModeHeaders \subseteq Headers
        /\ exitMin \in [Headers -> Duty \cup {NoDuty}] /\ ExitFloor \in Duty
        /\ duty \in [Headers -> Duty] /\ NoDuty \notin Duty
    BY IdleType, FloorIsDuty, ControlAssumption
       DEF TypeOK, ControlTypeOK, HandBackTypeOK, LedgerInv, Headers
  <1>2. CASE StopBegin \/ StopFloor \/ StopFlag \/ StopSnapshot
    <2>1. /\ Up /\ Up' /\ UNCHANGED <<lease, duty, op, exitMin, diag>>
          /\ \/ phase' \in {"draining", "floor"} /\ UNCHANGED stopping
             \/ phase' = "flagged" /\ stopping'
             \/ phase' = "hand_back" /\ phase = "flagged" /\ UNCHANGED stopping
      BY <1>2 DEF StopBegin, StopFloor, StopFlag, StopSnapshot, Up, handBackVars, sysfsVars,
             controlVars, actorVars
    <2>2. \A e \in Diags : RunInv(e)'
      BY <2>1 DEF TestInv, RunInv, CallOf, TestOf, HeldAtTest, Owns, validate_lease
    <2> QED BY <2>1, <2>2 DEF TestInv
  <1>3. CASE FloorLatch
    <2>1. /\ Free /\ Up /\ Up' /\ op'.step = "floor"
          /\ UNCHANGED <<lease, duty, diag, stopping, phase>>
          /\ exitMin' = [h \in Headers |->
                 IF h \notin NoModeHeaders THEN exitMin[h]
                 ELSE IF exitRecord[h] = NotWritten THEN ExitFloor
                 ELSE exit_duty(exitRecord[h], ExitFloor)]
      BY <1>3 DEF FloorLatch, LatchExitFloor, Idle, sysfsVars, actorVars, Up
    <2>2. \A h \in Headers : exitMin'[h] = NoDuty => exitMin[h] = NoDuty /\ h \notin NoModeHeaders
      BY <1>1, <2>1, ExitDutyType
    <2>3. \A e \in Diags : diag[e].pc \notin {"testing", "restoring"}
      BY <2>1, FreeNoCall
    <2>4. \A e \in Diags : diag[e].pc # "idle" => diag[e].h \in Headers
      BY DEF TypeOK
    <2>5. \A e \in Diags : RunInv(e)'
      BY <2>1, <2>2, <2>3, <2>4 DEF TestInv, RunInv, HeldAtTest, Owns, validate_lease
    <2> QED BY <1>1, <2>1, <2>2, <2>5 DEF TestInv
  <1>4. CASE FloorRaise
    <2>1. PICK h \in floorTodo : RaiseToFloor(h)
      BY <1>4 DEF FloorRaise
    <2>2. /\ Up /\ Up' /\ op.step = "floor"
          /\ UNCHANGED <<lease, op, exitMin, diag, stopping, phase>>
      BY <1>4, <2>1 DEF FloorRaise, RaiseToFloor, actorVars, Up
    <2>3. \A x \in Headers \ NoModeHeaders : duty'[x] = duty[x]
      BY <1>1, <2>1 DEF RaiseToFloor, WriteLands, Unprimed
    <2>4. \A x \in Headers : exitMin[x] = NoDuty => duty'[x] = duty[x]
      BY <2>2, <2>3 DEF TestInv
    <2>5. \A e \in Diags : diag[e].pc # "idle" => diag[e].h \in Headers
      BY DEF TypeOK
    <2>6. \A e \in Diags : diag[e].pc \notin {"testing", "restoring"}
      BY <2>2 DEF TestInv, RunInv, CallOf
    <2>7. \A e \in Diags : RunInv(e)'
      BY <2>2, <2>4, <2>5, <2>6 DEF TestInv, RunInv, HeldAtTest, Owns, validate_lease
    <2> QED BY <2>2, <2>7 DEF TestInv
  <1>5. CASE FloorEnd
    <2>1. /\ Up /\ Up' /\ op.step = "floor" /\ op'.step = "idle"
          /\ UNCHANGED <<lease, duty, exitMin, diag, stopping, phase>>
      BY <1>1, <1>5 DEF FloorEnd, FloorDone, sysfsVars, actorVars, stopVars, Up
    <2>2. \A e \in Diags : RunInv(e)'
      BY <2>1 DEF TestInv, RunInv, CallOf, HeldAtTest, Owns, validate_lease
    <2> QED BY <2>1, <2>2 DEF TestInv
  <1>6. CASE StopHandBack
    <2>1. /\ phase = "hand_back" /\ UNCHANGED <<lease, op, exitMin, diag, stopping, phase>>
      BY <1>6 DEF StopHandBack, controlVars, actorVars
    <2>2. stopping
      BY <2>1 DEF TestInv
    <2>3. \A e \in Diags : RunInv(e)'
      BY <2>1, <2>2 DEF TestInv, RunInv, CallOf, TestOf, HeldAtTest, Owns, validate_lease, Up
    <2> QED BY <2>1, <2>3 DEF TestInv
  <1>7. CASE Exit
    <2>1. /\ phase' = "exited" /\ op'.step = "idle" /\ \A e \in Diags : diag'[e].pc = "idle"
      BY <1>1, <1>7 DEF Exit, NoDiag
    <2> QED BY <2>1 DEF TestInv, RunInv
  <1>8. CASE ExecStopPost \/ ExecStopPostDone \/ Start
    <2>1. ~Up /\ UNCHANGED <<op, diag>> /\ phase' \in {"exited", "down", "running"}
      BY <1>8 DEF ExecStopPost, ExecStopPostDone, Start, Up, controlVars, actorVars
    <2>2. op.step = "idle" /\ \A e \in Diags : diag[e].pc = "idle"
      BY <1>1, <2>1 DEF EndedInv, TestInv, RunInv
    <2> QED BY <2>1, <2>2 DEF TestInv, RunInv
  <1> QED BY SMTT(30), ZenonT(30), <1>2, <1>3, <1>4, <1>5, <1>6, <1>7, <1>8 DEF StopStep

LEMMA TestStep ==
    ASSUME Undisturbed
    PROVE  TypeOK /\ CallerInv /\ LedgerInv /\ HolderInv /\ TestInv /\ [Next]_vars => TestInv'
  <1> SUFFICES ASSUME TypeOK, CallerInv, LedgerInv, HolderInv, TestInv, [Next]_vars PROVE TestInv'
    OBVIOUS
  <1>1. CASE EnvStep \/ UNCHANGED vars
    <2>1. /\ UNCHANGED <<op, duty, exitMin, stopping, phase>>
          /\ lease' = lease \/ lease' = [lease EXCEPT !.live = FALSE]
          /\ diag' = diag \/ diag' = [diag EXCEPT ![slot.owner].lapsed = TRUE]
      BY <1>1 DEF EnvStep, Event, Undisturbed, Reclaim, Meddle, ChipAnswers, Resume, Expires,
             Expire, Deadman, ForceChange, ProfileChange, DiskChange, Calm, vars, handBackVars,
             sysfsVars, controlVars, actorVars, stopVars
    <2>2. lease \in Leases /\ diag \in [Diags -> DiagStates]
      BY DEF TypeOK, ControlTypeOK
    <2>3. \A e \in Diags : Same(e) /\ diag'[e].id = diag[e].id
      BY <2>1, <2>2 DEF Same, DiagStates
    <2>4. \A e \in Diags : Owns(e)' => Owns(e)
      BY <2>1, <2>2, <2>3 DEF Owns, validate_lease, Leases
    <2>5. \A e \in Diags : RunInv(e)'
      BY <2>1, <2>3, <2>4, RunFrame DEF TestInv
    <2> QED BY <2>1, <2>5 DEF TestInv
  <1> QED BY <1>1, EngineStepTest, DiagStepTest, ControlStepTest, StopStepTest DEF Next

(* The verify slot is one diagnostic's at a time, for any number of runs   *)
(* that end late, are superseded or are dropped: until a run gives it up   *)
(* or its deadman elapses, nobody else frees it or takes it                *)
(* (try_begin_verify, end_verify).                                         *)
THEOREM OneDiagnosticAtATime == Spec => []OneDiagnostic
  <1>1. Init => SlotInv
    BY DEF Init, SlotInv, NoDiag
  <1>2. SlotInv => OneDiagnostic
    BY DEF SlotInv, OneDiagnostic
  <1> QED BY <1>1, <1>2, SlotStep, TypeInit, TypeStep, PTL DEF Spec, TypeInv

(* A diagnostic's test is its own: while it holds its lease its header     *)
(* stays at the duty it tests with, whatever the engine's tasks, thermal   *)
(* safety, other diagnostics and the exit floor were about to write; as    *)
(* long as no other program writes the header and no sleep clears it       *)
(* (validate_lease, force_take_lease, take_verify_lease).                  *)
THEOREM TestsKeptApart == Spec => [](Undisturbed => DiagnosticsKeptApart)
  <1> DEFINE DInv == Undisturbed => TestInv
  <1>1. Init => HolderInv /\ DInv
    BY IdleType DEF Init, ControlInit, HolderInv, HoldsOwn, TestInv, RunInv, NoDiag, NoTask,
                    Working
  <1>2. TypeOK /\ CallerInv /\ LedgerInv /\ HolderInv /\ DInv /\ [Next]_vars => DInv'
    BY TestStep DEF Undisturbed
  <1>3. DInv => (Undisturbed => TestDutyUndisturbed)
    BY DEF TestInv, RunInv, HeldAtTest, Owns, TestDutyUndisturbed
  <1>4. OneDiagnostic /\ (Undisturbed => TestDutyUndisturbed) =>
          (Undisturbed => DiagnosticsKeptApart)
    BY DEF DiagnosticsKeptApart
  <1>5. TypeInv => TypeOK /\ CallerInv
    BY DEF TypeInv
  <1> QED BY <1>1, <1>2, <1>3, <1>4, <1>5, HolderStep, OneDiagnosticAtATime, LedgerAlways,
             TypeInit, TypeStep, PTL DEF Spec

----------------------------------------------------------------------------
(* duty_not_holding.  Every correction is paid for by an event of the      *)
(* environment: a header that is not where the controller last read it     *)
(* back has been moved by an event no correction was counted for yet.      *)
Happened == EnvBudget - budget

Moved(h) == ws[h].mode /\ duty[h] # ws[h].held

(* The call in flight is about to correct h, or has just given it back. *)
Mending(h) == op.h = h /\ (op.step = "back" \/ (op.fix /\ op.step \in {"check", "write"}))

(* The shutdown hand-back writes headers behind the controller's back. *)
Exempt(h) == Mending(h) \/ (stopping /\ h \in ModeHeaders)

DriftOf(h) ==
    /\ ws[h].mode => ws[h].last \in Duty /\ ws[h].held = Stores[ws[h].last]
    /\ ws[h].corrections <= Happened
    /\ ws[h].notHolding => Happened > Attempts
    /\ Moved(h) /\ ~Exempt(h) => ws[h].corrections < Happened

(* The exit floor writes without reading back, so what is said of a header *)
(* ends when its minimum is latched.                                       *)
DriftInv ==
    /\ \A h \in Headers : exitMin[h] = NoDuty => DriftOf(h)
    /\ op.step = "floor" => \A h \in NoModeHeaders : exitMin[h] # NoDuty
    /\ phase \in {"flagged", "hand_back"} => stopping

(* A chip that sends every channel keeps a duty other than zero from being *)
(* stored as zero; else priming it would fight the command.                *)
ZeroIsZero == SharedReport = {} \/ \A d \in Duty : Stores[d] = 0 => d = 0

(* A step after which the controller thinks no more of h than before. *)
Calmer(w, v) ==
    /\ v.mode => w.mode /\ v.last = w.last /\ v.held = w.held
    /\ v.corrections <= w.corrections
    /\ v.notHolding => w.notHolding

LEMMA CalmerTypes ==
    ASSUME NEW w \in WriteStates
    PROVE  /\ Calmer(w, w) /\ Calmer(w, [w EXCEPT !.mode = FALSE]) /\ Calmer(w, NoState)
           /\ Calmer(w, Uncounted(w))
           /\ w.corrections \in Int /\ w.corrections >= 0
  BY ControlAssumption DEF Calmer, WriteStates, NoState, Uncounted

LEMMA DriftFrame ==
    ASSUME NEW h \in Headers, ControlTypeOK, StopTypeOK, budget' \in Int, DriftOf(h),
           ws'[h] \in WriteStates, Calmer(ws[h], ws'[h]), budget' <= budget,
           \/ duty'[h] = duty[h] /\ (Exempt(h) => Exempt(h)')
           \/ budget' < budget
           \/ ~ws'[h].mode
           \/ Exempt(h)'
    PROVE  DriftOf(h)'
  <1>1. /\ ws[h] \in WriteStates /\ budget \in Int /\ EnvBudget \in Int /\ Attempts \in Int
        /\ ws[h].corrections \in Int /\ ws'[h].corrections \in Int
    BY ControlAssumption, WritesAssumption DEF ControlTypeOK, StopTypeOK, WriteStates
  <1>2. Happened' >= Happened /\ (budget' < budget => Happened' > Happened)
        /\ Happened \in Int /\ Happened' \in Int
    BY <1>1 DEF Happened
  <1>3. /\ ws'[h].mode => ws'[h].last \in Duty /\ ws'[h].held = Stores[ws'[h].last]
        /\ ws'[h].corrections <= Happened'
        /\ ws'[h].notHolding => Happened' > Attempts
    BY <1>1, <1>2 DEF DriftOf, Calmer
  <1>4. ASSUME Moved(h)', ~Exempt(h)' PROVE ws'[h].corrections < Happened'
    <2>1. ws[h].mode /\ ws'[h].held = ws[h].held
      BY <1>4 DEF Moved, Calmer
    <2>2. CASE budget' < budget
      BY <1>1, <1>2, <2>2 DEF DriftOf, Calmer
    <2>3. CASE duty'[h] = duty[h] /\ ~Exempt(h)
      BY <1>1, <1>2, <1>4, <2>1, <2>3 DEF DriftOf, Calmer, Moved
    <2> QED BY <1>4, <2>2, <2>3 DEF Moved
  <1> QED BY <1>3, <1>4 DEF DriftOf

(* reconcile_decision: nothing is held against the header, or it has       *)
(* drifted, and then either a correction is counted and written or the     *)
(* header is reported.                                                     *)
LEMMA DriftAfterEffect ==
    ASSUME NEW w \in WriteStates, NEW e \in Int, NEW r \in Int
    PROVE  \/ Calmer(w, DriftAfter(e, r, w)) /\ ~Rewrites(e, r, w)
           \/ /\ r # NoDuty /\ r # e
              /\ DriftAfter(e, r, w) = [w EXCEPT !.notHolding = TRUE]
              /\ w.corrections >= Attempts /\ ~Rewrites(e, r, w)
           \/ /\ r # NoDuty /\ r # e
              /\ DriftAfter(e, r, w) = [w EXCEPT !.corrections = @ + 1, !.episode = TRUE]
              /\ Rewrites(e, r, w)
  <1>1. /\ w.entry \in BOOLEAN /\ w.last \in Duty \cup {NoDuty} /\ w.mode \in BOOLEAN
        /\ w.held \in Duty \cup {NoDuty} /\ w.corrections \in 0..Attempts
        /\ w.notHolding \in BOOLEAN /\ w.episode \in BOOLEAN /\ Attempts \in Nat
    BY ControlAssumption DEF WriteStates
  <1>2. r = e => Near(r, e)
    BY ControlAssumption DEF Near
  <1>3. CASE r = NoDuty
    BY <1>3, CalmerTypes DEF DriftAfter, Rewrites
  <1>4. CASE r # NoDuty /\ Near(r, e)
    <2> DEFINE c == IF w.episode THEN 0 ELSE w.corrections
               n == w.notHolding /\ ~w.episode
    <2>1. c \in Int /\ c <= w.corrections
      BY <1>1
    <2>2. n \in BOOLEAN /\ (n => w.notHolding)
      OBVIOUS
    <2>3. DriftAfter(e, r, w) = [w EXCEPT !.corrections = c, !.notHolding = n, !.episode = FALSE]
      BY <1>4, Zenon DEF DriftAfter
    <2>4. ~Rewrites(e, r, w)
      BY <1>4 DEF Rewrites
    <2> HIDE DEF c, n
    <2>5. Calmer(w, DriftAfter(e, r, w))
      BY <2>1, <2>2, <2>3 DEF Calmer, WriteStates
    <2> QED BY <2>4, <2>5
  <1>5. CASE r # NoDuty /\ ~Near(r, e) /\ w.notHolding
    BY <1>5, CalmerTypes DEF DriftAfter, Rewrites
  <1>6. CASE r # NoDuty /\ ~Near(r, e) /\ ~w.notHolding /\ w.corrections >= Attempts
    BY <1>1, <1>2, <1>6 DEF DriftAfter, Rewrites
  <1>7. CASE r # NoDuty /\ ~Near(r, e) /\ ~w.notHolding /\ w.corrections < Attempts
    BY <1>1, <1>2, <1>7 DEF DriftAfter, Rewrites
  <1> QED BY <1>1, <1>3, <1>4, <1>5, <1>6, <1>7

(* What set_pwm does to the write state of each header. *)
Reconciled(states, h) ==
    \/ Calmer(states[h], ws'[h]) /\ ~(op'.fix /\ op'.step = "check")
    \/ /\ ~refused(h) /\ states[h].mode /\ h \in alive \cup SharedReport
       /\ duty[h] # ExpectedDuty(states[h], states[h].last)
       /\ \/ /\ ws'[h] = [states[h] EXCEPT !.entry = TRUE, !.notHolding = TRUE]
             /\ states[h].corrections >= Attempts
          \/ /\ ws'[h] = [states[h] EXCEPT !.entry = TRUE, !.corrections = @ + 1,
                                           !.episode = TRUE]
             /\ op'.fix /\ op'.step = "check"

LEMMA SetPwmStates ==
    ASSUME ControlTypeOK, NEW states \in [Headers -> WriteStates], NEW owner, NEW by,
           NEW h \in Headers, NEW pct \in Duty, NEW release,
           set_pwm_from(states, owner, by, h, pct, release)
    PROVE  /\ op'.h = h /\ op'.step \in {"done", "note", "check"}
           /\ UNCHANGED <<duty, exitMin>>
           /\ \A x \in Headers \ {h} :
                 ws'[x] = states[x] \/ ws'[x] = [states[x] EXCEPT !.mode = FALSE]
           /\ Reconciled(states, h)
  <1> DEFINE reconciles  == owner # "verify"
             effective   == effective_pct(h, pct)
             noted       == IF resumed THEN ModesForgotten(states) ELSE states
             w           == [noted[h] EXCEPT !.entry = TRUE,
                                             !.mode = @ /\ ~enable_reclaimed(h, noted[h])]
             expected    == ExpectedDuty(w, effective)
             coalescible == reconciles /\ w.mode /\ w.last = effective
             fix         == coalescible /\ Rewrites(expected, Readback(h), w)
             call        == [Idle EXCEPT !.by = by, !.h = h, !.pct = effective,
                                         !.reconciles = reconciles, !.fix = fix,
                                         !.release = release]
             st          == IF coalescible /\ ~fix THEN "done"
                            ELSE IF h \in ModeHeaders /\ ~w.mode THEN "note" ELSE "check"
             good        == coalescible /\ ~fix
  <1>1. effective \in Duty /\ Readback(h) \in Duty \cup {NoDuty}
    BY DEF effective_pct, ControlTypeOK, HandBackTypeOK, Duty, NoDuty, Readback
  <1>2. /\ noted \in [Headers -> WriteStates]
        /\ \A x \in Headers : noted[x] = states[x] \/ noted[x] = [states[x] EXCEPT !.mode = FALSE]
    BY ModesForgottenType DEF ModesForgotten
  <1>3. /\ w \in WriteStates /\ Calmer(states[h], w) /\ Calmer(states[h], noted[h])
        /\ w.mode => w = [states[h] EXCEPT !.entry = TRUE] /\ w.held = states[h].held
    <2> DEFINE m == noted[h].mode /\ ~enable_reclaimed(h, noted[h])
    <2>1. m \in BOOLEAN /\ (m => noted[h].mode)
      OBVIOUS
    <2>2. /\ noted[h] \in WriteStates /\ states[h] \in WriteStates
          /\ noted[h] = states[h] \/ noted[h] = [states[h] EXCEPT !.mode = FALSE]
      BY <1>2
    <2>3. w = [noted[h] EXCEPT !.entry = TRUE, !.mode = m]
      BY Zenon
    <2> HIDE DEF m, noted, w
    <2>4. w \in WriteStates /\ w.mode = m /\ w.held = noted[h].held
      BY <2>1, <2>2, <2>3 DEF WriteStates
    <2>5. CASE noted[h] = states[h]
      <3>1. m => w = [states[h] EXCEPT !.entry = TRUE]
        BY <2>1, <2>2, <2>3, <2>5 DEF WriteStates
      <3> QED BY <2>1, <2>2, <2>3, <2>4, <2>5, <3>1 DEF WriteStates, Calmer
    <2>6. CASE noted[h] = [states[h] EXCEPT !.mode = FALSE]
      <3>1. ~noted[h].mode /\ noted[h].held = states[h].held
        BY <2>2, <2>6 DEF WriteStates
      <3> QED BY <2>1, <2>2, <2>3, <2>4, <2>6, <3>1 DEF WriteStates, Calmer
    <2> QED BY <2>2, <2>5, <2>6
  <1>4. UNCHANGED <<duty, exitMin>>
    BY DEF set_pwm_from, sysfsVars
  <1>5. \/ /\ ws' = noted
           /\ op' = [call EXCEPT !.step = "done"]
        \/ /\ ~refused(h)
           /\ ws' = [noted EXCEPT ![h] =
                        IF coalescible THEN DriftAfter(expected, Readback(h), w) ELSE w]
           /\ op' = [call EXCEPT !.step = st, !.ok = good]
    BY Zenon DEF set_pwm_from
  <1>6. st \in {"done", "note", "check"} /\ (fix => st = "check")
    BY Zenon
  <1>7. call.h = h /\ call.fix = fix /\ DOMAIN call = DOMAIN Idle
    <2> HIDE DEF effective, reconciles, fix
    <2> QED BY DEF Idle
  <1>8. /\ op'.h = h /\ op'.step \in {"done", "note", "check"} /\ op'.fix = fix
        /\ \/ ws' = noted /\ op'.step = "done"
           \/ /\ ~refused(h) /\ op'.step = st
              /\ ws' = [noted EXCEPT ![h] =
                        IF coalescible THEN DriftAfter(expected, Readback(h), w) ELSE w]
    <2> HIDE DEF call, st, good, fix, noted, coalescible, expected, w
    <2> QED BY <1>5, <1>6, <1>7 DEF Idle
  <1>9. \A x \in Headers \ {h} : ws'[x] = noted[x]
    <2> HIDE DEF noted, coalescible, expected, w
    <2> QED BY <1>2, <1>8
  <1>10. CASE ws' = noted /\ op'.step = "done"
    BY <1>2, <1>3, <1>4, <1>8, <1>9, <1>10 DEF Reconciled
  <1>11. CASE /\ ~refused(h) /\ op'.step = st
              /\ ws' = [noted EXCEPT ![h] =
                        IF coalescible THEN DriftAfter(expected, Readback(h), w) ELSE w]
    <2>1. CASE ~coalescible
      <3>1. ws'[h] = w /\ ~fix
        BY <1>2, <1>11, <2>1
      <3> QED BY ZenonT(60), <1>2, <1>3, <1>4, <1>8, <1>9, <3>1 DEF Reconciled
    <2>2. CASE coalescible
      <3> DEFINE r == Readback(h)
                 v == DriftAfter(expected, r, w)
      <3>1. /\ ws'[h] = v /\ (fix <=> Rewrites(expected, r, w))
            /\ w.mode /\ w.last = effective /\ states[h].mode
            /\ w = [states[h] EXCEPT !.entry = TRUE] /\ w.held = states[h].held
            /\ states[h].last = effective
        <4>1. (fix <=> Rewrites(expected, r, w)) /\ w.mode /\ w.last = effective
          BY <2>2, Zenon
        <4>2. ws' = [noted EXCEPT ![h] = v]
          BY <1>11, <2>2, Zenon
        <4>3. ws'[h] = v
          <5> HIDE DEF noted, v
          <5> QED BY <1>2, <4>2
        <4> HIDE DEF w, fix, v
        <4> QED BY <1>3, <4>1, <4>3 DEF Calmer
      <3>2. expected = ExpectedDuty(states[h], states[h].last) /\ expected \in Int /\ r \in Int
        <4>1. expected = ExpectedDuty(states[h], states[h].last)
          BY <3>1 DEF ExpectedDuty
        <4>2. states[h].last \in Duty \cup {NoDuty} /\ states[h].held \in Duty \cup {NoDuty}
          BY DEF WriteStates
        <4>3. expected \in Duty \cup {NoDuty} /\ r \in Duty \cup {NoDuty}
          <5> HIDE DEF expected
          <5> QED BY <1>1, <4>1, <4>2 DEF ExpectedDuty, Readback
        <4>4. \A x \in Duty \cup {NoDuty} : x \in Int
          BY DEF Duty, NoDuty
        <4> QED BY <4>1, <4>3, <4>4
      <3>3. r # NoDuty => r = duty[h] /\ h \in alive \cup SharedReport
        BY DEF Readback
      <3> HIDE DEF r, v, fix, expected, w, noted, st, coalescible
      <3>4. CASE Calmer(w, v) /\ ~Rewrites(expected, r, w)
        <4>1. Calmer(states[h], ws'[h])
          BY <1>3, <3>1, <3>4 DEF Calmer
        <4>2. ~op'.fix
          BY <1>8, <3>1, <3>4
        <4> QED BY <1>2, <1>4, <1>8, <1>9, <4>1, <4>2 DEF Reconciled
      <3>5. CASE /\ r # NoDuty /\ r # expected /\ w.corrections >= Attempts
                 /\ v = [w EXCEPT !.notHolding = TRUE]
        <4>1. /\ ws'[h] = [states[h] EXCEPT !.entry = TRUE, !.notHolding = TRUE]
              /\ states[h].corrections >= Attempts
          BY <3>1, <3>5 DEF WriteStates
        <4> QED BY <1>2, <1>4, <1>8, <1>9, <1>11, <3>1, <3>2, <3>3, <3>5, <4>1 DEF Reconciled
      <3>6. CASE /\ r # NoDuty /\ r # expected /\ Rewrites(expected, r, w)
                 /\ v = [w EXCEPT !.corrections = @ + 1, !.episode = TRUE]
        <4>1. ws'[h] = [states[h] EXCEPT !.entry = TRUE, !.corrections = @ + 1, !.episode = TRUE]
          BY <3>1, <3>6 DEF WriteStates
        <4>2. op'.fix /\ op'.step = "check"
          BY <1>6, <1>8, <1>11, <3>1, <3>6
        <4> QED BY <1>2, <1>4, <1>8, <1>9, <1>11, <3>1, <3>2, <3>3, <3>6, <4>1, <4>2 DEF Reconciled
      <3>7. w \in WriteStates
        BY <1>3
      <3>8. \/ Calmer(w, v) /\ ~Rewrites(expected, r, w)
            \/ /\ r # NoDuty /\ r # expected
               /\ v = [w EXCEPT !.notHolding = TRUE]
               /\ w.corrections >= Attempts /\ ~Rewrites(expected, r, w)
            \/ /\ r # NoDuty /\ r # expected
               /\ v = [w EXCEPT !.corrections = @ + 1, !.episode = TRUE]
               /\ Rewrites(expected, r, w)
        BY <3>2, <3>7, DriftAfterEffect, Zenon DEF v
      <3> QED BY <3>4, <3>5, <3>6, <3>8, Zenon
    <2> QED BY <2>1, <2>2
  <1> QED BY <1>8, <1>10, <1>11

(* The types and the small facts every step below needs. *)
LEMMA DriftTypes ==
    ASSUME TypeOK
    PROVE  /\ ControlTypeOK /\ StopTypeOK /\ op \in Calls /\ duty \in [Headers -> Duty]
           /\ ws \in [Headers -> WriteStates] /\ budget \in Int
           /\ exitMin \in [Headers -> Duty \cup {NoDuty}] /\ NoDuty \notin Duty
           /\ ModeHeaders \cap NoModeHeaders = {} /\ ModeHeaders \subseteq Headers
           /\ NoModeHeaders \subseteq Headers /\ SharedReport \subseteq NoModeHeaders
           /\ \A h \in ModeHeaders : exitMin[h] \in Duty \cup {NoDuty}
  <1>1. ControlTypeOK /\ StopTypeOK
    BY TypeGroups
  <1>2. /\ op \in Calls /\ duty \in [Headers -> Duty] /\ ws \in [Headers -> WriteStates]
        /\ exitMin \in [Headers -> Duty \cup {NoDuty}]
    BY <1>1 DEF ControlTypeOK, HandBackTypeOK
  <1>3. budget \in Int
    BY <1>1, WritesAssumption DEF StopTypeOK
  <1>4. ModeHeaders \subseteq Headers /\ NoModeHeaders \subseteq Headers
    BY DEF Headers
  <1> QED BY <1>1, <1>2, <1>3, <1>4, HeaderAssumption, ControlAssumption, FloorIsDuty

(* A call begins on a free controller: the drift it finds, of a header     *)
(* that is not written behind the controller's back, has been paid for.    *)
LEMMA SetPwmDrift ==
    ASSUME TypeOK, TypeOK', DriftInv, Free, NEW states \in {ws, ModesForgotten(ws)}, NEW owner,
           NEW by, NEW h \in Headers, NEW pct \in Duty, NEW release,
           set_pwm_from(states, owner, by, h, pct, release),
           UNCHANGED <<stopping, phase, budget>>
    PROVE  DriftInv'
  <1>1. /\ states \in [Headers -> WriteStates]
        /\ \A x \in Headers : states[x] = ws[x] \/ states[x] = [ws[x] EXCEPT !.mode = FALSE]
    BY DriftTypes, ModesForgottenType DEF ModesForgotten
  <1>2. /\ ws \in [Headers -> WriteStates] /\ ws' \in [Headers -> WriteStates]
        /\ ControlTypeOK /\ StopTypeOK /\ budget' \in Int /\ budget \in Int
    BY DriftTypes DEF TypeOK, ControlTypeOK
  <1>3. /\ op'.h = h /\ op'.step \in {"done", "note", "check"}
        /\ UNCHANGED <<duty, exitMin>>
        /\ \A x \in Headers \ {h} :
              ws'[x] = states[x] \/ ws'[x] = [states[x] EXCEPT !.mode = FALSE]
        /\ Reconciled(states, h)
    BY <1>1, <1>2, SetPwmStates, Zenon
  <1>4. op.step = "idle"
    BY IdleType DEF Free
  <1>5. \A x \in Headers : Exempt(x) => Exempt(x)'
    BY <1>4 DEF Exempt, Mending
  <1>6. ASSUME NEW x \in Headers, exitMin[x] = NoDuty, Calmer(ws[x], ws'[x]) PROVE DriftOf(x)'
    BY <1>2, <1>3, <1>5, <1>6, DriftFrame DEF DriftInv
  <1>7. ASSUME NEW x \in Headers, x # h PROVE Calmer(ws[x], ws'[x])
    <2>1. ws[x] \in WriteStates /\ ws'[x] \in WriteStates
      BY <1>2
    <2>2. states[x] \in WriteStates /\ Calmer(ws[x], states[x])
      BY <1>1, <2>1, CalmerTypes
    <2>3. Calmer(states[x], ws'[x])
      BY <1>3, <1>7, <2>2, CalmerTypes
    <2> QED BY <2>1, <2>2, <2>3 DEF Calmer, WriteStates
  <1>8. ASSUME exitMin[h] = NoDuty PROVE DriftOf(h)'
    <2>1. CASE Calmer(states[h], ws'[h])
      <3>1. Calmer(ws[h], ws'[h])
        BY <1>1, <1>2, <2>1 DEF Calmer, WriteStates
      <3> QED BY <1>6, <1>8, <3>1
    <2>2. CASE /\ ~refused(h) /\ states[h].mode
               /\ duty[h] # ExpectedDuty(states[h], states[h].last)
               /\ \/ /\ ws'[h] = [states[h] EXCEPT !.entry = TRUE, !.notHolding = TRUE]
                     /\ states[h].corrections >= Attempts
                  \/ /\ ws'[h] = [states[h] EXCEPT !.entry = TRUE, !.corrections = @ + 1,
                                                   !.episode = TRUE]
                     /\ op'.fix /\ op'.step = "check"
      <3>1. states[h] = ws[h] /\ ws[h].mode /\ ws[h] \in WriteStates
        BY <1>1, <1>2, <2>2 DEF WriteStates
      <3>2. /\ ws[h].last \in Duty /\ ws[h].held = Stores[ws[h].last] /\ ws[h].held \in Duty
            /\ DriftOf(h)
        BY <1>8, <3>1, ControlAssumption DEF DriftInv, DriftOf
      <3>3. Moved(h) /\ ~Exempt(h)
        BY <1>4, <2>2, <3>1, <3>2, DriftTypes
           DEF Moved, Exempt, Mending, refused, ExpectedDuty
      <3>4. /\ ws[h].corrections < Happened /\ Happened' = Happened
            /\ ws[h].corrections \in Int /\ Happened \in Int /\ Attempts \in Int
        BY <1>2, <3>1, <3>2, <3>3, ControlAssumption, WritesAssumption
           DEF DriftOf, Happened, WriteStates
      <3>5. CASE /\ ws'[h] = [ws[h] EXCEPT !.entry = TRUE, !.notHolding = TRUE]
                 /\ ws[h].corrections >= Attempts
        <4>1. /\ ws'[h].mode = ws[h].mode /\ ws'[h].last = ws[h].last /\ ws'[h].held = ws[h].held
              /\ ws'[h].corrections = ws[h].corrections
          BY <3>1, <3>5 DEF WriteStates
        <4> QED BY <3>2, <3>4, <3>5, <4>1 DEF DriftOf
      <3>6. CASE /\ ws'[h] = [ws[h] EXCEPT !.entry = TRUE, !.corrections = @ + 1, !.episode = TRUE]
                 /\ op'.fix /\ op'.step = "check"
        <4>1. /\ ws'[h].mode = ws[h].mode /\ ws'[h].last = ws[h].last /\ ws'[h].held = ws[h].held
              /\ ws'[h].corrections = ws[h].corrections + 1
              /\ ws'[h].notHolding = ws[h].notHolding
          BY <3>1, <3>6 DEF WriteStates
        <4>2. Exempt(h)'
          BY <1>3, <3>6 DEF Exempt, Mending
        <4> QED BY <3>2, <3>4, <4>1, <4>2 DEF DriftOf
      <3> QED BY <2>2, <3>1, <3>5, <3>6
    <2>3. \/ Calmer(states[h], ws'[h])
          \/ /\ ~refused(h) /\ states[h].mode
             /\ duty[h] # ExpectedDuty(states[h], states[h].last)
             /\ \/ /\ ws'[h] = [states[h] EXCEPT !.entry = TRUE, !.notHolding = TRUE]
                   /\ states[h].corrections >= Attempts
                \/ /\ ws'[h] = [states[h] EXCEPT !.entry = TRUE, !.corrections = @ + 1,
                                                 !.episode = TRUE]
                   /\ op'.fix /\ op'.step = "check"
      BY <1>3, Zenon DEF Reconciled
    <2> QED BY <2>1, <2>2, <2>3
  <1>9. op'.step # "floor"
    BY <1>3
  <1> QED BY <1>3, <1>6, <1>7, <1>8, <1>9 DEF DriftInv

(* A step that leaves each header's state as it was, or thinks less of it, *)
(* and the registers alone.                                                *)
LEMMA DriftQuiet ==
    ASSUME TypeOK, TypeOK', DriftInv, UNCHANGED <<duty, exitMin>>, budget' <= budget,
           \A h \in Headers : Calmer(ws[h], ws'[h]) /\ (Exempt(h) => Exempt(h)'),
           op'.step = "floor" => op.step = "floor",
           phase' \in {"flagged", "hand_back"} => stopping'
    PROVE  DriftInv'
  <1>1. /\ ws' \in [Headers -> WriteStates] /\ ControlTypeOK /\ StopTypeOK /\ budget' \in Int
    BY DriftTypes DEF TypeOK, ControlTypeOK, WritesAssumption
  <1>2. ASSUME NEW h \in Headers, exitMin[h] = NoDuty PROVE DriftOf(h)'
    BY <1>1, <1>2, DriftFrame DEF DriftInv
  <1> QED BY <1>2 DEF DriftInv

LEMMA ControlStepDrift == ASSUME ZeroIsZero, TypeOK, TypeOK', DriftInv, ControlStep PROVE DriftInv'
  <1>1. /\ ControlTypeOK /\ StopTypeOK /\ op \in Calls /\ duty \in [Headers -> Duty]
        /\ ws \in [Headers -> WriteStates] /\ ws' \in [Headers -> WriteStates]
        /\ budget' \in Int /\ budget' = budget
        /\ UNCHANGED <<stopping, phase>>
    BY DriftTypes DEF TypeOK, ControlTypeOK, ControlStep, stopVars
  <1>2. \A h \in Headers : ws[h] \in WriteStates /\ ws'[h] \in WriteStates
    BY <1>1
  <1>3. CASE OpNote \/ OpTake \/ OpEnable
    <2>1. /\ UNCHANGED <<duty, exitMin, ws>> /\ op.step \in {"note", "take", "enable"}
          /\ op'.step # "floor"
      BY <1>1, <1>3, OpMoves DEF OpNote, OpTake, OpEnable, sysfsVars
    <2>2. \A h \in Headers : Calmer(ws[h], ws'[h]) /\ (Exempt(h) => Exempt(h)')
      BY <1>1, <1>2, <2>1, CalmerTypes DEF Exempt, Mending
    <2> QED BY <1>1, <2>1, <2>2, DriftQuiet DEF DriftInv
  <1>4. CASE OpCheck
    <2>1. /\ UNCHANGED <<duty, exitMin>> /\ op.step = "check" /\ op'.h = op.h /\ op.h \in Headers
          /\ \/ op'.step = "write" /\ op'.fix = op.fix /\ UNCHANGED ws
             \/ /\ op'.step = "done" /\ refused(op.h)
                /\ ws' = ws \/ ws' = [ws EXCEPT ![op.h] = Uncounted(@)]
      BY <1>1, <1>4 DEF OpCheck, sysfsVars, Calls, ControlTypeOK
    <2>2. \A h \in Headers : ws'[h] = ws[h] \/ ws'[h] = Uncounted(ws[h])
      BY <1>1, <2>1
    <2>3. \A h \in Headers : Calmer(ws[h], ws'[h])
      BY <1>2, <2>2, CalmerTypes
    <2>4. \A h \in Headers : Exempt(h) => Exempt(h)'
      BY <1>1, <2>1 DEF Exempt, Mending, refused
    <2> QED BY <1>1, <2>1, <2>3, <2>4, DriftQuiet DEF DriftInv
  <1>5. CASE OpWrite
    <2>1. /\ op.step = "write" /\ op.h \in Headers /\ op.pct \in Duty /\ UNCHANGED exitMin
          /\ op'.step = "done" /\ op'.h = op.h
      BY <1>1, <1>5, OpMoves DEF OpWrite, ControlTypeOK, Calls
    <2>2. CASE op.h \in alive
      <3>1. /\ WriteLands(op.h, op.pct)
            /\ ws' = [ws EXCEPT ![op.h] = StateAfterWrite(@, op.pct, op.fix, op.reconciles)]
        BY <1>5, <2>2 DEF OpWrite
      <3>2. ASSUME exitMin[op.h] = NoDuty PROVE DriftOf(op.h)'
        <4> DEFINE w == ws[op.h]
                   c == IF op.reconciles /\ ~op.fix THEN 0 ELSE w.corrections
                   n == w.notHolding /\ ~(op.reconciles /\ ~op.fix)
        <4>1. /\ w \in WriteStates /\ w.corrections <= Happened
              /\ w.notHolding => Happened > Attempts
              /\ Happened' = Happened /\ Happened \in Int /\ w.corrections \in Nat
          BY <1>1, <1>2, <2>1, <3>2, WritesAssumption, ControlAssumption
             DEF DriftInv, DriftOf, Happened, WriteStates
        <4>2. c \in Int /\ c <= Happened
          BY <4>1
        <4>3. n \in BOOLEAN /\ (n => w.notHolding)
          OBVIOUS
        <4>4. ws'[op.h] = [w EXCEPT !.entry = TRUE, !.last = op.pct, !.mode = TRUE,
                                    !.held = Stores[op.pct], !.corrections = c, !.notHolding = n]
          <5>1. ws'[op.h] = StateAfterWrite(w, op.pct, op.fix, op.reconciles)
            BY <1>1, <2>1, <3>1
          <5> QED BY <5>1, Zenon DEF StateAfterWrite
        <4> HIDE DEF w, c, n
        <4>5. /\ ws'[op.h].last = op.pct /\ ws'[op.h].held = Stores[op.pct]
              /\ ws'[op.h].corrections = c /\ ws'[op.h].notHolding = n
          BY <4>1, <4>4 DEF WriteStates
        <4>6. duty'[op.h] = Stores[op.pct]
          BY <2>1, <3>1 DEF WriteLands
        <4> QED BY <2>1, <4>1, <4>2, <4>3, <4>5, <4>6 DEF DriftOf, Moved
      <3>3. ASSUME NEW h \in Headers, h # op.h, exitMin[h] = NoDuty PROVE DriftOf(h)'
        <4>1. ws'[h] = ws[h] /\ Calmer(ws[h], ws'[h]) /\ DriftOf(h) /\ (Exempt(h) => Exempt(h)')
          BY <1>1, <1>2, <2>1, <3>1, <3>3, CalmerTypes DEF DriftInv, Exempt, Mending
        <4>2. CASE duty'[h] = duty[h]
          BY <1>1, <1>2, <4>1, <4>2, DriftFrame
        <4>3. CASE h \in Unprimed(op.h)
          <5>1. h \in SharedReport /\ duty[h] = 0 /\ ws[h].last # 0 /\ h \notin ModeHeaders
            BY <3>3, <4>3, DriftTypes DEF Unprimed, NoDuty
          <5>2. ws[h].mode => ws[h].last \in Duty /\ ws[h].held = Stores[ws[h].last]
            BY <4>1 DEF DriftOf
          <5>3. ws[h].mode => Moved(h)
            BY <5>1, <5>2 DEF ZeroIsZero, Moved
          <5>4. ~Exempt(h)
            BY <2>1, <3>3, <5>1 DEF Exempt, Mending
          <5>5. ws[h].mode => ws[h].corrections < Happened
            BY <4>1, <5>3, <5>4 DEF DriftOf
          <5>6. Happened' = Happened
            BY <1>1 DEF Happened
          <5> QED BY <4>1, <5>5, <5>6 DEF DriftOf, Moved
        <4> QED BY <3>1, <3>3, <4>2, <4>3 DEF WriteLands
      <3> QED BY <1>1, <2>1, <3>2, <3>3 DEF DriftInv
    <2>3. CASE op.h \notin alive
      <3> DEFINE u == IF op.fix THEN Uncounted(ws[op.h]) ELSE ws[op.h]
      <3>1. UNCHANGED duty /\ ws' = [ws EXCEPT ![op.h] = [u EXCEPT !.mode = FALSE]]
        BY <1>5, <2>3, Zenon DEF OpWrite, WriteFails
      <3>2. u \in WriteStates /\ Calmer(ws[op.h], u)
        BY <1>2, <2>1, CalmerTypes, UncountedType
      <3> HIDE DEF u
      <3>3. Calmer(ws[op.h], ws'[op.h]) /\ ~ws'[op.h].mode
        BY <1>1, <2>1, <3>1, <3>2 DEF Calmer, WriteStates
      <3>4. ASSUME NEW h \in Headers, exitMin[h] = NoDuty PROVE DriftOf(h)'
        <4>1. CASE h = op.h
          BY <1>1, <1>2, <3>3, <3>4, <4>1, DriftFrame DEF DriftInv
        <4>2. CASE h # op.h
          <5>1. ws'[h] = ws[h] /\ Calmer(ws[h], ws'[h]) /\ (Exempt(h) => Exempt(h)')
            BY <1>1, <1>2, <2>1, <3>1, <4>2, CalmerTypes DEF Exempt, Mending
          <5>2. DriftOf(h) /\ duty'[h] = duty[h] /\ budget' <= budget
            BY <1>1, <3>1, <3>4 DEF DriftInv
          <5> QED BY <1>1, <1>2, <5>1, <5>2, DriftFrame
        <4> QED BY <4>1, <4>2
      <3> QED BY <1>1, <2>1, <3>4 DEF DriftInv
    <2> QED BY <2>2, <2>3
  <1>6. CASE OpBack
    <2>1. /\ op.step = "back" /\ op.h \in Headers /\ ws' = [ws EXCEPT ![op.h] = NoState]
          /\ UNCHANGED <<duty, exitMin>> /\ op'.step = "done"
      BY <1>1, <1>6, OpMoves, DriftTypes DEF OpBack, sysfsVars, ControlTypeOK
    <2>2. ASSUME NEW h \in Headers, exitMin[h] = NoDuty PROVE DriftOf(h)'
      <3>1. CASE h = op.h
        <4>1. ws'[h] = NoState /\ Calmer(ws[h], ws'[h]) /\ ~ws'[h].mode
          BY <1>1, <1>2, <2>1, <3>1, CalmerTypes DEF NoState
        <4> QED BY <1>1, <1>2, <2>2, <4>1, DriftFrame DEF DriftInv
      <3>2. CASE h # op.h
        <4>1. ws'[h] = ws[h] /\ Calmer(ws[h], ws'[h]) /\ (Exempt(h) => Exempt(h)')
          BY <1>1, <1>2, <2>1, <3>2, CalmerTypes DEF Exempt, Mending
        <4> QED BY <1>1, <1>2, <2>1, <2>2, <4>1, DriftFrame DEF DriftInv
      <3> QED BY <3>1, <3>2
    <2> QED BY <1>1, <2>1, <2>2 DEF DriftInv
  <1>7. CASE OpReturn
    <2>1. /\ UNCHANGED <<duty, exitMin>> /\ op.step = "done" /\ op'.step = "idle"
          /\ ws' = ws \/ ws' = [ws EXCEPT ![op.h] = NoState]
      BY <1>7, IdleType DEF OpReturn, Forget, sysfsVars
    <2>2. \A h \in Headers : Calmer(ws[h], ws'[h])
      BY <1>1, <1>2, <2>1, CalmerTypes
    <2>3. \A h \in Headers : Exempt(h) => Exempt(h)'
      BY <1>1, <2>1 DEF Exempt, Mending
    <2> QED BY <1>1, <2>1, <2>2, <2>3, DriftQuiet DEF DriftInv
  <1> QED BY <1>3, <1>4, <1>5, <1>6, <1>7 DEF ControlStep

(* Steps of the engine and of a diagnostic: they begin a call, leave every *)
(* header's state as it was or forgotten, or give a header back.           *)
BeginsCall ==
    /\ Free
    /\ \E states \in {ws, ModesForgotten(ws)}, owner \in Owners, by \in Callers :
          \E h \in Headers, pct \in Duty, release \in BOOLEAN :
             /\ set_pwm_from(states, owner, by, h, pct, release)
             /\ release => pct >= ExitFloor /\ h \notin ModeHeaders

Forgets ==
    /\ UNCHANGED <<duty, exitMin, exitRecord, resumed, op>>
    /\ \/ ws' = ws \/ ws' = ModesForgotten(ws)
       \/ \E h \in Headers : ws' = [ws EXCEPT ![h] = NoState]

LEMMA EngineCalls ==
    ASSUME TypeOK, EngineStep
    PROVE  UNCHANGED <<stopping, phase, budget>> /\ (BeginsCall \/ Forgets \/ GivesBack)
  <1>1. /\ ControlTypeOK /\ task \in Tasks /\ \A h \in task.todo : task.pct[h] \in Duty
        /\ lease.owner \in Owners /\ "engine" \in Callers /\ "thermal" \in Owners
    BY WritesAssumption DEF TypeOK, ControlTypeOK, Leases, Owners
  <1>2. CASE TickApply \/ TickIdle \/ TickForce \/ TaskLease \/ TaskForceLease
               \/ TaskListUnheld \/ TaskEnd
    BY <1>2 DEF TickApply, TickIdle, TickForce, TaskLease, TaskForceLease, TaskListUnheld,
         TaskEnd, vars, handBackVars, sysfsVars, ledgerVars, controlVars, stopVars, Forgets
  <1>3. CASE TaskWrite
    <2>1. UNCHANGED <<stopping, phase, budget>> /\ Free
      BY <1>3 DEF TaskWrite, stopVars
    <2>2. PICK h \in task.todo :
             \/ set_pwm_from(ws, lease.owner, "engine", h, task.pct[h], FALSE)
             \/ UNCHANGED <<sysfsVars, controlVars>>
             \/ set_pwm_from(ModesForgotten(ws), "thermal", "engine", h, task.pct[h], FALSE)
      BY <1>3 DEF TaskWrite, set_pwm
    <2>3. h \in Headers /\ task.pct[h] \in Duty
      BY <1>1 DEF Tasks
    <2>4. CASE UNCHANGED <<sysfsVars, controlVars>>
      BY <2>1, <2>4 DEF Forgets, sysfsVars, controlVars
    <2>5. CASE ~UNCHANGED <<sysfsVars, controlVars>>
      BY <1>1, <2>1, <2>2, <2>3, <2>5, Zenon DEF BeginsCall
    <2> QED BY <2>4, <2>5
  <1>4. CASE TaskGiveBack
    <2>1. UNCHANGED <<stopping, disk, phase, floorTodo, undone, found, budget>> /\ Free /\ Up
      BY <1>4 DEF TaskGiveBack, stopVars
    <2>2. PICK h \in task.back :
              \/ UNCHANGED <<sysfsVars, ledgerVars, controlVars>>
              \/ h \in ModeHeaders /\ HandBackHeader("engine", h)
              \/ h \notin ModeHeaders /\ release_no_mode("engine", h)
      BY <1>4 DEF TaskGiveBack
    <2>3. h \in Headers
      BY <1>1 DEF Tasks
    <2>4. CASE UNCHANGED <<sysfsVars, ledgerVars, controlVars>>
      BY <2>1, <2>4 DEF Forgets, sysfsVars, controlVars
    <2>5. CASE h \in ModeHeaders /\ HandBackHeader("engine", h)
      BY <2>1, <2>5 DEF GivesBack
    <2>6. CASE h \notin ModeHeaders /\ release_no_mode("engine", h)
      <3>1. CASE ReleaseDuty(h) # NoDuty
        <4>1. ReleaseDuty(h) \in Duty
          BY <1>1, <2>3, <2>6, <3>1, ExitDutyType DEF ReleaseDuty, Headers
        <4>2. set_pwm_from(ws, lease.owner, "engine", h, ReleaseDuty(h), TRUE)
          BY <2>6, <3>1 DEF release_no_mode, set_pwm
        <4>3. ReleaseDuty(h) >= ExitFloor
          BY <3>1, ControlAssumption DEF ReleaseDuty, exit_duty, Duty
        <4> QED BY <1>1, <2>1, <2>3, <2>6, <4>1, <4>2, <4>3, Zenon DEF BeginsCall
      <3>2. CASE ReleaseDuty(h) = NoDuty
        BY <2>1, <2>3, <2>6, <3>2 DEF release_no_mode, Forget, Forgets, sysfsVars
      <3> QED BY <3>1, <3>2
    <2> QED BY <2>1, <2>2, <2>4, <2>5, <2>6
  <1> QED BY <1>2, <1>3, <1>4 DEF EngineStep

LEMMA DiagCalls ==
    ASSUME TypeOK, NEW d \in Diags, DiagStep(d)
    PROVE  UNCHANGED <<stopping, phase, budget>> /\ (BeginsCall \/ Forgets)
  <1>1. /\ ControlTypeOK /\ diag \in [Diags -> DiagStates]
        /\ lease.owner \in Owners /\ d \in Callers
    BY WritesAssumption DEF TypeOK, ControlTypeOK, Leases, Owners
  <1>2. ASSUME NEW pct \in Duty, NEW next, DiagWrite(d, pct, next), diag[d].pc # "idle", Free
        PROVE  BeginsCall \/ Forgets
    <2>1. CASE validate_lease(diag[d].id)
      <3>1. set_pwm_from(ws, lease.owner, d, diag[d].h, pct, FALSE)
        BY <1>2, <2>1 DEF DiagWrite, set_pwm
      <3>2. diag[d].h \in Headers
        BY <1>2 DEF TypeOK
      <3> QED BY <1>1, <1>2, <3>1, <3>2, Zenon DEF BeginsCall
    <2>2. CASE ~validate_lease(diag[d].id)
      BY <1>2, <2>2 DEF DiagWrite, Forgets, sysfsVars, controlVars
    <2> QED BY <2>1, <2>2
  <1>3. CASE DiagTest(d)
    <2>1. verify_test_duty(diag[d].was) \in Duty
      BY DEF verify_test_duty, Duty
    <2> QED BY <1>2, <1>3, <2>1 DEF DiagTest, stopVars
  <1>4. CASE DiagRestore(d)
    <2>1. diag[d].was \in Duty
      BY SMTT(30), ZenonT(30), <1>1 DEF DiagStates
    <2> QED BY <1>2, <1>4, <2>1 DEF DiagRestore, stopVars
  <1>5. CASE ~DiagTest(d) /\ ~DiagRestore(d)
    BY <1>5 DEF DiagStep, DiagGate, DiagBegin, DiagLease, DiagRead, DiagSettled,
           DiagAbandon, DiagDropLease, DiagDropSlot, DiagDone, handBackVars, sysfsVars,
           controlVars, stopVars, Forgets
  <1> QED BY <1>3, <1>4, <1>5

LEMMA CallsDrift ==
    ASSUME TypeOK, TypeOK', DriftInv, UNCHANGED <<stopping, phase, budget>>, BeginsCall \/ Forgets
    PROVE  DriftInv'
  <1>1. CASE BeginsCall
    BY <1>1, SetPwmDrift, Zenon DEF BeginsCall
  <1>2. CASE Forgets
    <2>1. /\ ws \in [Headers -> WriteStates] /\ budget \in Int
      BY DriftTypes
    <2>2. \A h \in Headers : \/ ws'[h] = ws[h] \/ ws'[h] = NoState
                             \/ ws'[h] = [ws[h] EXCEPT !.mode = FALSE]
      BY <1>2, <2>1 DEF Forgets, ModesForgotten
    <2>3. \A h \in Headers : Calmer(ws[h], ws'[h])
      BY <2>1, <2>2, CalmerTypes
    <2>4. UNCHANGED <<duty, exitMin, op>>
      BY <1>2 DEF Forgets
    <2>5. \A h \in Headers : Exempt(h) => Exempt(h)'
      BY <2>4 DEF Exempt, Mending
    <2> QED BY <2>1, <2>3, <2>4, <2>5, DriftQuiet DEF DriftInv
  <1> QED BY <1>1, <1>2

(* A hand-back that fails leaves the duty where it is, and its count at    *)
(* zero; one that succeeds is followed by the header's state.              *)
LEMMA GivesBackDrift ==
    ASSUME TypeOK, TypeOK', DriftInv, GivesBack, UNCHANGED budget PROVE DriftInv'
  <1>1. PICK h \in ModeHeaders : HandBackHeader("engine", h)
    BY DEF GivesBack
  <1>2. /\ ControlTypeOK /\ StopTypeOK /\ ws \in [Headers -> WriteStates]
        /\ ws' \in [Headers -> WriteStates] /\ duty \in [Headers -> Duty]
        /\ budget' \in Int /\ budget' <= budget /\ h \in Headers /\ UNCHANGED <<stopping, phase>>
        /\ op.step = "idle"
    BY DriftTypes, IdleType DEF TypeOK, ControlTypeOK, GivesBack, Free
  <1>3. PICK result \in hand_back(h, TakenAction(original, h)) :
           /\ duty' = [duty EXCEPT ![h] = result.duty] /\ UNCHANGED exitMin
           /\ IF released(result)
              THEN op'.step = "back" /\ op'.h = h /\ UNCHANGED ws
              ELSE /\ op'.step = "done"
                   /\ ws' = [ws EXCEPT ![h] = [NoState EXCEPT !.entry = ws[h].entry,
                         !.last = ws[h].last, !.mode = ws[h].mode, !.held = ws[h].held]]
    BY <1>1 DEF HandBackHeader, PerformHandBack, Idle
  <1>4. ~released(result) => result.duty = duty[h]
    BY DEF hand_back, full_speed, Result, released
  <1>5. ws[h] \in WriteStates /\ ws'[h] \in WriteStates
    BY <1>2
  <1>6. Calmer(ws[h], ws'[h])
    <2>1. CASE released(result)
      BY <1>3, <1>5, <2>1, CalmerTypes
    <2>2. CASE ~released(result)
      <3>1. ws'[h] = [NoState EXCEPT !.entry = ws[h].entry, !.last = ws[h].last,
                                     !.mode = ws[h].mode, !.held = ws[h].held]
        BY <1>2, <1>3, <2>2
      <3>2. /\ ws'[h].mode = ws[h].mode /\ ws'[h].last = ws[h].last
            /\ ws'[h].held = ws[h].held /\ ws'[h].corrections = 0 /\ ~ws'[h].notHolding
        BY <3>1 DEF NoState
      <3> QED BY <1>5, <3>2 DEF Calmer, WriteStates
    <2> QED BY <2>1, <2>2
  <1>7. \/ duty'[h] = duty[h] /\ (Exempt(h) => Exempt(h)')
        \/ Exempt(h)'
    BY <1>2, <1>3, <1>4 DEF Exempt, Mending
  <1>8. ASSUME NEW x \in Headers, exitMin[x] = NoDuty PROVE DriftOf(x)'
    <2>1. CASE x = h
      BY <1>2, <1>5, <1>6, <1>7, <1>8, <2>1, DriftFrame DEF DriftInv
    <2>2. CASE x # h
      <3>1. /\ ws'[x] = ws[x] /\ ws[x] \in WriteStates /\ duty'[x] = duty[x]
        BY <1>2, <1>3, <2>2
      <3>2. Calmer(ws[x], ws'[x]) /\ (Exempt(x) => Exempt(x)')
        BY <1>2, <3>1, CalmerTypes DEF Exempt, Mending
      <3>3. DriftOf(x)
        BY <1>8 DEF DriftInv
      <3> QED BY <1>2, <3>1, <3>2, <3>3, DriftFrame
    <2> QED BY <2>1, <2>2
  <1>9. op'.step # "floor"
    BY <1>3
  <1> QED BY <1>2, <1>3, <1>8, <1>9 DEF DriftInv

LEMMA StopStepDrift ==
    ASSUME TypeOK, TypeOK', LedgerInv, DriftInv, StopStep PROVE DriftInv'
  <1>1. /\ ControlTypeOK /\ StopTypeOK /\ ws \in [Headers -> WriteStates]
        /\ ws' \in [Headers -> WriteStates] /\ duty \in [Headers -> Duty]
        /\ budget' \in Int /\ budget \in Int
        /\ floorTodo \subseteq NoModeHeaders /\ stopTodo \subseteq ModeHeaders
        /\ \A h \in Headers : ws[h] \in WriteStates /\ ws'[h] \in WriteStates
    BY DriftTypes DEF TypeOK, ControlTypeOK
  <1>2. CASE StopBegin \/ StopFloor \/ StopFlag \/ StopSnapshot \/ ExecStopPostDone \/ Start
    <2>1. /\ UNCHANGED <<duty, exitMin, ws, op, budget>>
          /\ stopping' = stopping \/ stopping'
          /\ phase' \in {"flagged", "hand_back"} => stopping' \/ phase \in {"flagged", "hand_back"}
      BY <1>2 DEF StopBegin, StopFloor, StopFlag, StopSnapshot, ExecStopPostDone, Start,
             handBackVars, sysfsVars, controlVars
    <2>2. \A h \in Headers : Calmer(ws[h], ws'[h]) /\ (Exempt(h) => Exempt(h)')
      BY <1>1, <2>1, CalmerTypes DEF Exempt, Mending
    <2>3. phase' \in {"flagged", "hand_back"} => stopping'
      BY <2>1 DEF DriftInv
    <2> QED BY <1>1, <2>1, <2>2, <2>3, DriftQuiet
  <1>3. CASE StopHandBack \/ ExecStopPost
    <2>1. /\ UNCHANGED <<ws, op, exitMin, stopping, phase, budget>>
          /\ \E h \in ModeHeaders : \E d : duty' = [duty EXCEPT ![h] = d]
          /\ phase = "hand_back" \/ ~Up
      BY <1>1, <1>3
         DEF StopHandBack, ExecStopPost, PerformHandBack, controlVars, stopVars, Up
    <2>2. ASSUME NEW h \in Headers, exitMin[h] = NoDuty PROVE DriftOf(h)'
      <3>1. Calmer(ws[h], ws'[h]) /\ DriftOf(h) /\ (Exempt(h) => Exempt(h)')
        BY <1>1, <2>1, <2>2, CalmerTypes DEF DriftInv, Exempt, Mending
      <3>2. CASE duty'[h] = duty[h]
        BY <1>1, <2>1, <3>1, <3>2, DriftFrame
      <3>3. CASE h \in ModeHeaders
        <4>1. ~ws'[h].mode \/ Exempt(h)'
          BY <2>1, <3>3 DEF LedgerInv, EndedInv, DriftInv, Exempt
        <4> QED BY <1>1, <2>1, <3>1, <4>1, DriftFrame
      <3> QED BY <1>1, <2>1, <3>2, <3>3
    <2> QED BY <2>1, <2>2 DEF DriftInv
  <1>4. CASE FloorLatch
    <2>1. /\ UNCHANGED <<duty, ws, stopping, phase, budget>> /\ op.step = "idle"
          /\ \A h \in Headers \ NoModeHeaders : exitMin'[h] = exitMin[h]
          /\ \A h \in NoModeHeaders :
                exitMin'[h] \in {ExitFloor, exit_duty(exitRecord[h], ExitFloor)}
      BY SMTT(30), ZenonT(30), <1>4, IdleType, DriftTypes
         DEF FloorLatch, LatchExitFloor, sysfsVars, Free, stopVars
    <2>2. \A h \in NoModeHeaders : exitMin'[h] # NoDuty
      BY <2>1, ExitDutyType, FloorIsDuty
    <2>3. ASSUME NEW h \in Headers, exitMin'[h] = NoDuty PROVE DriftOf(h)'
      <3>1. exitMin[h] = NoDuty
        BY <2>1, <2>2, <2>3
      <3>2. Calmer(ws[h], ws'[h]) /\ DriftOf(h) /\ (Exempt(h) => Exempt(h)')
        BY <1>1, <2>1, <3>1, CalmerTypes DEF DriftInv, Exempt, Mending
      <3> QED BY <1>1, <2>1, <3>2, DriftFrame
    <2> QED BY <2>1, <2>2, <2>3 DEF DriftInv
  <1>5. CASE FloorRaise
    <2>1. PICK h \in floorTodo : RaiseToFloor(h)
      BY <1>5 DEF FloorRaise
    <2>2. /\ UNCHANGED <<op, exitMin, stopping, phase, budget>> /\ op.step = "floor"
      BY <1>5, <2>1 DEF FloorRaise, RaiseToFloor, stopVars
    <2>3. ASSUME NEW x \in Headers, exitMin[x] = NoDuty PROVE DriftOf(x)'
      <3>1. x \notin NoModeHeaders /\ x # h /\ x \notin Unprimed(h)
        BY <1>1, <2>1, <2>2, <2>3, DriftTypes DEF DriftInv, Unprimed
      <3>2. duty'[x] = duty[x] /\ ws'[x] = ws[x]
        BY <1>1, <2>1, <2>3, <3>1 DEF RaiseToFloor, WriteLands
      <3>3. Calmer(ws[x], ws'[x]) /\ DriftOf(x) /\ (Exempt(x) => Exempt(x)')
        BY <1>1, <2>2, <2>3, <3>2, CalmerTypes DEF DriftInv, Exempt, Mending
      <3> QED BY <1>1, <2>2, <3>2, <3>3, DriftFrame
    <2> QED BY <2>2, <2>3 DEF DriftInv
  <1>6. CASE FloorEnd
    <2>1. UNCHANGED <<duty, exitMin, ws, stopping, phase, budget>> /\ op.step = "floor"
          /\ op'.step = "idle"
      BY <1>6, IdleType DEF FloorEnd, FloorDone, sysfsVars, stopVars
    <2>2. \A h \in Headers : Calmer(ws[h], ws'[h]) /\ (Exempt(h) => Exempt(h)')
      BY <1>1, <2>1, CalmerTypes DEF Exempt, Mending
    <2> QED BY <1>1, <2>1, <2>2, DriftQuiet DEF DriftInv
  <1>7. CASE Exit
    <2>1. /\ op'.step = "idle" /\ phase' = "exited"
          /\ \A h \in Headers : ws'[h] = NoState
          /\ UNCHANGED budget
      BY <1>7, IdleType DEF Exit
    <2>2. ASSUME NEW h \in Headers PROVE DriftOf(h)'
      BY <1>1, <2>1, WritesAssumption DEF DriftOf, Moved, NoState, Happened, StopTypeOK
    <2> QED BY <2>1, <2>2 DEF DriftInv
  <1> QED BY <1>2, <1>3, <1>4, <1>5, <1>6, <1>7 DEF StopStep

LEMMA EnvStepDrift == ASSUME TypeOK, TypeOK', DriftInv, EnvStep PROVE DriftInv'
  <1>1. /\ ControlTypeOK /\ StopTypeOK /\ ws \in [Headers -> WriteStates]
        /\ budget' \in Int /\ budget \in Int
    BY DriftTypes DEF TypeOK, StopTypeOK
  <1>2. /\ UNCHANGED <<ws, op, exitMin, stopping, phase>> /\ budget' = budget - 1
    BY DEF EnvStep, Reclaim, Meddle, ChipAnswers, Resume, Expires, Deadman, ForceChange,
           ProfileChange, DiskChange, Event, Calm, handBackVars, controlVars
  <1>3. ASSUME NEW h \in Headers, exitMin[h] = NoDuty PROVE DriftOf(h)'
    <2>1. Calmer(ws[h], ws'[h]) /\ DriftOf(h) /\ ws'[h] \in WriteStates
      BY <1>1, <1>2, <1>3, CalmerTypes DEF DriftInv
    <2> QED BY <1>1, <1>2, <2>1, DriftFrame
  <1> QED BY <1>2, <1>3 DEF DriftInv

LEMMA DriftStep ==
    ASSUME ZeroIsZero
    PROVE  TypeOK /\ TypeOK' /\ LedgerInv /\ DriftInv /\ [Next]_vars => DriftInv'
  <1> SUFFICES ASSUME TypeOK, TypeOK', LedgerInv, DriftInv, [Next]_vars PROVE DriftInv'
    OBVIOUS
  <1>1. CASE UNCHANGED vars
    BY <1>1 DEF vars, handBackVars, sysfsVars, controlVars, stopVars, DriftInv, DriftOf, Moved,
                Exempt, Mending, Happened
  <1>2. CASE EngineStep
    BY <1>2, EngineCalls, CallsDrift, GivesBackDrift
  <1>3. CASE \E d \in Diags : DiagStep(d)
    BY <1>3, DiagCalls, CallsDrift
  <1> QED BY <1>1, <1>2, <1>3, ControlStepDrift, StopStepDrift, EnvStepDrift DEF Next

(* duty_not_holding is raised against a header only when events of the     *)
(* environment have moved it more often than the controller corrects:      *)
(* never over a coarse chip, a failed or refused write, a diagnostic, the  *)
(* priming of its siblings or a hand-back; until the exit floor, which is  *)
(* not read back, latches its minimum (reconcile_decision, DEC-406).       *)
THEOREM ReportedForAReason ==
    Spec => [](ZeroIsZero => \A h \in Headers : exitMin[h] = NoDuty => ReportEarned(h))
  <1> DEFINE DInv == ZeroIsZero => DriftInv
  <1>1. Init => DInv
    <2> SUFFICES ASSUME Init PROVE DriftInv
      OBVIOUS
    <2>1. \A h \in Headers : ws[h] = NoState /\ budget = EnvBudget /\ phase = "running"
      BY DEF Init, ControlInit
    <2>2. op.step = "idle" /\ budget = EnvBudget /\ phase = "running" /\ EnvBudget \in Nat
      BY IdleType, WritesAssumption DEF Init, ControlInit
    <2> QED BY <2>1, <2>2 DEF DriftInv, DriftOf, Moved, NoState, Happened
  <1>2. TypeOK /\ TypeOK' /\ LedgerInv /\ DInv /\ [Next]_vars => DInv'
    BY DriftStep DEF ZeroIsZero
  <1>3. DInv => (ZeroIsZero => \A h \in Headers : exitMin[h] = NoDuty => ReportEarned(h))
    BY DEF DriftInv, DriftOf, Happened, ReportEarned
  <1> QED BY <1>1, <1>2, <1>3, HwmonTypeCorrect, LedgerAlways, PTL DEF Spec

(* A minimum is latched only of a header without a mode switch, and only   *)
(* where an exit floor is set.                                             *)
LatchInv ==
    \A h \in Headers : exitMin[h] # NoDuty => h \in NoModeHeaders /\ ExitFloor > 0

LEMMA LatchStep == TypeOK /\ LatchInv /\ [Next]_vars => LatchInv'
  <1> SUFFICES ASSUME TypeOK, LatchInv, [Next]_vars PROVE LatchInv'
    OBVIOUS
  <1>1. CASE StopStep
    <2>1. CASE FloorLatch
      BY <2>1 DEF FloorLatch, LatchExitFloor, LatchInv
    <2>2. CASE Exit
      BY <2>2 DEF Exit, LatchInv
    <2>3. CASE ~FloorLatch /\ ~Exit
      <3>1. UNCHANGED exitMin
        BY <1>1, <2>3 DEF StopStep, StopBegin, StopFloor, FloorRaise, RaiseToFloor, FloorEnd,
               FloorDone, StopFlag, StopSnapshot, StopHandBack, ExecStopPost,
               ExecStopPostDone, Start, handBackVars, controlVars
      <3> QED BY <3>1 DEF LatchInv
    <2> QED BY <2>1, <2>2, <2>3
  <1>2. CASE ControlStep
    BY <1>2 DEF ControlStep, OpNote, OpTake, OpEnable, OpCheck, OpWrite, OpBack, OpReturn,
           LatchInv
  <1>3. CASE UNCHANGED vars \/ Still \/ Begun \/ GivesBack \/ Reclaim \/ Meddle \/ Resume
    BY <1>3 DEF vars, Still, Begun, GivesBack, HandBackHeader, Reclaim, Meddle, Resume,
           controlVars, LatchInv
  <1> QED BY <1>1, <1>2, <1>3, StepKinds

(* Hence of every header, where no exit floor is set or every header has a *)
(* mode switch (duty_not_holding, DUTY_CORRECTION_ATTEMPTS).               *)
THEOREM NotHoldingIsEarned ==
    Spec => [](ZeroIsZero /\ (ExitFloor = 0 \/ NoModeHeaders = {}) => NotHoldingEarned)
  <1>1. Init => LatchInv
    BY SMTT(30), ZenonT(30) DEF Init, ControlInit, LatchInv
  <1>2. LatchInv /\ (ZeroIsZero => \A h \in Headers : exitMin[h] = NoDuty => ReportEarned(h)) =>
          (ZeroIsZero /\ (ExitFloor = 0 \/ NoModeHeaders = {}) => NotHoldingEarned)
    BY ControlAssumption DEF LatchInv, NotHoldingEarned, Duty
  <1> QED BY <1>1, <1>2, LatchStep, ReportedForAReason, HwmonTypeCorrect, PTL DEF Spec

----------------------------------------------------------------------------
(* Letting go of a header without a mode switch.  Of such a header in      *)
(* manual mode the controller knows the duty: it is the one it last        *)
(* commanded or, primed with a sibling's write, full speed, and it is in   *)
(* the register.  A write in flight does not know yet, and a resume that   *)
(* has not been noticed has cleared the register.                          *)
Known(h) ==
    ws[h].mode /\ ~resumed /\ ~(op.h = h /\ op.step = "write") =>
        /\ ws[h].last \in Duty /\ exitRecord[h] \in {ws[h].last, 100}
        /\ duty[h] = Stores[exitRecord[h]]

KnownInv == \A h \in NoModeHeaders : exitMin[h] = NoDuty => Known(h)

(* A release that has written, or found nothing to write, stands at the    *)
(* exit floor; nothing is latched while the daemon still runs.             *)
LetGoInv ==
    /\ op.step \in {"note", "take", "enable", "check", "write"} =>
          ~op.ok /\ (op.release => op.pct >= ExitFloor)
    /\ op.release /\ op.step = "done" /\ op.ok /\ exitMin[op.h] = NoDuty =>
          exitRecord[op.h] >= ExitFloor
    /\ op.step = "floor" => \A h \in NoModeHeaders : exitMin[h] # NoDuty
    /\ phase \in {"running", "draining", "exited", "down"} =>
          op.step # "floor" /\ \A h \in Headers : exitMin[h] = NoDuty

ReleaseInv == KnownInv /\ LetGoInv

(* Where releases reach the floor: one is set, no other program writes the *)
(* headers, and a chip that sends every channel stores no duty as zero.    *)
Releasable == ExitFloor > 0 /\ ZeroIsZero /\ Unmoved

(* set_pwm again, as far as a release depends on it. *)
LEMMA SetPwmKnown ==
    ASSUME ControlTypeOK, NEW states \in [Headers -> WriteStates], NEW owner, NEW by,
           NEW h \in Headers, NEW pct \in Duty, NEW release \in BOOLEAN,
           set_pwm_from(states, owner, by, h, pct, release)
    PROVE  /\ ~resumed' /\ UNCHANGED <<duty, exitRecord, exitMin>>
           /\ op'.release = release /\ op'.pct = effective_pct(h, pct)
           /\ \A x \in Headers : ws'[x].mode => /\ states[x].mode /\ ~resumed
                                                /\ ws'[x].last = states[x].last
           /\ op'.ok => ws'[h].mode /\ ws'[h].last = op'.pct
  <1> DEFINE reconciles  == owner # "verify"
             effective   == effective_pct(h, pct)
             noted       == IF resumed THEN ModesForgotten(states) ELSE states
             w           == [noted[h] EXCEPT !.entry = TRUE,
                                             !.mode = @ /\ ~enable_reclaimed(h, noted[h])]
             expected    == ExpectedDuty(w, effective)
             coalescible == reconciles /\ w.mode /\ w.last = effective
             fix         == coalescible /\ Rewrites(expected, Readback(h), w)
             call        == [Idle EXCEPT !.by = by, !.h = h, !.pct = effective,
                                         !.reconciles = reconciles, !.fix = fix,
                                         !.release = release]
             st          == IF coalescible /\ ~fix THEN "done"
                            ELSE IF h \in ModeHeaders /\ ~w.mode THEN "note" ELSE "check"
             good        == coalescible /\ ~fix
             v           == IF coalescible THEN DriftAfter(expected, Readback(h), w) ELSE w
  <1>1. ~resumed' /\ UNCHANGED <<duty, exitRecord, exitMin>>
    BY DEF set_pwm_from, sysfsVars
  <1>2. \/ /\ ws' = noted
           /\ op' = [call EXCEPT !.step = "done"]
        \/ /\ ws' = [noted EXCEPT ![h] = v]
           /\ op' = [call EXCEPT !.step = st, !.ok = good]
    BY Zenon DEF set_pwm_from
  <1>3. /\ call.release = release /\ call.pct = effective /\ ~call.ok
        /\ DOMAIN call = DOMAIN Idle
    <2> HIDE DEF effective, reconciles, fix
    <2> QED BY DEF Idle
  <1>4. /\ op'.release = release /\ op'.pct = effective
        /\ \/ ws' = noted /\ ~op'.ok
           \/ ws' = [noted EXCEPT ![h] = v] /\ op'.ok = good
    <2> HIDE DEF call, st, good, noted, v, effective
    <2> QED BY <1>2, <1>3 DEF Idle
  <1>5. /\ noted \in [Headers -> WriteStates]
        /\ \A x \in Headers : noted[x].mode => /\ states[x].mode /\ ~resumed
                                               /\ noted[x].last = states[x].last
    BY ModesForgottenType
  <1>6. w \in WriteStates /\ w.last = noted[h].last /\ (w.mode => noted[h].mode)
    <2> DEFINE m == noted[h].mode /\ ~enable_reclaimed(h, noted[h])
    <2>1. m \in BOOLEAN /\ (m => noted[h].mode)
      OBVIOUS
    <2>2. noted[h] \in WriteStates
      BY <1>5
    <2>3. w = [noted[h] EXCEPT !.entry = TRUE, !.mode = m]
      BY Zenon
    <2> HIDE DEF m, noted, w
    <2> QED BY <2>1, <2>2, <2>3 DEF WriteStates
  <1>7. v.mode = w.mode /\ v.last = w.last
    <2>1. CASE ~coalescible
      BY <2>1
    <2>2. CASE coalescible
      <3>1. effective \in Duty /\ Readback(h) \in Int
        BY SMTT(30), ZenonT(30) DEF effective_pct, ControlTypeOK, HandBackTypeOK, Duty, NoDuty, Readback
      <3> HIDE DEF w, effective
      <3>2. expected \in Int
        BY <1>6, <3>1 DEF ExpectedDuty, WriteStates, Duty, NoDuty
      <3> HIDE DEF expected
      <3>3. /\ DriftAfter(expected, Readback(h), w).mode = w.mode
            /\ DriftAfter(expected, Readback(h), w).last = w.last
        <4> DEFINE d == DriftAfter(expected, Readback(h), w)
        <4>1. \/ Calmer(w, d)
              \/ d = [w EXCEPT !.notHolding = TRUE]
              \/ d = [w EXCEPT !.corrections = @ + 1, !.episode = TRUE]
          BY <1>6, <3>1, <3>2, DriftAfterEffect
        <4>2. d \in WriteStates /\ d.mode = w.mode
          BY <1>6, <3>1, <3>2, DriftAfterType
        <4>3. w.mode
          BY <2>2 DEF coalescible
        <4> QED BY <1>6, <4>1, <4>2, <4>3 DEF Calmer, WriteStates
      <3> HIDE DEF coalescible
      <3> QED BY <2>2, <3>3
    <2> QED BY <2>1, <2>2
  <1>8. good => w.mode /\ w.last = effective
    BY Zenon
  <1> HIDE DEF w, v, noted, good
  <1> QED BY <1>1, <1>4, <1>5, <1>6, <1>7, <1>8

LEMMA KnownFrame ==
    ASSUME NEW h \in Headers, Known(h), resumed => resumed' \/ ~ws'[h].mode,
           ws'[h].mode => ws[h].mode /\ ws'[h].last = ws[h].last,
           duty'[h] = duty[h], exitRecord'[h] = exitRecord[h],
           op.h = h /\ op.step = "write" => op'.h = h /\ op'.step = "write"
    PROVE  Known(h)'
  BY DEF Known

LEMMA BeginsCallRelease ==
    ASSUME TypeOK, ReleaseInv, BeginsCall, UNCHANGED phase PROVE ReleaseInv'
  <1>1. PICK states \in {ws, ModesForgotten(ws)}, owner \in Owners, by \in Callers :
          \E h \in Headers, pct \in Duty, release \in BOOLEAN :
             /\ set_pwm_from(states, owner, by, h, pct, release)
             /\ release => pct >= ExitFloor /\ h \notin ModeHeaders
    BY Zenon DEF BeginsCall
  <1>2. PICK h \in Headers, pct \in Duty, release \in BOOLEAN :
             /\ set_pwm_from(states, owner, by, h, pct, release)
             /\ release => pct >= ExitFloor /\ h \notin ModeHeaders
    BY <1>1, Zenon
  <1>3. /\ ControlTypeOK /\ ws \in [Headers -> WriteStates]
    BY DriftTypes
  <1>4. /\ states \in [Headers -> WriteStates]
        /\ \A x \in Headers : states[x].mode => ws[x].mode /\ states[x].last = ws[x].last
    <2>1. CASE states = ws
      BY <1>3, <2>1
    <2>2. CASE states = ModesForgotten(ws)
      BY <1>3, <2>2, ModesForgottenType
    <2> QED BY <2>1, <2>2
  <1>5. /\ op.step = "idle"
        /\ exitMin \in [Headers -> Duty \cup {NoDuty}] /\ NoModeHeaders \subseteq Headers
        /\ h \notin ModeHeaders => h \in NoModeHeaders
    BY DriftTypes, IdleType DEF BeginsCall, Free, Headers
  <1>6. /\ ~resumed' /\ UNCHANGED <<duty, exitRecord, exitMin>>
        /\ op'.release = release /\ op'.pct = effective_pct(h, pct)
        /\ \A x \in Headers : ws'[x].mode => /\ states[x].mode /\ ~resumed
                                             /\ ws'[x].last = states[x].last
        /\ op'.ok => ws'[h].mode /\ ws'[h].last = op'.pct
    BY <1>3, <1>4, <1>2, SetPwmKnown
  <1>7. /\ op'.h = h /\ op'.step \in {"done", "note", "check"} /\ (op'.ok => op'.step = "done")
    BY SMTT(30), ZenonT(30), <1>3, <1>4, <1>2, SetPwmCall
  <1>8. release => op'.pct >= ExitFloor
    BY <1>2, <1>5, <1>6, EffectiveNoLess
  <1>9. ASSUME NEW x \in NoModeHeaders, exitMin'[x] = NoDuty PROVE Known(x)'
    BY <1>4, <1>5, <1>6, <1>9, KnownFrame DEF ReleaseInv, KnownInv
  <1>10. KnownInv'
    BY <1>9 DEF KnownInv
  <1>11. ASSUME release, op'.ok, exitMin'[h] = NoDuty PROVE exitRecord'[h] >= ExitFloor
    <2>1. exitRecord'[h] \in {op'.pct, 100}
      BY <1>2, <1>5, <1>6, <1>7, <1>9, <1>11 DEF Known
    <2> QED BY <1>8, <1>11, <2>1, ControlAssumption DEF Duty
  <1> QED BY <1>5, <1>6, <1>7, <1>8, <1>10, <1>11 DEF ReleaseInv, LetGoInv

LEMMA ForgetsRelease ==
    ASSUME TypeOK, ReleaseInv, Forgets, UNCHANGED phase PROVE ReleaseInv'
  <1>1. ws \in [Headers -> WriteStates] /\ NoModeHeaders \subseteq Headers
    BY DriftTypes
  <1>2. \A h \in Headers : \/ ws'[h] = ws[h] \/ ws'[h] = NoState
                           \/ ws'[h] = [ws[h] EXCEPT !.mode = FALSE]
    BY <1>1 DEF Forgets, ModesForgotten
  <1>3. \A h \in Headers : ws'[h].mode => ws[h].mode /\ ws'[h].last = ws[h].last
    <2> TAKE h \in Headers
    <2>1. ws[h] \in WriteStates
      BY <1>1
    <2>2. ~NoState.mode /\ ~[ws[h] EXCEPT !.mode = FALSE].mode
      BY <2>1 DEF NoState, WriteStates
    <2> QED BY <1>2, <2>2
  <1>4. ASSUME NEW h \in NoModeHeaders, exitMin'[h] = NoDuty PROVE Known(h)'
    BY <1>1, <1>3, <1>4, KnownFrame DEF Forgets, ReleaseInv, KnownInv
  <1> QED BY <1>4 DEF Forgets, ReleaseInv, KnownInv, LetGoInv

LEMMA GivesBackRelease ==
    ASSUME TypeOK, ReleaseInv, GivesBack PROVE ReleaseInv'
  <1>1. PICK h \in ModeHeaders : HandBackHeader("engine", h)
    BY DEF GivesBack
  <1>2. /\ ws \in [Headers -> WriteStates] /\ duty \in [Headers -> Duty]
        /\ NoModeHeaders \subseteq Headers /\ h \notin NoModeHeaders /\ h \in Headers
        /\ op.step = "idle"
    BY DriftTypes, IdleType DEF GivesBack, Free
  <1>3. /\ UNCHANGED <<resumed, exitRecord, exitMin, phase>>
        /\ op'.step \in {"back", "done"} /\ ~op'.release
        /\ \E d : duty' = [duty EXCEPT ![h] = d]
        /\ ws' = ws \/ \E w : ws' = [ws EXCEPT ![h] = w]
    BY ZenonT(60), <1>1 DEF GivesBack, HandBackHeader, PerformHandBack, Idle
  <1>4. ASSUME NEW x \in NoModeHeaders, exitMin'[x] = NoDuty PROVE Known(x)'
    <2>1. duty'[x] = duty[x] /\ ws'[x] = ws[x]
      BY <1>2, <1>3
    <2> QED BY <1>2, <1>3, <1>4, <2>1, KnownFrame DEF ReleaseInv, KnownInv
  <1> QED BY <1>2, <1>3, <1>4 DEF ReleaseInv, KnownInv, LetGoInv

LEMMA ControlStepRelease ==
    ASSUME ZeroIsZero, TypeOK, ReleaseInv, ControlStep PROVE ReleaseInv'
  <1>1. /\ ControlTypeOK /\ op \in Calls /\ duty \in [Headers -> Duty]
        /\ ws \in [Headers -> WriteStates] /\ UNCHANGED phase
        /\ exitRecord \in [Headers -> Duty \cup {NoDuty, NotWritten}]
        /\ NoModeHeaders \subseteq Headers /\ ModeHeaders \cap NoModeHeaders = {}
        /\ Headers = ModeHeaders \cup NoModeHeaders
        /\ op.release => op.h \in NoModeHeaders
        /\ op.step \in {"check", "write"} => op.h \in Headers
        /\ op.step \in {"note", "take", "enable", "back"} => op.h \in ModeHeaders
    BY DriftTypes DEF ControlTypeOK, ControlStep, stopVars, Headers
  <1>2. CASE OpNote \/ OpTake \/ OpEnable
    <2>1. /\ UNCHANGED <<duty, exitMin, exitRecord, resumed, ws>> /\ op'.ok = op.ok
          /\ op.step \in {"note", "take", "enable"} /\ op'.step \in {"take", "enable", "check", "done"}
          /\ op'.release = op.release
      BY ZenonT(60), <1>1, <1>2, OpMoves DEF OpNote, OpTake, OpEnable, sysfsVars, Calls
    <2>2. ~op.release
      BY <1>1, <2>1
    <2>3. ASSUME NEW h \in NoModeHeaders, exitMin'[h] = NoDuty PROVE Known(h)'
      BY <1>1, <2>1, <2>3, KnownFrame DEF ReleaseInv, KnownInv
    <2> QED BY <1>1, <2>1, <2>2, <2>3 DEF ReleaseInv, KnownInv, LetGoInv
  <1>3. CASE OpCheck
    <2>1. /\ UNCHANGED <<duty, exitMin, resumed>> /\ op.step = "check"
          /\ op'.h = op.h /\ op'.pct = op.pct /\ op'.ok = op.ok /\ op'.release = op.release
          /\ \/ op'.step = "write" /\ UNCHANGED ws
             \/ /\ op'.step = "done" /\ refused(op.h)
                /\ ws' = ws \/ ws' = [ws EXCEPT ![op.h] = Uncounted(@)]
          /\ exitRecord' = IF op.h \in NoModeHeaders
                           THEN [exitRecord EXCEPT ![op.h] = NoDuty] ELSE exitRecord
      BY <1>1, <1>3 DEF OpCheck, sysfsVars, Calls
    <2>2. op'.step = "done" => op.h \notin NoModeHeaders /\ ~op.release
      BY <1>1, <2>1 DEF refused
    <2>3. ASSUME NEW h \in NoModeHeaders, exitMin'[h] = NoDuty PROVE Known(h)'
      <3>1. CASE h = op.h
        BY <2>1, <2>2, <2>3, <3>1 DEF Known
      <3>2. CASE h # op.h
        <4>1. ws'[h] = ws[h] /\ exitRecord'[h] = exitRecord[h]
          BY <1>1, <2>1, <3>2
        <4> QED BY <1>1, <2>1, <2>3, <3>2, <4>1, KnownFrame DEF ReleaseInv, KnownInv
      <3> QED BY <3>1, <3>2
    <2> QED BY <1>1, <2>1, <2>2, <2>3 DEF ReleaseInv, KnownInv, LetGoInv
  <1>4. CASE OpWrite
    <2>1. /\ op.step = "write" /\ op.h \in Headers /\ op.pct \in Duty
          /\ UNCHANGED <<exitMin, resumed>> /\ ~op.ok
          /\ op'.step = "done" /\ op'.h = op.h /\ op'.release = op.release
          /\ op.release => op.pct >= ExitFloor
      BY ZenonT(60), <1>1, <1>4 DEF OpWrite, Calls, ReleaseInv, LetGoInv
    <2>2. CASE op.h \in alive
      <3>1. /\ WriteLands(op.h, op.pct)
            /\ ws' = [ws EXCEPT ![op.h] = StateAfterWrite(@, op.pct, op.fix, op.reconciles)]
        BY <1>4, <2>2 DEF OpWrite
      <3>2. /\ \A x \in Headers :
                /\ duty'[x] = IF x = op.h THEN Stores[op.pct]
                              ELSE IF x \in Unprimed(op.h) THEN Stores[100] ELSE duty[x]
                /\ exitRecord'[x] = IF x = op.h /\ op.h \in NoModeHeaders THEN op.pct
                                    ELSE IF x \in Unprimed(op.h) THEN 100 ELSE exitRecord[x]
        BY <3>1 DEF WriteLands
      <3>3. ws'[op.h].last = op.pct
        <4>1. ws'[op.h] = StateAfterWrite(ws[op.h], op.pct, op.fix, op.reconciles)
          BY <1>1, <2>1, <3>1
        <4> DEFINE w == ws[op.h]
                   c == IF op.reconciles /\ ~op.fix THEN 0 ELSE w.corrections
                   n == w.notHolding /\ ~(op.reconciles /\ ~op.fix)
        <4>2. ws'[op.h] = [w EXCEPT !.entry = TRUE, !.last = op.pct, !.mode = TRUE,
                                    !.held = Stores[op.pct], !.corrections = c, !.notHolding = n]
          BY <4>1, Zenon DEF StateAfterWrite
        <4>3. w \in WriteStates
          BY <1>1, <2>1
        <4> HIDE DEF w, c, n
        <4> QED BY <4>2, <4>3 DEF WriteStates
      <3>4. ASSUME NEW h \in NoModeHeaders, exitMin'[h] = NoDuty PROVE Known(h)'
        <4>1. CASE h = op.h
          BY <1>1, <2>1, <3>2, <3>3, <4>1 DEF Known
        <4>2. CASE h # op.h
          <5>1. ws'[h] = ws[h]
            BY <1>1, <3>1, <4>2
          <5>2. CASE h \in Unprimed(op.h)
            BY <1>1, <2>1, <3>2, <3>4, <4>2, <5>1, <5>2 DEF ReleaseInv, KnownInv, Known
          <5>3. CASE h \notin Unprimed(op.h)
            BY <1>1, <2>1, <3>2, <3>4, <4>2, <5>1, <5>3, KnownFrame DEF ReleaseInv, KnownInv
          <5> QED BY <5>2, <5>3
        <4> QED BY <4>1, <4>2
      <3>5. op'.release => exitRecord'[op.h] >= ExitFloor
        BY <1>1, <2>1, <3>2
      <3> QED BY <1>1, <2>1, <3>4, <3>5 DEF ReleaseInv, KnownInv, LetGoInv
    <2>3. CASE op.h \notin alive
      <3>1. /\ UNCHANGED duty /\ op'.ok = op.ok /\ WriteFails(op.h)
            /\ \E w : ws' = [ws EXCEPT ![op.h] = w] /\ ~w.mode
        <4> DEFINE u == IF op.fix THEN Uncounted(ws[op.h]) ELSE ws[op.h]
        <4>1. /\ ws' = [ws EXCEPT ![op.h] = [u EXCEPT !.mode = FALSE]]
              /\ op' = [op EXCEPT !.step = "done"] /\ WriteFails(op.h)
          BY <1>4, <2>3, Zenon DEF OpWrite
        <4>2. u \in WriteStates
          BY <1>1, <2>1, UncountedType
        <4> HIDE DEF u
        <4>3. ~[u EXCEPT !.mode = FALSE].mode
          BY <4>2 DEF WriteStates
        <4> QED BY <1>1, <4>1, <4>3 DEF Calls, WriteFails
      <3>2. ASSUME NEW h \in NoModeHeaders, exitMin'[h] = NoDuty PROVE Known(h)'
        <4>1. CASE h = op.h
          BY <1>1, <2>1, <3>1, <4>1 DEF Known
        <4>2. CASE h # op.h
          <5>1. ws'[h] = ws[h]
            BY <1>1, <3>1, <4>2
          <5>2. CASE exitRecord'[h] = exitRecord[h]
            BY <1>1, <2>1, <3>1, <3>2, <4>2, <5>1, <5>2, KnownFrame DEF ReleaseInv, KnownInv
          <5>3. CASE h \in Unprimed(op.h)
            <6>1. SUFFICES ASSUME ws[h].mode, ~resumed PROVE FALSE
              BY <2>1, <5>1 DEF Known
            <6>2. /\ ws[h].last \in Duty /\ exitRecord[h] \in {ws[h].last, 100}
                  /\ duty[h] = Stores[exitRecord[h]]
              BY <2>1, <3>2, <4>2, <6>1 DEF ReleaseInv, KnownInv, Known
            <6>3. duty[h] = 0 /\ ws[h].last # 0 /\ SharedReport # {}
              BY <2>1, <3>2, <5>3 DEF Unprimed, NoDuty
            <6>4. exitRecord[h] \in Duty /\ exitRecord[h] # 0
              BY <6>2, <6>3 DEF Duty
            <6> QED BY <6>2, <6>3, <6>4 DEF ZeroIsZero
          <5>4. exitRecord' = exitRecord
                \/ \E s \in Unprimed(op.h) : exitRecord' = [exitRecord EXCEPT ![s] = NoDuty]
            BY <3>1 DEF WriteFails
          <5> QED BY <1>1, <5>2, <5>3, <5>4
        <4> QED BY <4>1, <4>2
      <3> QED BY <1>1, <2>1, <3>1, <3>2 DEF ReleaseInv, KnownInv, LetGoInv
    <2> QED BY <2>2, <2>3
  <1>5. CASE OpBack
    <2>1. /\ op.step = "back" /\ ws' = [ws EXCEPT ![op.h] = NoState] /\ op.h \in ModeHeaders
          /\ UNCHANGED <<duty, exitMin, exitRecord, resumed>>
          /\ op'.step = "done" /\ op'.release = op.release /\ ~op.release
      BY <1>1, <1>5 DEF OpBack, sysfsVars, Calls
    <2>2. ASSUME NEW h \in NoModeHeaders, exitMin'[h] = NoDuty PROVE Known(h)'
      <3>1. ws'[h] = ws[h]
        BY <1>1, <2>1
      <3> QED BY <1>1, <2>1, <2>2, <3>1, KnownFrame DEF ReleaseInv, KnownInv
    <2> QED BY <1>1, <2>1, <2>2 DEF ReleaseInv, KnownInv, LetGoInv
  <1>6. CASE OpReturn
    <2>1. /\ UNCHANGED <<duty, exitMin, exitRecord, resumed>> /\ op.step = "done"
          /\ op'.step = "idle" /\ ~op'.release
          /\ ws' = ws \/ ws' = [ws EXCEPT ![op.h] = NoState]
      BY <1>6, IdleType DEF OpReturn, Forget, sysfsVars
    <2>2. \A h \in Headers : ws'[h] = ws[h] \/ ws'[h] = NoState
      BY <1>1, <2>1
    <2>3. ASSUME NEW h \in NoModeHeaders, exitMin'[h] = NoDuty PROVE Known(h)'
      BY <1>1, <2>1, <2>2, <2>3, KnownFrame DEF ReleaseInv, KnownInv, NoState
    <2> QED BY <1>1, <2>1, <2>3 DEF ReleaseInv, KnownInv, LetGoInv
  <1> QED BY <1>2, <1>3, <1>4, <1>5, <1>6 DEF ControlStep

LEMMA StopStepRelease == ASSUME TypeOK, ReleaseInv, StopStep PROVE ReleaseInv'
  <1>1. /\ ws \in [Headers -> WriteStates] /\ duty \in [Headers -> Duty]
        /\ NoModeHeaders \subseteq Headers /\ ModeHeaders \cap NoModeHeaders = {}
        /\ floorTodo \subseteq NoModeHeaders /\ stopTodo \subseteq ModeHeaders
        /\ exitRecord \in [Headers -> Duty \cup {NoDuty, NotWritten}]
        /\ op.release => op.h \in NoModeHeaders
    BY DriftTypes DEF StopTypeOK, ControlTypeOK
  <1>2. CASE StopBegin \/ StopFloor \/ StopFlag \/ StopSnapshot \/ StopHandBack \/ ExecStopPost
               \/ ExecStopPostDone \/ Start
    <2>1. /\ UNCHANGED <<ws, op, exitMin, exitRecord, resumed>>
          /\ duty' = duty \/ \E h \in ModeHeaders : \E d : duty' = [duty EXCEPT ![h] = d]
          /\ phase' \in {"running", "draining", "exited", "down"} =>
                phase \in {"running", "draining", "exited", "down"}
      BY <1>1, <1>2
         DEF StopBegin, StopFloor, StopFlag, StopSnapshot, StopHandBack, ExecStopPost,
             ExecStopPostDone, Start, PerformHandBack, handBackVars, sysfsVars, controlVars
    <2>2. ASSUME NEW h \in NoModeHeaders, exitMin'[h] = NoDuty PROVE Known(h)'
      <3>1. duty'[h] = duty[h]
        BY <1>1, <2>1
      <3> QED BY <1>1, <2>1, <2>2, <3>1, KnownFrame DEF ReleaseInv, KnownInv
    <2> QED BY <2>1, <2>2 DEF ReleaseInv, KnownInv, LetGoInv
  <1>3. CASE FloorLatch
    <2>1. /\ op'.step = "floor" /\ ~op'.release /\ phase = "floor" /\ UNCHANGED phase
          /\ \A h \in NoModeHeaders :
                exitMin'[h] \in {ExitFloor, exit_duty(exitRecord[h], ExitFloor)}
      BY SMTT(30), ZenonT(30), <1>1, <1>3 DEF FloorLatch, LatchExitFloor, Idle, stopVars
    <2>2. \A h \in NoModeHeaders : exitMin'[h] # NoDuty
      BY <2>1, ExitDutyType, FloorIsDuty
    <2> QED BY <2>1, <2>2 DEF ReleaseInv, KnownInv, LetGoInv
  <1>4. CASE FloorRaise
    <2>1. op.step = "floor" /\ UNCHANGED <<op, exitMin, phase>>
      BY <1>4 DEF FloorRaise, RaiseToFloor, stopVars
    <2> QED BY <2>1 DEF ReleaseInv, KnownInv, LetGoInv
  <1>5. CASE FloorEnd
    <2>1. /\ op.step = "floor" /\ UNCHANGED <<exitMin, phase>> /\ op'.step = "idle"
          /\ ~op'.release
      BY <1>5, IdleType DEF FloorEnd, FloorDone, stopVars
    <2> QED BY <2>1 DEF ReleaseInv, KnownInv, LetGoInv
  <1>6. CASE Exit
    <2>1. /\ op'.step = "idle" /\ ~op'.release /\ \A h \in Headers : exitMin'[h] = NoDuty
          /\ \A h \in Headers : ~ws'[h].mode
      BY <1>6, IdleType DEF Exit, NoState
    <2> QED BY <1>1, <2>1 DEF ReleaseInv, KnownInv, Known, LetGoInv
  <1> QED BY <1>2, <1>3, <1>4, <1>5, <1>6 DEF StopStep

LEMMA ReleaseStep ==
    ASSUME Releasable
    PROVE  TypeOK /\ ReleaseInv /\ [Next]_vars => ReleaseInv'
  <1> SUFFICES ASSUME TypeOK, ReleaseInv, [Next]_vars PROVE ReleaseInv'
    OBVIOUS
  <1>1. CASE UNCHANGED vars
    BY <1>1 DEF vars, handBackVars, sysfsVars, controlVars, stopVars, ReleaseInv, KnownInv,
                Known, LetGoInv
  <1>2. CASE EngineStep
    BY <1>2, EngineCalls, BeginsCallRelease, ForgetsRelease, GivesBackRelease
  <1>3. CASE \E d \in Diags : DiagStep(d)
    BY <1>3, DiagCalls, BeginsCallRelease, ForgetsRelease
  <1>4. CASE EnvStep
    <2>1. /\ ~Meddle
          /\ UNCHANGED <<ws, op, exitMin, exitRecord, phase>>
          /\ resumed' \/ UNCHANGED <<resumed, duty>>
      BY <1>4 DEF EnvStep, Reclaim, Meddle, ChipAnswers, Resume, Expires, Deadman, ForceChange,
             ProfileChange, DiskChange, Event, Calm, handBackVars, sysfsVars, controlVars,
             Releasable, Unmoved
    <2>2. ASSUME NEW h \in NoModeHeaders, exitMin'[h] = NoDuty PROVE Known(h)'
      BY <2>1, <2>2 DEF ReleaseInv, KnownInv, Known
    <2> QED BY <2>1, <2>2 DEF ReleaseInv, KnownInv, LetGoInv
  <1> QED BY <1>1, <1>2, <1>3, <1>4, ControlStepRelease, StopStepRelease DEF Next, Releasable

(* A call that begins lets go of nothing. *)
LEMMA SetPwmHolds ==
    ASSUME NEW states, NEW owner, NEW by, NEW h, NEW pct, NEW release,
           set_pwm_from(states, owner, by, h, pct, release)
    PROVE  engineHeld \subseteq engineHeld' /\ UNCHANGED abandoned
  <1>1. UNCHANGED abandoned
    BY DEF set_pwm_from
  <1>2. \/ engineHeld' = engineHeld
        \/ \E more : engineHeld' = IF more THEN engineHeld \cup {h} ELSE engineHeld
    BY Zenon DEF set_pwm_from
  <1> QED BY <1>1, <1>2

(* Only a release lets go of a header while the daemon runs. *)
LEMMA LetsGoAtFloor ==
    ASSUME Releasable, TypeOK, ReleaseInv, Next, phase = "running", phase' = "running",
           NEW h \in (engineHeld \cup abandoned) \ (engineHeld' \cup abandoned')
    PROVE  exitRecord'[h] >= ExitFloor
  <1>1. /\ ControlTypeOK /\ h \in Headers /\ exitMin[h] = NoDuty /\ ExitFloor > 0
        /\ exitRecord \in [Headers -> Duty \cup {NoDuty, NotWritten}]
        /\ op.release => op.h \in NoModeHeaders
    BY DriftTypes DEF ControlTypeOK, ReleaseInv, LetGoInv, Releasable
  <1>2. CASE ControlStep
    <2>1. OpReturn
      BY <1>2 DEF ControlStep, OpNote, OpTake, OpEnable, OpCheck, OpWrite, OpBack
    <2>2. /\ op.release /\ op.ok /\ op.step = "done" /\ h = op.h /\ UNCHANGED exitRecord
      BY <2>1 DEF OpReturn, Forget
    <2> QED BY <1>1, <2>2 DEF ReleaseInv, LetGoInv
  <1>3. CASE EngineStep
    <2>1. TaskGiveBack
      <3>1. ~TaskWrite
        BY SetPwmHolds DEF TaskWrite, set_pwm, controlVars
      <3> QED BY <1>3, <3>1 DEF EngineStep, TickApply, TickIdle, TickForce, TaskLease,
             TaskForceLease, TaskListUnheld, TaskEnd, vars, handBackVars, controlVars
    <2>2. PICK x \in task.back :
              \/ UNCHANGED controlVars
              \/ x \in ModeHeaders /\ HandBackHeader("engine", x)
              \/ x \notin ModeHeaders /\ release_no_mode("engine", x)
      BY <2>1 DEF TaskGiveBack
    <2>3. ReleaseDuty(x) = NoDuty /\ Forget(x) /\ UNCHANGED exitRecord
      BY <2>2, SetPwmHolds DEF controlVars, HandBackHeader, release_no_mode, set_pwm
    <2>4. h = x
      BY <2>3 DEF Forget
    <2>5. exit_duty(exitRecord[h], ExitFloor) \in Duty /\ exit_duty(exitRecord[h], ExitFloor) >= ExitFloor
      BY ExitDutyType, ExitDutyFloor
    <2>6. exit_duty(exitRecord[h], ExitFloor) = exitRecord[h]
      BY <1>1, <2>3, <2>4, <2>5 DEF ReleaseDuty, Duty, NoDuty
    <2> QED BY SMTT(30), ZenonT(30), <2>3, <2>5, <2>6
  <1>4. CASE \E d \in Diags : DiagStep(d)
    <2> PICK d \in Diags : DiagStep(d)
      BY <1>4
    <2>1. ~DiagTest(d) /\ ~DiagRestore(d)
      BY SetPwmHolds DEF DiagTest, DiagRestore, DiagWrite, set_pwm, controlVars
    <2> QED BY <2>1 DEF DiagStep, DiagGate, DiagBegin, DiagLease, DiagRead, DiagSettled,
               DiagAbandon, DiagDropLease, DiagDropSlot, DiagDone, controlVars
  <1>5. CASE StopStep
    BY <1>5 DEF StopStep, StopBegin, StopFloor, FloorLatch, LatchExitFloor, FloorRaise,
           RaiseToFloor, FloorEnd, FloorDone, StopFlag, StopSnapshot, StopHandBack, Exit,
           ExecStopPost, ExecStopPostDone, Start, controlVars
  <1>6. CASE EnvStep
    BY <1>6 DEF EnvStep, Reclaim, Meddle, ChipAnswers, Resume, Expires, Deadman, ForceChange,
           ProfileChange, DiskChange, handBackVars, controlVars
  <1> QED BY <1>2, <1>3, <1>4, <1>5, <1>6 DEF Next

(* While the daemon runs, a header without a mode switch is let go of at   *)
(* the exit floor or above, also after a write to it failed, with a        *)
(* sibling's failed priming or through a release that found nothing to     *)
(* write; where a floor is set and no other program writes the header      *)
(* (release_no_mode, exit_duty).                                           *)
THEOREM ReleasesReachFloor == Spec => (Releasable => ReleasedAtFloor)
  <1> SUFFICES ASSUME Releasable PROVE Spec => ReleasedAtFloor
    OBVIOUS
  <1>1. Init => ReleaseInv
    BY IdleType DEF Init, ControlInit, NoState, ReleaseInv, KnownInv, Known, LetGoInv, Headers
  <1>2. TypeOK /\ ReleaseInv /\ [Next]_vars => ReleaseInv'
    BY ReleaseStep
  <1>3. TypeOK /\ ReleaseInv /\ [Next]_vars =>
           [phase = "running" /\ phase' = "running" =>
              \A h \in (engineHeld \cup abandoned) \ (engineHeld' \cup abandoned') :
                 exitRecord'[h] >= ExitFloor]_vars
    BY LetsGoAtFloor
  <1> QED BY <1>1, <1>2, <1>3, HwmonTypeCorrect, PTL DEF Spec, ReleasedAtFloor
=============================================================================
