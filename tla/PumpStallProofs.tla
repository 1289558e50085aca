---------------------------- MODULE PumpStallProofs ----------------------------
(***************************************************************************)
(* What is proved of PumpStall, for every set of pumps, windows and curve  *)
(* duties: its types, that a stall is confirmed only on an unbroken        *)
(* window, and that a response ends only on evidence.                      *)
(***************************************************************************)
EXTENDS PumpStall, TLAPS

Ages == 0..(Detect + Kick) \cup {None}
PhaseSet == [name : Phases, age : Ages, turning : BOOLEAN]
WatchSet == [seen : BOOLEAN, stalls : 0..2, phase : PhaseSet]

Types ==
    /\ watch \in [Headers -> WatchSet]
    /\ commanded \in [Headers -> 0..100 \cup {None}]
    /\ zeros \in [Headers -> 0..Detect \cup {None}]

(* A window that runs is no longer than what the engine has seen of the    *)
(* pump at rest.                                                           *)
WindowInv ==
    \A h \in Headers :
        watch[h].phase.name = "monitoring" /\ watch[h].phase.age # None =>
            zeros[h] >= watch[h].phase.age

(* What the tick advances: the watch of one header, a hold released first  *)
(* when a profile was activated.                                           *)
Start(h) ==
    IF activated /\ watch[h].phase.name = "held" THEN [watch[h] EXCEPT !.phase = Monitoring]
    ELSE watch[h]
Since(w) == IF w.phase.age = None THEN 0 ELSE UpTo(w.phase.age, Detect)

USE StallAssumption DEF None, Stale

----------------------------------------------------------------------------
LEMMA UpToType ==
    ASSUME NEW k \in Nat \ {0}, NEW n \in Int, n >= -1
    PROVE  UpTo(n, k) \in 0..k
  BY DEF UpTo

LEMMA MonitoringType == Monitoring \in PhaseSet /\ Monitoring.name = "monitoring"
                          /\ Monitoring.age = None
  BY DEF Monitoring, PhaseSet, Phases, Ages

LEMMA PhaseType ==
    ASSUME NEW n \in Phases, NEW a \in Ages, NEW on \in BOOLEAN
    PROVE  /\ Phase(n, a, on) \in PhaseSet /\ Phase(n, a, on).name = n
           /\ Phase(n, a, on).age = a
  BY DEF Phase, PhaseSet

LEMMA SinceType ==
    ASSUME NEW w \in WatchSet
    PROVE  Since(w) \in 0..Detect
  BY UpToType DEF Since, WatchSet, PhaseSet, Ages

LEMMA TurnsType ==
    ASSUME NEW w \in WatchSet, NEW h
    PROVE  Turns(w, h) \in BOOLEAN
<1>1. w.phase.turning \in BOOLEAN
  BY DEF WatchSet, PhaseSet
<1>2. QED
  BY <1>1, Zenon DEF Turns

LEMMA SeenType ==
    ASSUME Types, NEW h \in Headers
    PROVE  Seen(h) \in BOOLEAN
<1>1. watch[h].seen \in BOOLEAN
  BY DEF Types, WatchSet
<1>2. QED
  BY <1>1, Zenon DEF Seen

----------------------------------------------------------------------------
(* What a tick makes of a watched header in each of its phases. *)
LEMMA WatchingMoves ==
    ASSUME Types, NEW h \in Headers, NEW w \in WatchSet, w.seen = watch[h].seen,
           w.phase.name = "monitoring"
    PROVE  LET x == Watching(w, h)
           IN  /\ x \in WatchSet
               /\ x.phase.name = "monitoring" /\ x.phase.age # None =>
                      Stalls(h) /\ x.phase.age = Since(w)
               /\ x.phase.name # "monitoring" =>
                      Stalls(h) /\ Since(w) = Detect /\ x.seen = w.seen
<1>1. Since(w) \in 0..Detect /\ Since(w) \in Ages /\ 0 \in Ages
  BY SinceType DEF Ages
<1>2. CASE ~Stalls(h)
  <2> DEFINE s == Seen(h)
             p == Monitoring
             x == Watching(w, h)
  <2>1. x = [w EXCEPT !.seen = s, !.phase = p]
    BY <1>2 DEF Watching
  <2>2. s \in BOOLEAN /\ p \in PhaseSet /\ p.age = None /\ p.name = "monitoring"
    BY SeenType, MonitoringType
  <2> HIDE DEF s, p, x
  <2>3. x \in WatchSet /\ x.phase = p
    BY <2>1, <2>2 DEF WatchSet
  <2>4. x \in WatchSet /\ x.phase.age = None /\ x.phase.name = "monitoring"
    BY <2>2, <2>3
  <2>5. QED
    BY <2>4 DEF x
<1>3. CASE Stalls(h) /\ Since(w) < Detect
  <2> DEFINE p == Phase("monitoring", Since(w), FALSE)
             x == Watching(w, h)
  <2>1. x = [w EXCEPT !.phase = p]
    BY <1>3 DEF Watching, Since
  <2>2. p \in PhaseSet /\ p.name = "monitoring" /\ p.age = Since(w)
    BY ZenonT(60), <1>1, PhaseType DEF Phases
  <2> HIDE DEF p, x
  <2>3. x \in WatchSet /\ x.phase = p
    BY <2>1, <2>2 DEF WatchSet
  <2>4. x \in WatchSet /\ x.phase.name = "monitoring" /\ x.phase.age = Since(w)
    BY <2>2, <2>3
  <2>5. QED
    BY <1>3, <2>4 DEF x
<1>4. CASE Stalls(h) /\ ~(Since(w) < Detect)
  <2> DEFINE n == IF w.stalls > 0 THEN "held" ELSE "kick"
             s == UpTo(w.stalls, 2)
             p == Phase(n, 0, FALSE)
             x == Watching(w, h)
  <2>1. x = [w EXCEPT !.stalls = s, !.phase = p]
    BY <1>4 DEF Watching, Since
  <2>2. s \in 0..2 /\ n \in Phases /\ n # "monitoring"
    BY SMTT(30), ZenonT(30), UpToType DEF WatchSet, Phases
  <2> HIDE DEF n, s
  <2>3. p \in PhaseSet /\ p.name = n
    BY <1>1, <2>2, PhaseType
  <2> HIDE DEF p, x
  <2>4. x \in WatchSet /\ x.phase = p /\ x.seen = w.seen
    BY <2>1, <2>2, <2>3 DEF WatchSet
  <2>5. x \in WatchSet /\ x.phase.name # "monitoring" /\ x.seen = w.seen
    BY <2>2, <2>3, <2>4
  <2>6. QED
    BY <1>1, <1>4, <2>5 DEF x
<1>5. QED
  BY <1>2, <1>3, <1>4

LEMMA KickedMoves ==
    ASSUME NEW w \in WatchSet, NEW h
    PROVE  /\ Kicked(w, h) \in PhaseSet
           /\ Kicked(w, h).name = "monitoring" => Turns(w, h) /\ Kicked(w, h).age = None
<1> DEFINE since == UpTo(w.phase.age, Kick)
<1>1. since \in 0..Kick /\ since \in Ages /\ 0 \in Ages
  BY UpToType DEF WatchSet, PhaseSet, Ages
<1>2. CASE since < Kick
  <2>1. Kicked(w, h) = Phase("kick", since, Turns(w, h))
    BY <1>2 DEF Kicked
  <2> HIDE DEF since
  <2> DEFINE on == Turns(w, h)
  <2>2. on \in BOOLEAN
    BY TurnsType
  <2> HIDE DEF on
  <2>3. Phase("kick", since, on) \in PhaseSet /\ Phase("kick", since, on).name = "kick"
    BY <1>1, <2>2, PhaseType DEF Phases
  <2>4. QED
    BY <2>1, <2>3 DEF on
<1>3. CASE ~(since < Kick)
  <2>1. Kicked(w, h) = IF Turns(w, h) THEN Monitoring ELSE Phase("not_turning", 0, FALSE)
    BY <1>3 DEF Kicked
  <2> HIDE DEF since
  <2>2. CASE Turns(w, h)
    BY <2>1, <2>2, MonitoringType
  <2>3. CASE ~Turns(w, h)
    <3>1. /\ Phase("not_turning", 0, FALSE) \in PhaseSet
          /\ Phase("not_turning", 0, FALSE).name = "not_turning"
      BY <1>1, PhaseType DEF Phases
    <3>2. QED
      BY <2>1, <2>3, <3>1
  <2>4. QED
    BY <2>2, <2>3
<1>4. QED
  BY <1>2, <1>3

LEMMA ResponseMoves ==
    ASSUME Types, NEW h \in Headers, NEW w \in WatchSet, w.phase.name # "monitoring"
    PROVE  LET x == Advanced(w, h)
           IN  /\ x \in WatchSet
               /\ x.phase.name = "monitoring" =>
                     /\ w.phase.name # "held" /\ x.phase.age = None
                     /\ Tach(h) = 1 \/ (Tach(h) = Stale /\ w.phase.turning)
               /\ x.phase.name \in {"kick", "held"} => w.phase.name \in {"kick", "held"}
<1> DEFINE p == IF w.phase.name = "kick" THEN Kicked(w, h)
                ELSE IF w.phase.name = "held" THEN Phase("held", 0, Turns(w, h))
                ELSE IF Tach(h) = 1 THEN Monitoring ELSE w.phase
<1>1. Advanced(w, h) = [w EXCEPT !.seen = Seen(h), !.phase = p]
  BY Zenon DEF Advanced
<1>2. /\ p \in PhaseSet
      /\ p.name = "monitoring" =>
           /\ w.phase.name # "held" /\ p.age = None
           /\ Tach(h) = 1 \/ Turns(w, h)
      /\ p.name \in {"kick", "held"} => w.phase.name \in {"kick", "held"}
  <2>1. CASE w.phase.name = "kick"
    BY <2>1, KickedMoves
  <2>2. CASE w.phase.name = "held"
    BY <2>2, PhaseType, TurnsType DEF Phases, Ages
  <2>3. CASE w.phase.name \notin {"kick", "held"}
    BY <2>3, MonitoringType DEF WatchSet
  <2>4. QED
    BY <2>1, <2>2, <2>3
<1> HIDE DEF p
<1>3. Turns(w, h) => Tach(h) = 1 \/ (Tach(h) = Stale /\ w.phase.turning)
  BY Zenon DEF Turns
<1> DEFINE s == Seen(h)
<1>4. s \in BOOLEAN
  BY SeenType
<1> HIDE DEF s
<1>5. Advanced(w, h) \in WatchSet /\ Advanced(w, h).phase = p
  BY <1>1, <1>2, <1>4 DEF WatchSet, s
<1>6. QED
  BY <1>2, <1>3, <1>5, Zenon

----------------------------------------------------------------------------
(* One header in one tick. *)
LEMMA StartType ==
    ASSUME Types, NEW h \in Headers
    PROVE  /\ Start(h) \in WatchSet /\ Start(h).seen = watch[h].seen
           /\ \/ Start(h) = watch[h]
              \/ /\ activated /\ watch[h].phase.name = "held"
                 /\ Start(h).phase.name = "monitoring" /\ Start(h).phase.age = None
<1>1. watch[h] \in WatchSet
  BY DEF Types
<1>2. CASE activated /\ watch[h].phase.name = "held"
  <2> DEFINE p == Monitoring
             w == watch[h]
             x == Start(h)
  <2>1. x = [w EXCEPT !.phase = p]
    BY <1>2 DEF Start
  <2>2. p \in PhaseSet /\ p.name = "monitoring" /\ p.age = None /\ w \in WatchSet
    BY <1>1, MonitoringType
  <2> HIDE DEF p, w, x
  <2>3. x \in WatchSet /\ x.phase = p /\ x.seen = w.seen
    BY <2>1, <2>2 DEF WatchSet
  <2>4. QED
    BY <1>2, <2>2, <2>3 DEF x, w
<1>3. CASE ~(activated /\ watch[h].phase.name = "held")
  BY <1>1, <1>3 DEF Start
<1>4. QED
  BY <1>2, <1>3

LEMMA TickOf ==
    ASSUME Types, Tick, NEW h \in Headers
    PROVE  /\ watch'[h] =
                  IF h \notin members \/ (paused /\ Start(h).phase.name = "monitoring")
                  THEN [Start(h) EXCEPT !.phase = Monitoring]
                  ELSE IF paused THEN Start(h) ELSE Advanced(Start(h), h)
           /\ zeros'[h] = IF ~paused /\ h \in members /\ Stalls(h)
                          THEN IF zeros[h] = None THEN 0 ELSE UpTo(zeros[h], Detect)
                          ELSE None
<1>1. watch' = advance(IF activated THEN release_holds ELSE watch)
  BY DEF Tick
<1>2. (IF activated THEN release_holds ELSE watch)[h] = Start(h)
  <2>1. CASE activated
    BY <2>1 DEF release_holds, Start
  <2>2. CASE ~activated
    BY <2>2 DEF Start
  <2>3. QED
    BY <2>1, <2>2
<1>3. zeros'[h] = IF ~paused /\ h \in members /\ Stalls(h)
                 THEN IF zeros[h] = None THEN 0 ELSE UpTo(zeros[h], Detect)
                 ELSE None
  BY DEF Tick
<1> DEFINE ws == IF activated THEN release_holds ELSE watch
<1> HIDE DEF ws
<1>4. ws[h] = Start(h) /\ watch' = advance(ws)
  BY <1>1, <1>2 DEF ws
<1>5. QED
  BY <1>3, <1>4, Zenon DEF advance

(* What a tick does to a header, in the terms of the two properties. *)
LEMMA TickMoves ==
    ASSUME Types, Tick, NEW h \in Headers
    PROVE  /\ watch'[h] \in WatchSet
           /\ watch'[h].phase.name = "monitoring" /\ watch'[h].phase.age # None =>
                 /\ ~paused /\ h \in members /\ Stalls(h)
                 /\ Start(h).phase.name = "monitoring"
                 /\ watch'[h].phase.age = Since(Start(h))
           /\ (watch'[h].phase.name \in {"kick", "held"}
                  /\ watch[h].phase.name \notin {"kick", "held"}) =>
                 /\ ~paused /\ h \in members /\ Stalls(h)
                 /\ Start(h).phase.name = "monitoring" /\ Since(Start(h)) = Detect
                 /\ watch'[h].seen = watch[h].seen
           /\ watch'[h].phase.name = "monitoring" /\ Start(h).phase.name # "monitoring" =>
                 \/ h \notin members
                 \/ /\ Start(h).phase.name # "held"
                    /\ Tach(h) = 1 \/ (Tach(h) = Stale /\ Start(h).phase.turning)
<1> DEFINE w == Start(h)
<1>1. /\ w \in WatchSet /\ w.seen = watch[h].seen
      /\ w = watch[h] \/ (watch[h].phase.name = "held" /\ w.phase.name = "monitoring")
  BY StartType
<1>2. watch'[h] = IF h \notin members \/ (paused /\ w.phase.name = "monitoring")
                 THEN [w EXCEPT !.phase = Monitoring]
                 ELSE IF paused THEN w ELSE Advanced(w, h)
  BY TickOf
<1> HIDE DEF w
<1>3. CASE h \notin members \/ (paused /\ w.phase.name = "monitoring")
  <2> DEFINE p == Monitoring
             x == watch'[h]
  <2>1. x = [w EXCEPT !.phase = p]
    BY <1>2, <1>3
  <2>2. p \in PhaseSet /\ p.name = "monitoring" /\ p.age = None
    BY MonitoringType
  <2> HIDE DEF p, x
  <2>3. x \in WatchSet /\ x.phase = p
    BY <1>1, <2>1, <2>2 DEF WatchSet
  <2>4. x \in WatchSet /\ x.phase.name = "monitoring" /\ x.phase.age = None
    BY <2>2, <2>3
  <2>5. QED
    BY <1>3, <2>4 DEF x, w
<1>4. CASE h \in members /\ paused /\ w.phase.name # "monitoring"
  <2>1. watch'[h] = w /\ w = watch[h]
    BY <1>1, <1>2, <1>4
  <2>2. QED
    BY <1>1, <1>4, <2>1 DEF w
<1>5. CASE h \in members /\ ~paused /\ w.phase.name = "monitoring"
  <2>1. watch'[h] = Watching(w, h)
    BY <1>2, <1>5 DEF Advanced
  <2>2. QED
    BY <1>1, <1>5, <2>1, WatchingMoves DEF w
<1>6. CASE h \in members /\ ~paused /\ w.phase.name # "monitoring"
  <2>1. watch'[h] = Advanced(w, h) /\ w = watch[h]
    BY <1>1, <1>2, <1>6
  <2>2. QED
    BY <1>1, <1>6, <2>1, ResponseMoves DEF w
<1>7. QED
  BY <1>3, <1>4, <1>5, <1>6

----------------------------------------------------------------------------
(* Every other step leaves the watch and its history alone. *)
LEMMA OnlyTicks == [Next]_vars /\ ~Tick => UNCHANGED <<watch, zeros>>
  BY DEF Next, vars, Activates, RoleChanges, Pauses, PauseEnds, PumpChanges,
         TachChanges, SkipChanges

LEMMA TypesInit == Init => Types /\ WindowInv
<1> SUFFICES ASSUME Init PROVE Types /\ WindowInv
  OBVIOUS
<1>1. [seen |-> FALSE, stalls |-> 0, phase |-> Monitoring] \in WatchSet
  BY MonitoringType DEF WatchSet
<1>2. Types
  BY <1>1 DEF Init, Types
<1>3. WindowInv
  BY MonitoringType DEF Init, WindowInv
<1>4. QED
  BY <1>2, <1>3

LEMMA TypesStep == Types /\ [Next]_vars => Types'
<1> SUFFICES ASSUME Types, [Next]_vars PROVE Types'
  OBVIOUS
<1>1. CASE Tick
  <2>1. watch' \in [Headers -> WatchSet]
    <3>1. watch' = [h \in Headers |-> watch'[h]]
      BY <1>1 DEF Tick, advance
    <3>2. \A h \in Headers : watch'[h] \in WatchSet
      BY <1>1, TickMoves
    <3>3. QED
      BY <3>1, <3>2
  <2>2. zeros' \in [Headers -> 0..Detect \cup {None}]
    <3>1. zeros' = [h \in Headers |-> zeros'[h]]
      BY <1>1 DEF Tick
    <3>2. ASSUME NEW h \in Headers PROVE zeros'[h] \in 0..Detect \cup {None}
      <4>1. zeros[h] \in 0..Detect \cup {None}
        BY DEF Types
      <4>2. zeros'[h] \in {None, 0, UpTo(zeros[h], Detect)}
        BY <1>1, TickOf
      <4>3. QED
        BY <4>1, <4>2, UpToType
    <3>3. QED
      BY <3>1, <3>2
  <2>3. commanded' \in [Headers -> 0..100 \cup {None}]
    <3>1. PICK curve \in [Headers -> Curve] :
            commanded' = [h \in Headers |->
                 IF paused THEN commanded[h]
                 ELSE IF h \notin members THEN None
                 ELSE IF apply_stall_response(h, IF h \in skipped THEN None ELSE curve[h]) = None
                 THEN commanded[h]
                 ELSE apply_stall_response(h, IF h \in skipped THEN None ELSE curve[h])]
      BY <1>1 DEF Tick
    <3>2. ASSUME NEW h \in Headers
          PROVE  apply_stall_response(h, IF h \in skipped THEN None ELSE curve[h])
                    \in 0..100 \cup {None}
      <4>1. (IF h \in skipped THEN None ELSE curve[h]) \in 0..100 \cup {None}
        OBVIOUS
      <4>2. \A d \in 0..100 \cup {None} : apply_stall_response(h, d) \in {Full, d}
        BY Zenon DEF apply_stall_response
      <4>3. QED
        BY <4>1, <4>2 DEF Full
    <3>3. QED
      BY <3>1, <3>2 DEF Types
  <2>4. QED
    BY <2>1, <2>2, <2>3 DEF Types
<1>2. CASE ~Tick
  <2>1. commanded' \in [Headers -> 0..100 \cup {None}]
    <3>1. CASE Pauses
      <4>1. commanded' \in [Headers -> Curve \cup {0}]
        BY <3>1 DEF Pauses
      <4>2. Curve \cup {0} \subseteq 0..100 \cup {None}
        OBVIOUS
      <4>3. QED
        BY <4>1, <4>2
    <3>2. CASE ~Pauses
      <4>1. commanded' = commanded
        BY <1>2, <3>2 DEF Next, vars, Activates, RoleChanges, PauseEnds, PumpChanges,
           TachChanges, SkipChanges
      <4>2. QED
        BY <4>1 DEF Types
    <3>3. QED
      BY <3>1, <3>2
  <2>2. QED
    BY <1>2, <2>1, OnlyTicks DEF Types
<1>3. QED
  BY <1>1, <1>2

LEMMA WindowStep == Types /\ WindowInv /\ [Next]_vars => WindowInv'
<1> SUFFICES ASSUME Types, WindowInv, [Next]_vars PROVE WindowInv'
  OBVIOUS
<1>1. CASE Tick
  <2> SUFFICES ASSUME NEW h \in Headers, watch'[h].phase.name = "monitoring",
                      watch'[h].phase.age # None
               PROVE  zeros'[h] >= watch'[h].phase.age
    BY DEF WindowInv
  <2>1. /\ ~paused /\ h \in members /\ Stalls(h) /\ Start(h).phase.name = "monitoring"
        /\ watch'[h].phase.age = Since(Start(h))
    BY <1>1, TickMoves
  <2>2. zeros'[h] = IF zeros[h] = None THEN 0 ELSE UpTo(zeros[h], Detect)
    BY <1>1, <2>1, TickOf
  <2>3. zeros[h] \in 0..Detect \cup {None} /\ watch[h].phase.age \in Ages
    BY DEF Types, WatchSet, PhaseSet
  <2>4. CASE Start(h).phase.age = None
    BY <2>1, <2>2, <2>3, <2>4 DEF Since, UpTo
  <2>5. CASE Start(h).phase.age # None
    <3>1. Start(h) = watch[h]
      BY <2>5, StartType
    <3>2. zeros[h] >= watch[h].phase.age
      BY <2>1, <2>5, <3>1 DEF WindowInv
    <3>3. QED
      BY <2>1, <2>2, <2>3, <2>5, <3>1, <3>2 DEF Since, UpTo, Ages
  <2>6. QED
    BY <2>4, <2>5
<1>2. CASE ~Tick
  BY <1>2, OnlyTicks DEF WindowInv
<1>3. QED
  BY <1>1, <1>2

----------------------------------------------------------------------------
(* Each pump's watch and command keep their types, for every window and    *)
(* curve (PumpStallWatch::tick, apply_stall_response).                     *)
THEOREM PumpTypes == Spec => []TypeOK
<1>1. Types => TypeOK
  BY DEF Types, TypeOK, WatchSet, PhaseSet, Ages
<1>2. QED
  BY <1>1, TypesInit, TypesStep, PTL DEF Spec

(* However long the window is, a stall is confirmed only of a pump that    *)
(* has turned and that every tick of the window has seen at rest.          *)
THEOREM StallSeen == Spec => StallIsSeen
<1>1. ASSUME Types, WindowInv, Tick, NEW h \in Headers,
             watch'[h].phase.name \in {"kick", "held"},
             watch[h].phase.name \notin {"kick", "held"}
      PROVE  zeros'[h] = Detect /\ watch'[h].seen
  <2>1. /\ ~paused /\ h \in members /\ Stalls(h) /\ Start(h).phase.name = "monitoring"
        /\ Since(Start(h)) = Detect /\ watch'[h].seen = watch[h].seen
    BY <1>1, TickMoves
  <2>2. zeros'[h] = IF zeros[h] = None THEN 0 ELSE UpTo(zeros[h], Detect)
    BY <1>1, <2>1, TickOf
  <2>3. zeros[h] \in 0..Detect \cup {None} /\ watch[h].phase.age \in Ages
    BY <1>1 DEF Types, WatchSet, PhaseSet
  <2>4. Start(h) = watch[h]
    BY <1>1, StartType
  <2>5. watch[h].phase.age # None /\ zeros[h] >= watch[h].phase.age
    BY <1>1, <2>1, <2>4 DEF Since, WindowInv
  <2>6. zeros'[h] = Detect
    BY <2>1, <2>2, <2>3, <2>4, <2>5 DEF Since, UpTo, Ages
  <2>7. watch[h].seen
    <3>1. Tach(h) # 1
      BY <2>1 DEF Stalls
    <3>2. QED
      BY <2>1, <3>1, Zenon DEF Stalls, Seen
  <2>8. QED
    BY <2>1, <2>6, <2>7
<1>2. Types /\ WindowInv /\ [Next]_vars =>
        [\A h \in Headers :
            watch'[h].phase.name \in {"kick", "held"}
                /\ watch[h].phase.name \notin {"kick", "held"} =>
            zeros'[h] = Detect /\ watch'[h].seen]_vars
  BY <1>1, OnlyTicks
<1>3. QED
  BY <1>2, TypesInit, TypesStep, WindowStep, PTL DEF Spec, StallIsSeen

(* A response to a stall ends only when the tach shows the pump turning,   *)
(* or the header is no pump any more, or a held one's profile changes.     *)
THEOREM ResponseStays == Spec => ResponseLasts
<1>1. ASSUME Types, Tick, NEW h \in Headers, Raised(h), ~Raised(h)'
      PROVE  \/ h \notin members
             \/ watch[h].phase.name = "held" /\ activated
             \/ watch[h].phase.name # "held"
                   /\ (Tach(h) = 1 \/ (Tach(h) = Stale /\ watch[h].phase.turning))
  BY <1>1, TickMoves, StartType DEF Raised
<1>2. Types /\ [Next]_vars =>
        [\A h \in Headers :
            Raised(h) /\ ~Raised(h)' =>
              \/ h \notin members
              \/ watch[h].phase.name = "held" /\ activated
              \/ watch[h].phase.name # "held"
                    /\ (Tach(h) = 1 \/ (Tach(h) = Stale /\ watch[h].phase.turning))]_vars
  BY <1>1, OnlyTicks DEF Raised
<1>3. QED
  BY <1>2, TypesInit, TypesStep, PTL DEF Spec, ResponseLasts
=============================================================================
