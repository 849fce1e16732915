------------------------------- MODULE Engine -------------------------------
(***************************************************************************)
(* The translation engine of ksx-core/src/engine.rs: key events in, pad    *)
(* states out.  One slot with a keyboard (its chord device) and a mouse.   *)
(* Everything that can press a control is a holder: a key, a chord, a step *)
(* of a macro, a turbo endpoint, a latch.  The engine keeps the set of     *)
(* holders that are held incrementally, by rescanning only the holders an  *)
(* event can have moved; the pad follows from the holders that moved.      *)
(*                                                                         *)
(* A binding is a pair <<control, value>>.  The control "X" stands for a   *)
(* stick axis and carries the deflection; every other control is digital   *)
(* and its value is 0.  Times are relative to now: an armed deadline       *)
(* counts down, and what is due has reached zero.  The slots of an engine  *)
(* share nothing but the list of deadlines, whose ties are harmless: all   *)
(* that is due is handled in one tick, each entry on a state of its own.   *)
(***************************************************************************)
EXTENDS Integers, Sequences, FiniteSets

CONSTANTS
    KbdKeys,    \* the keys of the slot's keyboard
    MouseKeys,  \* the buttons of the slot's mouse
    Controls,   \* the controls of the pad, with "X" the axis
    Names,      \* the presets that edits may put in place
    Preset,     \* their contents (see IsPreset)
    MaxLate     \* bound: how late the engine thread may wake

Devices == {"kbd", "mouse"}
Keys == KbdKeys \cup MouseKeys
KeysOf(d) == IF d = "kbd" THEN KbdKeys ELSE MouseKeys

ASSUME KeysAssumption == KbdKeys \cap MouseKeys = {} /\ IsFiniteSet(Keys)
ASSUME LateAssumption == MaxLate \in Nat /\ "X" \in Controls

VARIABLES
    name,   \* the preset in force
    tables, \* what the engine has made of it (see Tables)
    down,   \* device -> the keys the engine believes down
    slot,   \* the SlotRuntime
    shown,  \* ghost: macro -> how long its present step or gap has lasted
    order   \* ghost: the pairs of opposing keys that are down, first the one pressed first

vars == <<name, tables, down, slot, shown, order>>
P == Preset[name]

-----------------------------------------------------------------------------
(* Presets, as the configuration layer hands them over. *)

\* A deflection is an i16.
AxisMax == 32767
Deflections == -AxisMax - 1..AxisMax
Bindings == Controls \X Deflections

IsMacro(m) ==
    /\ m.triggers \subseteq Keys
    /\ m.steps \in Seq([hold : SUBSET Bindings, ends : Nat \ {0}, min : Nat \ {0}])
    /\ m.steps # <<>>
    /\ m.abort \in BOOLEAN /\ m.restart \in BOOLEAN
    /\ m.interrupt \in {"none", "any-input", "opposing"}
    /\ m.repeat \in {"once", "while-held", "turbo"}
    /\ m.gap \in Nat \ {0}

IsPreset(p) ==
    /\ \A k \in Keys : p.entry[k] \subseteq Bindings
    /\ \A c \in DOMAIN p.chord :
          /\ p.chord[c].keys \subseteq Keys /\ p.chord[c].keys # {}
          /\ p.chord[c].unless \subseteq Keys
          /\ p.chord[c].drives \subseteq Bindings
    /\ \A m \in DOMAIN p.macro : IsMacro(p.macro[m])
    /\ \A b \in DOMAIN p.turbo :
          b \in Bindings /\ p.turbo[b].on \in Nat \ {0} /\ p.turbo[b].off \in Nat \ {0}
    /\ p.toggle \subseteq Bindings
    /\ p.socd \in {"off", "last", "first"}

ASSUME PresetAssumption == \A n \in Names : IsPreset(Preset[n])

-----------------------------------------------------------------------------
(* Holders and what they drive: EngineTables::build. *)

ChordIds == DOMAIN P.chord
MacroIds == DOMAIN P.macro

Key(k) == <<"key", k>>
Chord(c) == <<"chord", c>>
Step(m, i) == <<"step", m, i>>
Turbo(b) == <<"turbo", b>>
Toggle(b) == <<"toggle", b>>

\* The keys and chords that would drive a binding directly.
DirectIn(p, b) == {Key(k) : k \in {k \in Keys : b \in p.entry[k]}}
                  \cup {Chord(c) : c \in {c \in DOMAIN p.chord : b \in p.chord[c].drives}}

\* A toggled binding is driven by its latch, and the direct holders become
\* the latch's sources; a turbo then takes the latch for its source.
TurboSourcesIn(p, b) ==
    IF b \in p.toggle /\ DirectIn(p, b) # {} THEN {Toggle(b)} ELSE DirectIn(p, b)

RewiredIn(p) == p.toggle \cup DOMAIN p.turbo

DrivesIn(p, h) ==
    CASE h[1] = "key" -> p.entry[h[2]] \ RewiredIn(p)
      [] h[1] = "chord" -> p.chord[h[2]].drives \ RewiredIn(p)
      [] h[1] = "step" -> p.macro[h[2]].steps[h[3]].hold
      [] h[1] = "turbo" -> IF DirectIn(p, h[2]) = {} THEN {} ELSE {h[2]}
      [] h[1] = "toggle" ->
            IF h[2] \in DOMAIN p.turbo \/ DirectIn(p, h[2]) = {} THEN {} ELSE {h[2]}

HoldersIn(p) ==
    {Key(k) : k \in Keys} \cup {Chord(c) : c \in DOMAIN p.chord}
    \cup (UNION {{Step(m, i) : i \in DOMAIN p.macro[m].steps} : m \in DOMAIN p.macro})
    \cup {Turbo(b) : b \in DOMAIN p.turbo} \cup {Toggle(b) : b \in p.toggle}

\* The keys on one side of the axis; one that drives both is on neither.
Leans(p, k, s) == \E b \in p.entry[k] : b[1] = "X" /\ b[2] * s > 0
SideIn(p, s) == IF p.socd = "off" THEN {}
                ELSE {k \in Keys : Leans(p, k, s) /\ ~Leans(p, k, -s)}

\* The tables are built once, when a preset is put in place.
Tables(p) ==
    [drives |-> [h \in HoldersIn(p) |-> DrivesIn(p, h)],
     latchSources |-> [b \in p.toggle |-> DirectIn(p, b)],
     turboSources |-> [b \in DOMAIN p.turbo |-> TurboSourcesIn(p, b)],
     side |-> [s \in {-1, 1} |-> SideIn(p, s)]]

Drives(h) == tables.drives[h]
LatchSources(b) == tables.latchSources[b]
TurboSources(b) == tables.turboSources[b]
Side(s) == tables.side[s]
Holders == DOMAIN tables.drives

\* Every holder that drives something: the scan list of a full resync.
AllHolders == {h \in Holders : h[1] # "key" \/ Drives(h) # {}}

HasSocd == Side(1) # {} /\ Side(-1) # {}
SocdKeys == IF HasSocd THEN Side(1) \cup Side(-1) ELSE {}

ChordKeys == UNION {P.chord[c].keys : c \in ChordIds}

\* The keys the tables know, each of which makes the slot resync.
Known == {k \in Keys : P.entry[k] # {}} \cup ChordKeys
         \cup (UNION {P.chord[c].unless : c \in ChordIds})
         \cup (UNION {P.macro[m].triggers : m \in MacroIds})

\* A slot with none of these takes the path without state.
Stateful == ChordIds # {} \/ MacroIds # {} \/ DOMAIN P.turbo # {} \/ P.toggle # {} \/ HasSocd

-----------------------------------------------------------------------------
(* Which holders hold, given the keys that are down on one device. *)

Specificity(chord) == Cardinality(chord.keys) - 1 + Cardinality(chord.unless)

\* A chord is active while its keys are down, unless a strictly more specific
\* active chord has consumed one of them.
ActiveIn(p, bits) ==
    LET satisfied == {c \in DOMAIN p.chord : /\ p.chord[c].keys \subseteq bits
                                             /\ p.chord[c].unless \cap bits = {}}
        act[c \in DOMAIN p.chord] ==
            /\ c \in satisfied
            /\ \A e \in satisfied :
                  /\ Specificity(p.chord[e]) > Specificity(p.chord[c])
                  /\ p.chord[e].keys \cap p.chord[c].keys # {}
                  => ~act[e]
    IN  {c \in DOMAIN p.chord : act[c]}

Active(bits) == ActiveIn(P, bits)
ByChords(bits) == UNION {P.chord[c].keys : c \in Active(bits)}

\* A side drives while one of its keys is down and no chord has consumed it.
Driving(bits) ==
    LET free == bits \ ByChords(bits)
    IN  {s \in {-1, 1} : HasSocd /\ Side(s) \cap free # {}}

\* Mutant of Winner: the axis changes hands whenever both sides are seen to drive.
WinnerAnew(before, bits) ==
    IF Driving(bits) = {-1, 1} THEN -1 \in Driving(before) /\ P.socd = "last"
    ELSE slot.posWins

\* sync_socd: who has the axis once both sides drive.
Winner(before, bits) ==
    IF Driving(bits) # {-1, 1} THEN slot.posWins
    ELSE LET drove == Driving(before)
         IN  CASE drove = {-1} -> P.socd = "last"
               [] drove = {1} -> P.socd # "last"
               [] drove = {} -> FALSE
               [] OTHER -> slot.posWins

Consumed(bits, posWins) ==
    ByChords(bits) \cup
    IF Driving(bits) = {-1, 1} THEN Side(IF posWins THEN -1 ELSE 1) ELSE {}

\* holder_now, over a runtime s.
HoldsNow(s, bits, h) ==
    CASE h[1] = "key" -> h[2] \in bits \ s.consumed
      [] h[1] = "chord" -> h[2] \in s.active
      [] h[1] = "step" -> s.macro[h[2]].step = h[3]
      [] h[1] = "turbo" -> s.turbo[h[2]].running /\ s.turbo[h[2]].on
      [] h[1] = "toggle" -> s.latch[h[2]].latched

-----------------------------------------------------------------------------
(* The pad: SlotRuntime::resolve, run on every control that moved. *)

Sgn(v) == IF v > 0 THEN 1 ELSE IF v < 0 THEN -1 ELSE 0
Highest(S) == CHOOSE v \in S : \A w \in S : w <= v
Lowest(S) == CHOOSE v \in S : \A w \in S : v <= w

\* The axis: the largest deflection of the sign that rose last, and when that
\* sign has no holder left, the largest deflection there is.
Deflection(sign, held) ==
    LET pos == {v \in held : v > 0}
        neg == {v \in held : v < 0}
    IN  CASE sign = 1 /\ pos # {} -> Highest(pos)
          [] sign = -1 /\ neg # {} -> Lowest(neg)
          [] sign = 0 /\ 0 \in held -> 0
          [] OTHER -> IF pos = {} /\ neg = {} THEN 0
                      ELSE IF neg = {} THEN Highest(pos)
                      ELSE IF pos = {} THEN Lowest(neg)
                      ELSE IF Highest(pos) >= -Lowest(neg) THEN Highest(pos) ELSE Lowest(neg)

Demands(holders) == UNION {Drives(h) : h \in holders}
Leanings(holders) == {b[2] : b \in {b \in Demands(holders) : b[1] = "X"}}
Pressed(holders) == {b[1] : b \in Demands(holders)} \ {"X"}

\* The runtimes in which the controls of the holders that rose or fell have
\* been resolved over the holders that hold.  When several risen holders lean
\* on the axis, any of them may be the last of the scan.
Resolved(s, held, rose, fell) ==
    LET signs == {Sgn(v) : v \in Leanings(rose)}
        moved == {b[1] : b \in Demands(rose \cup fell)}
    IN  {[s EXCEPT !.sign = g,
                   !.pad.on = (@ \ moved) \cup (Pressed(held) \cap moved),
                   !.pad.x = IF "X" \in moved THEN Deflection(g, Leanings(held)) ELSE @]
           : g \in IF signs = {} THEN {s.sign} ELSE signs}

\* apply_scan: rescan the given holders, then apply those that moved.
Applied(s, bits, scan) ==
    LET holding == {h \in scan : HoldsNow(s, bits, h)}
        held == (s.held \ scan) \cup holding
    IN  Resolved([s EXCEPT !.held = held, !.dirty = {}],
                 held, held \ s.held, s.held \ held)

-----------------------------------------------------------------------------
(* Deadlines and macros. *)

Larger(a, b) == IF a >= b THEN a ELSE b

Idle == [step |-> 0, gapping |-> FALSE, age |-> 0]
Fresh == [Idle EXCEPT !.step = 1]
Alive(run) == run.step # 0 \/ run.gapping

\* Mutant of TimeLeft: a late step keeps its place in the sequence.
TimeLeftOnSchedule(m, run) ==
    IF run.gapping THEN P.macro[m].gap ELSE P.macro[m].steps[run.step].ends - run.age

\* macro_deadline, as time left: a step ends at its place in the sequence,
\* and late steps are still shown for their minimum.
TimeLeft(m, run) ==
    IF run.gapping THEN P.macro[m].gap
    ELSE LET step == P.macro[m].steps[run.step]
         IN  Larger(step.ends - run.age, step.min)

StepHolder(m, run) == IF run.step = 0 THEN {} ELSE {Step(m, run.step)}

\* Mutant of Put: a run that ends leaves its deadline armed.
PutWithoutCancel(s, ms, run) ==
    LET armed == {<<"macro", m>> : m \in {m \in ms : Alive(run[m])}}
    IN  [s EXCEPT
          !.macro = [m \in DOMAIN @ |-> IF m \in ms THEN run[m] ELSE @[m]],
          !.dirty = @ \cup UNION {StepHolder(m, s.macro[m]) \cup StepHolder(m, run[m]) : m \in ms},
          !.timers = [i \in DOMAIN @ \cup armed |->
                        IF i \in armed THEN TimeLeft(i[2], run[i[2]]) ELSE @[i]]]

\* Put the macros of ms on the runs given: mark the holders they leave and
\* reach, and arm or cancel their deadlines.
Put(s, ms, run) ==
    LET id(m) == <<"macro", m>>
        armed == {id(m) : m \in {m \in ms : Alive(run[m])}}
        others == DOMAIN s.timers \ {id(m) : m \in ms}
    IN  [s EXCEPT
          !.macro = [m \in DOMAIN @ |-> IF m \in ms THEN run[m] ELSE @[m]],
          !.dirty = @ \cup UNION {StepHolder(m, s.macro[m]) \cup StepHolder(m, run[m]) : m \in ms},
          !.timers = [i \in others \cup armed |->
                        IF i \in armed THEN TimeLeft(i[2], run[i[2]]) ELSE @[i]]]

Stopped == [m \in MacroIds |-> Idle]
Started == [m \in MacroIds |-> Fresh]

\* macro_interrupt: other input aborts the macros whose policy says so.
Opposes(b, c) == b[1] = c[1] /\ b[1] = "X" /\ b[2] * c[2] < 0
Contradicts(s, m, k) ==
    \/ \E b \in Drives(Key(k)), c \in Drives(Step(m, s.macro[m].step)) : Opposes(b, c)
    \/ \E n \in MacroIds \ {m} : k \in P.macro[n].triggers

Interrupted(s, k) ==
    {m \in MacroIds :
        /\ s.macro[m].step # 0
        /\ k \notin P.macro[m].triggers
        /\ \/ P.macro[m].interrupt = "any-input"
           \/ P.macro[m].interrupt = "opposing" /\ Contradicts(s, m, k)}

\* macro_key: the triggers of the key start their macros or abort them.
Triggered(k) == {m \in MacroIds : k \in P.macro[m].triggers}
Startable(s, k) ==
    {m \in Triggered(k) : s.macro[m].step = 0 \/ P.macro[m].restart}
Abortable(k) == {m \in Triggered(k) : P.macro[m].abort}

MacroEdge(s, k, press) ==
    IF press
    THEN LET calm == Put(s, Interrupted(s, k), Stopped)
         IN  Put(calm, Startable(calm, k), Started)
    ELSE Put(s, Abortable(k), Stopped)

\* Mutant of After: a repeating macro does not ask whether its trigger is held.
AfterRepeatsAlways(s, m) ==
    LET run == s.macro[m]
        mac == P.macro[m]
    IN  IF run.step = 0 THEN Fresh
        ELSE IF run.step < Len(mac.steps) THEN [run EXCEPT !.step = @ + 1]
        ELSE IF mac.repeat = "once" THEN Idle
        ELSE IF mac.repeat = "turbo" THEN [Idle EXCEPT !.gapping = TRUE]
        ELSE Fresh

\* macro_advance: what follows the step or the gap that has run out.
After(s, m) ==
    LET run == s.macro[m]
        mac == P.macro[m]
        again == mac.triggers \cap down["kbd"] # {}
    IN  IF run.step = 0 THEN (IF run.gapping /\ again THEN Fresh ELSE Idle)
        ELSE IF run.step < Len(mac.steps) THEN [run EXCEPT !.step = @ + 1]
        ELSE IF mac.repeat = "once" \/ ~again THEN Idle
        ELSE IF mac.repeat = "turbo" THEN [Idle EXCEPT !.gapping = TRUE]
        ELSE Fresh

-----------------------------------------------------------------------------
(* Latches and turbos. *)

HoldsAny(s, bits, sources) == \E h \in sources : HoldsNow(s, bits, h)

\* sync_toggle: a latch flips when its sources, silent before, drive.
Toggled(s, bits) ==
    LET driving(b) == HoldsAny(s, bits, LatchSources(b))
        flips == {b \in P.toggle : driving(b) /\ ~s.latch[b].was}
    IN  [s EXCEPT
          !.latch = [b \in P.toggle |->
                       [latched |-> IF b \in flips THEN ~@[b].latched ELSE @[b].latched,
                        was |-> driving(b)]],
          !.dirty = @ \cup {Toggle(b) : b \in flips}]

\* Run the turbos of bs with the phase given: running ones are armed.
Phase(s, bs, running, on) ==
    LET id(b) == <<"turbo", b>>
        armed == IF running THEN {id(b) : b \in bs} ELSE {}
        others == DOMAIN s.timers \ {id(b) : b \in bs}
    IN  [s EXCEPT
          !.turbo = [b \in DOMAIN @ |-> IF b \in bs THEN [running |-> running, on |-> on] ELSE @[b]],
          !.dirty = @ \cup {Turbo(b) : b \in bs},
          !.timers = [i \in others \cup armed |->
                        IF i \in armed
                        THEN (IF on THEN P.turbo[i[2]].on ELSE P.turbo[i[2]].off)
                        ELSE @[i]]]

\* sync_turbo: pressed at once when its sources start to drive, released at
\* once when they stop.
Turboed(s, bits) ==
    LET driven(b) == HoldsAny(s, bits, TurboSources(b))
        starts == {b \in DOMAIN P.turbo : driven(b) /\ ~s.turbo[b].running}
        stops == {b \in DOMAIN P.turbo : ~driven(b) /\ s.turbo[b].running}
    IN  Phase(Phase(s, starts, TRUE, TRUE), stops, FALSE, FALSE)

\* Mutant of Cancelled: a macro that rests in its gap is overlooked.
CancelledOnSteps(s) ==
    LET still == Put(s, {m \in MacroIds : s.macro[m].step # 0}, Stopped)
        quiet == Phase(still, {b \in DOMAIN P.turbo : s.turbo[b].running \/ s.turbo[b].on},
                       FALSE, FALSE)
    IN  [quiet EXCEPT
          !.latch = [b \in P.toggle |-> [latched |-> FALSE, was |-> FALSE]],
          !.dirty = @ \cup {Toggle(b) : b \in {b \in P.toggle : s.latch[b].latched}}]

\* cancel_all_macros, cancel_all_turbo and cancel_all_toggle, one after the
\* other: what every exit does.
Cancelled(s) ==
    LET still == Put(s, {m \in MacroIds : Alive(s.macro[m])}, Stopped)
        quiet == Phase(still, {b \in DOMAIN P.turbo : s.turbo[b].running \/ s.turbo[b].on},
                       FALSE, FALSE)
    IN  [quiet EXCEPT
          !.latch = [b \in P.toggle |-> [latched |-> FALSE, was |-> FALSE]],
          !.dirty = @ \cup {Toggle(b) : b \in {b \in P.toggle : s.latch[b].latched}}]

-----------------------------------------------------------------------------
(* The passes over a slot. *)

\* Mutant of ScanOf: the keys of an opposing pair are not looked at again.
ScanWithoutSides(s, k) == ChordKeys \cup {k}

\* The keys an event on key k can have moved.
ScanOf(s, k) == ChordKeys \cup SocdKeys \cup {k}

\* sync: chords, opposing sides, latches and turbos, in this order, then the
\* holders that any of them can have moved.
Synced(s, bits, before, k) ==
    LET posWins == Winner(before, bits)
        settled == [s EXCEPT !.active = Active(bits), !.posWins = posWins,
                             !.consumed = Consumed(bits, posWins)]
        moved == Turboed(Toggled(settled, bits), bits)
    IN  Applied(moved, bits,
                {Key(j) : j \in ScanOf(s, k)} \cup {Chord(c) : c \in ChordIds} \cup moved.dirty)

\* sync with full set, as when a device is gone.
SyncedInFull(s, bits, before) ==
    LET posWins == Winner(before, bits)
        settled == [s EXCEPT !.active = Active(bits), !.posWins = posWins,
                             !.consumed = Consumed(bits, posWins)]
    IN  Applied(Turboed(Toggled(settled, bits), bits), bits, AllHolders)

\* The path of a slot without state: the keys down on the device are what
\* holds, and every binding of the key is resolved, moved or not.
Plain(bits, ks, press) ==
    LET held == {Key(j) : j \in bits}
        touched == {Key(k) : k \in ks}
    IN  Resolved(slot, held, IF press THEN touched ELSE {}, touched)

Neutral == [on |-> {}, x |-> 0]

Blank(n) ==
    LET p == Preset[n]
    IN  [held |-> {}, active |-> {}, consumed |-> {}, posWins |-> FALSE,
         macro |-> [m \in DOMAIN p.macro |-> Idle],
         turbo |-> [b \in DOMAIN p.turbo |-> [running |-> FALSE, on |-> FALSE]],
         latch |-> [b \in p.toggle |-> [latched |-> FALSE, was |-> FALSE]],
         timers |-> [i \in {} |-> 0], dirty |-> {}, sign |-> 0, pad |-> Neutral]

Silent(n) == [m \in DOMAIN Preset[n].macro |-> 0]

Init ==
    /\ name \in Names
    /\ tables = Tables(P)
    /\ down = [d \in Devices |-> {}]
    /\ slot = Blank(name)
    /\ shown = Silent(name)
    /\ order = {}

\* Ghost: a macro that is put on another step, or started again, is new.
Watch == shown' = [m \in MacroIds |->
                     IF slot'.macro[m] # slot.macro[m] THEN 0 ELSE shown[m]]

\* handle_at: a key goes down, repeats or comes up.
Handle(d, k, press) ==
    LET bits == IF press THEN down[d] \cup {k} ELSE down[d] \ {k}
        edge == (k \in down[d]) # press
    IN  /\ k \in KeysOf(d) \cap Known
        /\ down' = [down EXCEPT ![d] = bits]
        /\ IF ~Stateful THEN slot' \in Plain(bits, {k}, press)
           ELSE IF d = "mouse" THEN slot' \in Applied(slot, bits, {Key(k)})
           ELSE slot' \in Synced(IF edge THEN MacroEdge(slot, k, press) ELSE slot,
                                 bits, down[d], k)
        /\ Watch
        /\ order' = IF ~edge \/ k \notin SocdKeys \/ d = "mouse" THEN order
                    ELSE IF press THEN order \cup {<<j, k>> : j \in SocdKeys \cap down[d]}
                    ELSE {o \in order : k \notin {o[1], o[2]}}
        /\ UNCHANGED <<name, tables>>

\* release_device: the board is gone with its keys down.
ReleaseDevice(d) ==
    LET ks == down[d] \cap Known
    IN  /\ down' = [down EXCEPT ![d] = @ \ Known]
        /\ IF ~Stateful THEN slot' \in Plain(down[d] \ Known, ks, FALSE)
           ELSE IF d = "mouse" THEN slot' \in Applied(slot, {}, {Key(k) : k \in ks})
           ELSE slot' \in SyncedInFull(Cancelled(slot), {}, down[d])
        /\ Watch
        /\ order' = IF d = "kbd" THEN {} ELSE order
        /\ UNCHANGED <<name, tables>>

\* tick: everything that is due moves on, then the holders that moved.
Due == {i \in DOMAIN slot.timers : slot.timers[i] <= 0}
Ticked ==
    LET ms == {m \in MacroIds : <<"macro", m>> \in Due}
        bs == {b \in DOMAIN P.turbo : <<"turbo", b>> \in Due}
        on == {b \in bs : slot.turbo[b].on}
        advanced == Put(slot, ms, [m \in ms |-> After(slot, m)])
    IN  Phase(Phase(advanced, on, TRUE, FALSE), bs \ on, TRUE, TRUE)

Tick ==
    /\ Due # {}
    /\ \E s \in {Ticked} : slot' \in Applied(s, down["kbd"], s.dirty)
    /\ Watch
    /\ UNCHANGED <<name, tables, down, order>>

\* cancel_macros: the escape gesture has given the keyboard back.
CancelMacros ==
    LET quiet == Cancelled(slot)
    IN  /\ Stateful
        /\ slot' \in Applied(quiet, down["kbd"], quiet.dirty)
        /\ Watch
        /\ UNCHANGED <<name, tables, down, order>>

\* swap_tables: an edit puts other tables in place.
SwapTables(n) ==
    /\ name' = n
    /\ tables' = Tables(Preset[n])
    /\ down' = [d \in Devices |-> {}]
    /\ slot' = Blank(n)
    /\ shown' = Silent(n)
    /\ order' = {}

Aged(run) == IF run.step = 0 THEN run ELSE [run EXCEPT !.age = @ + 1]

\* Time passes, while nothing is overdue by more than the bound.
Elapse ==
    /\ DOMAIN slot.timers # {}
    /\ \A i \in DOMAIN slot.timers : slot.timers[i] > -MaxLate
    /\ slot' = [slot EXCEPT
                  !.timers = [i \in DOMAIN @ |-> @[i] - 1],
                  !.macro = [m \in DOMAIN @ |-> Aged(@[m])]]
    /\ shown' = [m \in MacroIds |-> IF Alive(slot.macro[m]) THEN shown[m] + 1 ELSE 0]
    /\ UNCHANGED <<name, tables, down, order>>

Next ==
    \/ \E d \in Devices, k \in Keys, press \in BOOLEAN : Handle(d, k, press)
    \/ \E d \in Devices : ReleaseDevice(d)
    \/ Tick \/ CancelMacros \/ Elapse
    \/ \E n \in Names : SwapTables(n)

\* Time passes, and the engine thread, which is never later than MaxLate, takes
\* what is due.
Spec == Init /\ [][Next]_vars /\ WF_vars(Elapse \/ Tick)

-----------------------------------------------------------------------------
(* Properties. *)

\* Every state is well typed.
TypeOK ==
    /\ name \in Names /\ tables = Tables(P)
    /\ down \in [Devices -> SUBSET Keys] /\ \A d \in Devices : down[d] \subseteq KeysOf(d)
    /\ slot.held \subseteq Holders /\ slot.active \subseteq ChordIds
    /\ slot.consumed \subseteq Keys /\ slot.posWins \in BOOLEAN
    /\ slot.macro \in [MacroIds -> [step : Nat, gapping : BOOLEAN, age : Nat]]
    /\ \A m \in MacroIds : /\ slot.macro[m].step <= Len(P.macro[m].steps)
                           /\ slot.macro[m].gapping => slot.macro[m].step = 0
    /\ slot.turbo \in [DOMAIN P.turbo -> [running : BOOLEAN, on : BOOLEAN]]
    /\ slot.latch \in [P.toggle -> [latched : BOOLEAN, was : BOOLEAN]]
    /\ \A i \in DOMAIN slot.timers : slot.timers[i] \in Int
    /\ slot.dirty = {} /\ slot.sign \in -1..1
    /\ slot.pad.on \subseteq Controls /\ slot.pad.x \in Int
    /\ shown \in [MacroIds -> Nat] /\ order \subseteq KbdKeys \X KbdKeys

\* What holds at this moment, from the keys that are down and the runs under
\* way.  A mouse button is held by events of its own: see Handle.
MouseHeld == {h \in slot.held : h[1] = "key" /\ h[2] \in MouseKeys}
HeldNow == {h \in AllHolders : HoldsNow(slot, down["kbd"], h)} \cup MouseHeld

\* NOTHING IS STUCK.  The pad, which the engine changes one control at a time,
\* is what all the holders that hold right now demand of it: however chords,
\* opposing sides, macros, turbos and latches interleave, no control stays on
\* without a holder and none is lost.  A mouse button holds only while it is
\* down, and a slot without state shows nothing that no key down demands.
\* (SlotRuntime::apply_scan and resolve, and the contract of handle_at.)
PadIsCurrent ==
    /\ Stateful => /\ slot.pad.on = Pressed(HeldNow)
                   /\ slot.pad.x = Deflection(slot.sign, Leanings(HeldNow))
                   /\ \A h \in MouseHeld : h[2] \in down["mouse"]
    /\ ~Stateful =>
          LET all == {Key(k) : k \in down["kbd"] \cup down["mouse"]}
          IN  slot.pad.on \subseteq Pressed(all) /\ slot.pad.x \in Leanings(all) \cup {0}

\* ONE DEADLINE PER RUN.  A step or a gap without a deadline would hold its
\* controls for ever, and a deadline that outlives its run would fire into the
\* next one.  (Timers::arm and cancel against macro_cancel, macro_advance,
\* sync_turbo and the exits.)
TimersMatchRuns ==
    DOMAIN slot.timers = {<<"macro", m>> : m \in {m \in MacroIds : Alive(slot.macro[m])}}
                         \cup {<<"turbo", b>> : b \in {b \in DOMAIN P.turbo : slot.turbo[b].running}}

\* LAST OR FIRST INPUT WINS.  While both keys of an axis are down, the one that
\* went down last (or first) has it, whatever other keys, autorepeats, macros
\* and cancellations came since.  Said of sides of one key each that no chord
\* can consume.  (SlotRuntime::sync_socd, which sees key sets, not presses.)
OrderDecides ==
    \A o \in order :
        SocdKeys = {o[1], o[2]} /\ SocdKeys \cap ChordKeys = {} =>
            LET winner == IF P.socd = "last" THEN o[2] ELSE o[1]
            IN  SocdKeys \cap {k \in KbdKeys : Key(k) \in slot.held} = {winner}

\* QUIET WHEN NOBODY PLAYS.  With every key up, no macro under way and no latch
\* on, the pad is neutral and nothing is armed: a turbo never outlives its
\* source, nor does a chord its keys.  (sync_turbo, recompute_chords.)
NeutralAtRest ==
    /\ \A d \in Devices : down[d] = {}
    /\ \A m \in MacroIds : ~Alive(slot.macro[m])
    /\ \A b \in P.toggle : ~slot.latch[b].latched
    => slot.pad = Neutral /\ slot.timers = <<>>

\* NOTHING OUTLIVES ITS SOURCE, in a well-typed state.
Bookkeeping == TypeOK /\ TimersMatchRuns /\ NeutralAtRest

\* EVERY STEP IS SEEN.  However late the thread wakes, the clock takes a macro
\* off a step only after the game could have sampled it, and out of a gap only
\* after the gap was there to see.  (macro_deadline, macro_advance.)
StepsAreSeen ==
    [][Tick => \A m \in MacroIds :
          slot'.macro[m] # slot.macro[m] =>
              shown[m] >= IF slot.macro[m].gapping THEN P.macro[m].gap
                          ELSE P.macro[m].steps[slot.macro[m].step].min]_vars

\* EXITS LET GO.  The escape gesture, the loss of the panel and an edit leave
\* nothing armed and nothing driven but by keys and chords: what a macro, a
\* turbo or a latch held is released there and then, also from a gap.
\* (cancel_macros, release_device, swap_tables.)
ExitsLetGo ==
    [][\/ slot'.timers = <<>> /\ \A h \in slot'.held : h[1] \in {"key", "chord"}
       \/ ~(CancelMacros \/ (Stateful /\ ReleaseDevice("kbd"))
             \/ \E n \in Names : SwapTables(n))]_vars

\* RUNS END.  A macro that nothing restarts ends, unless its trigger is held.
\* (macro_advance under the deadlines that the engine thread waits for.)
RunsEnd ==
    \A n \in Names : \A m \in {m \in DOMAIN Preset[n].macro : ~Preset[n].macro[m].restart} :
        (name = n /\ Alive(slot.macro[m]))
        ~> (name # n \/ ~Alive(slot.macro[m]) \/ P.macro[m].triggers \cap down["kbd"] # {})

\* AUTOREPEAT IS NO PRESS.  A key-down for a key that is already down moves no
\* latch.  (docs/INPUT-TRANSFORMS.md on toggles, and the edge of handle_at.)
AutorepeatIsNoPress ==
    [][\A d \in Devices, k \in Keys :
          Handle(d, k, TRUE) /\ k \in down[d] =>
              \A b \in P.toggle : slot'.latch[b].latched = slot.latch[b].latched]_vars
=============================================================================
