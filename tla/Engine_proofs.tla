--------------------------- MODULE Engine_proofs ---------------------------
(***************************************************************************)
(* Proofs about Engine, for any keys, controls, presets and lateness.      *)
(***************************************************************************)
EXTENDS Engine, SequenceTheorems, WellFoundedInduction, TLAPS

-----------------------------------------------------------------------------
(* The inductive invariant. *)

\* A run of a macro.
RunType == [step : Nat, gapping : BOOLEAN, age : Nat]

\* r is a run of macro m.
IsRun(m, r) ==
    /\ r \in RunType /\ r.step <= Len(P.macro[m].steps)
    /\ r.gapping => r.step = 0

\* The names of the deadlines.
MacroTimer(m) == <<"macro", m>>
TurboTimer(b) == <<"turbo", b>>
TimerIds == {MacroTimer(m) : m \in MacroIds} \cup {TurboTimer(b) : b \in DOMAIN P.turbo}

\* The holders that a key event reaches only through what the engine runs.
Inner == {h \in Holders : h[1] \in {"step", "turbo", "toggle"}}

\* s is a runtime of the slot.
Runtime(s) ==
    /\ s \in [held : SUBSET Holders, active : SUBSET ChordIds, consumed : SUBSET Keys,
              posWins : BOOLEAN, macro : [MacroIds -> RunType],
              turbo : [DOMAIN P.turbo -> [running : BOOLEAN, on : BOOLEAN]],
              latch : [P.toggle -> [latched : BOOLEAN, was : BOOLEAN]],
              timers : UNION {[D -> Int] : D \in SUBSET TimerIds},
              dirty : SUBSET Inner, sign : -1..1, pad : [on : SUBSET Controls, x : Int]]
    /\ \A m \in MacroIds : IsRun(m, s.macro[m])

\* A deadline for each run of s, and no other.
Matched(s) ==
    DOMAIN s.timers = {MacroTimer(m) : m \in {m \in MacroIds : Alive(s.macro[m])}}
                      \cup {TurboTimer(b) : b \in {b \in DOMAIN P.turbo : s.turbo[b].running}}

\* The pad of s is what the holders that hold demand.
Composed(s) ==
    /\ s.pad.on = Pressed(s.held)
    /\ s.pad.x = Deflection(s.sign, Leanings(s.held))

\* h is a button of the mouse, which events of its own move.
OfMouse(h) == h[1] = "key" /\ h[2] \in MouseKeys

\* The holders of hs that hold in s are those that hold now.
Accurate(s, bits, hs) ==
    \A h \in hs : ~OfMouse(h) => (h \in s.held <=> HoldsNow(s, bits, h))

\* The chords and the opposing sides of s are those of the keys down.
Settled(s, bits) ==
    /\ s.active = Active(bits)
    /\ s.consumed = Consumed(bits, s.posWins)

\* No turbo of s runs without a source.
Driven(s, bits) ==
    \A b \in DOMAIN P.turbo : s.turbo[b].running => HoldsAny(s, bits, TurboSources(b))

\* What the game must see of a run.
Least(m, r) == IF r.gapping THEN P.macro[m].gap ELSE P.macro[m].steps[r.step].min

\* No deadline of s comes before its step or gap has been seen.
Lasting(s, seen) ==
    \A m \in MacroIds :
        Alive(s.macro[m]) => seen[m] + s.timers[MacroTimer(m)] >= Least(m, s.macro[m])

\* Two keys that oppose each other alone, which no chord can take.
Opponents(o) == SocdKeys = {o[1], o[2]} /\ SocdKeys \cap ChordKeys = {}

\* s gives the axis to the key that the order of presses gives it to.
Ordered(s, bits, os) ==
    \A o \in os :
        /\ o[1] # o[2] /\ {o[1], o[2]} \subseteq SocdKeys \cap bits
        /\ Opponents(o) => (s.posWins <=> (IF P.socd = "last" THEN o[2] ELSE o[1]) \in Side(1))

\* Every control that shows something is demanded by a key down.
Shows(s, keys) ==
    /\ s.pad.on \subseteq Pressed({Key(k) : k \in keys})
    /\ s.pad.x \in Leanings({Key(k) : k \in keys}) \cup {0}

\* The tables are those of the preset in force.
Placed == name \in Names /\ tables = Tables(P)

\* What a slot with state shows is what the keys down and the runs demand.
Stated(s, dn) ==
    /\ Composed(s) /\ Accurate(s, dn["kbd"], AllHolders)
    /\ \A h \in s.held : OfMouse(h) => h[2] \in dn["mouse"]
    /\ Settled(s, dn["kbd"])

\* s is in order, given the keys down, how long its runs have been seen and
\* the order of presses.
Sound(s, dn, seen, os) ==
    /\ dn \in [Devices -> SUBSET Keys]
    /\ \A d \in Devices : dn[d] \subseteq KeysOf(d) \cap Known
    /\ Runtime(s) /\ s.dirty = {} /\ Matched(s)
    /\ IF Stateful THEN Stated(s, dn) ELSE Shows(s, dn["kbd"] \cup dn["mouse"])
    /\ Driven(s, dn["kbd"])
    /\ seen \in [MacroIds -> Nat] /\ Lasting(s, seen)
    /\ os \subseteq KbdKeys \X KbdKeys /\ Ordered(s, dn["kbd"], os)
    /\ os # {} => Accurate(s, dn["kbd"], {Key(k) : k \in SocdKeys})

\* The slot is in order, with what is kept about it beside it.
IInv == Placed /\ Sound(slot, down, shown, order)

-----------------------------------------------------------------------------
(* Presets and their tables. *)

\* A step that leaves preset and tables alone leaves all that is made of them.
LEMMA Same ==
    ASSUME UNCHANGED <<name, tables>>
    PROVE  /\ P' = P /\ ChordIds' = ChordIds /\ MacroIds' = MacroIds
           /\ Holders' = Holders /\ AllHolders' = AllHolders
           /\ \A bits : Active(bits)' = Active(bits)
           /\ \A bits : Driving(bits)' = Driving(bits)
           /\ \A bits : ByChords(bits)' = ByChords(bits)
           /\ \A bits, w : Consumed(bits, w)' = Consumed(bits, w)
           /\ Stateful' = Stateful
<1> USE DEF vars
<1>1. P' = P
  BY DEF P
<1>2. ChordIds' = ChordIds /\ MacroIds' = MacroIds
  BY <1>1 DEF ChordIds, MacroIds
<1>3. Holders' = Holders
  BY DEF Holders
<1>4. AllHolders' = AllHolders
  BY <1>3 DEF AllHolders, Drives
<1>5. ASSUME NEW bits PROVE Active(bits)' = Active(bits)
  BY <1>1 DEF Active
<1>6. ASSUME NEW bits PROVE ByChords(bits)' = ByChords(bits)
  BY <1>1, <1>2, <1>5, Zenon DEF ByChords
<1>7. HasSocd' = HasSocd /\ \A s : Side(s)' = Side(s)
  BY DEF HasSocd, Side
<1>8. ASSUME NEW bits PROVE Driving(bits)' = Driving(bits)
  BY <1>6, <1>7, Zenon DEF Driving
<1>9. Stateful' = Stateful
  BY <1>1, <1>2, <1>7 DEF Stateful
<1>10. ASSUME NEW bits, NEW w PROVE Consumed(bits, w)' = Consumed(bits, w)
  BY <1>6, <1>7, <1>8, Zenon DEF Consumed
<1> QED
  BY <1>1, <1>2, <1>3, <1>4, <1>5, <1>6, <1>8, <1>9, <1>10

\* No chord is active while no key is down.
LEMMA NothingActive ==
    ASSUME NEW p, IsPreset(p)
    PROVE  ActiveIn(p, {}) = {}
<1> DEFINE satisfied == {c \in DOMAIN p.chord : p.chord[c].keys \subseteq {} /\ p.chord[c].unless \cap {} = {}}
           act == [c \in DOMAIN p.chord |-> FALSE]
           rec(f) == [c \in DOMAIN p.chord |->
            /\ c \in satisfied
            /\ \A e \in satisfied :
                  /\ Specificity(p.chord[e]) > Specificity(p.chord[c])
                  /\ p.chord[e].keys \cap p.chord[c].keys # {}
                  => ~f[e]]
<1>1. satisfied = {}
  BY DEF IsPreset
<1>2. \A f : rec(f) = act
  BY <1>1
<1>3. (CHOOSE f : f = rec(f)) = act
  BY <1>2
<1>4. ActiveIn(p, {}) = {c \in DOMAIN p.chord : (CHOOSE f : f = rec(f))[c]}
  BY DEF ActiveIn
<1>5. @ = {c \in DOMAIN p.chord : act[c]}
  BY <1>3
<1> QED
  BY <1>4, <1>5

\* What the tables say, in terms of the preset.
LEMMA TablesSay ==
    ASSUME Placed
    PROVE  /\ IsPreset(P) /\ Holders = HoldersIn(P)
           /\ \A h \in Holders : Drives(h) = DrivesIn(P, h)
           /\ \A b \in P.toggle : LatchSources(b) = DirectIn(P, b)
           /\ \A b \in DOMAIN P.turbo : TurboSources(b) = TurboSourcesIn(P, b)
           /\ \A s \in {-1, 1} : Side(s) = SideIn(P, s)
<1>1. IsPreset(P)
  BY PresetAssumption DEF Placed, P
<1> QED
  BY <1>1 DEF Placed, Tables, Holders, Drives, LatchSources, TurboSources, Side

\* Every holder is a key, a chord, a step, a turbo or a latch.
LEMMA HolderForms ==
    ASSUME Placed, NEW h \in Holders
    PROVE  \/ \E k \in Keys : h = Key(k)
           \/ \E c \in ChordIds : h = Chord(c)
           \/ \E m \in MacroIds : \E i \in DOMAIN P.macro[m].steps : h = Step(m, i)
           \/ \E b \in DOMAIN P.turbo : h = Turbo(b)
           \/ \E b \in P.toggle : h = Toggle(b)
  BY TablesSay DEF HoldersIn, ChordIds, MacroIds

\* What a holder is, its first component tells.
LEMMA Kinds ==
    /\ \A k : Key(k)[1] = "key" /\ Key(k)[2] = k
    /\ \A c : Chord(c)[1] = "chord" /\ Chord(c)[2] = c
    /\ \A m, i : Step(m, i)[1] = "step" /\ Step(m, i)[2] = m /\ Step(m, i)[3] = i
    /\ \A b : Turbo(b)[1] = "turbo" /\ Turbo(b)[2] = b
    /\ \A b : Toggle(b)[1] = "toggle" /\ Toggle(b)[2] = b
  BY DEF Key, Chord, Step, Turbo, Toggle

\* When a holder of each kind holds.
LEMMA HoldsBy ==
    ASSUME NEW s, NEW bits
    PROVE  /\ \A k : HoldsNow(s, bits, Key(k)) <=> k \in bits \ s.consumed
           /\ \A c : HoldsNow(s, bits, Chord(c)) <=> c \in s.active
           /\ \A m, i : HoldsNow(s, bits, Step(m, i)) <=> s.macro[m].step = i
           /\ \A b : HoldsNow(s, bits, Turbo(b)) <=> s.turbo[b].running /\ s.turbo[b].on
           /\ \A b : HoldsNow(s, bits, Toggle(b)) <=> s.latch[b].latched
<1>1. ASSUME NEW k PROVE HoldsNow(s, bits, Key(k)) <=> k \in bits \ s.consumed
  BY DEF HoldsNow, Key
<1>2. ASSUME NEW c PROVE HoldsNow(s, bits, Chord(c)) <=> c \in s.active
  BY Kinds DEF HoldsNow
<1>3. ASSUME NEW m, NEW i PROVE HoldsNow(s, bits, Step(m, i)) <=> s.macro[m].step = i
  BY DEF HoldsNow, Step
<1>4. ASSUME NEW b PROVE HoldsNow(s, bits, Turbo(b)) <=> s.turbo[b].running /\ s.turbo[b].on
  BY Kinds DEF HoldsNow
<1>5. ASSUME NEW b PROVE HoldsNow(s, bits, Toggle(b)) <=> s.latch[b].latched
  BY Kinds DEF HoldsNow
<1> QED
  BY <1>1, <1>2, <1>3, <1>4, <1>5

\* The holders of each kind.
LEMMA Members ==
    ASSUME Placed
    PROVE  /\ \A k \in Keys : Key(k) \in Holders
           /\ \A c \in ChordIds : Chord(c) \in AllHolders
           /\ \A m \in MacroIds : \A i \in DOMAIN P.macro[m].steps : Step(m, i) \in Inner
           /\ \A b \in DOMAIN P.turbo : Turbo(b) \in Inner
           /\ \A b \in P.toggle : Toggle(b) \in Inner
           /\ Inner \subseteq AllHolders /\ AllHolders \subseteq Holders
           /\ \A h \in Inner : h[1] \notin {"key", "chord"}
<1>1. /\ \A k \in Keys : Key(k) \in Holders
      /\ \A c \in ChordIds : Chord(c) \in Holders
      /\ \A m \in MacroIds : \A i \in DOMAIN P.macro[m].steps : Step(m, i) \in Holders
      /\ \A b \in DOMAIN P.turbo : Turbo(b) \in Holders
      /\ \A b \in P.toggle : Toggle(b) \in Holders
  <2>1. Holders = HoldersIn(P)
    BY TablesSay
  <2>2. \A m \in MacroIds : \A i \in DOMAIN P.macro[m].steps :
          Step(m, i) \in (UNION {{Step(n, j) : j \in DOMAIN P.macro[n].steps} : n \in DOMAIN P.macro})
    BY DEF MacroIds
  <2>3. \A m \in MacroIds : \A i \in DOMAIN P.macro[m].steps : Step(m, i) \in Holders
    BY <2>1, <2>2 DEF HoldersIn
  <2> QED
    BY <2>1, <2>3 DEF HoldersIn, ChordIds
<1> QED
  BY <1>1, Kinds DEF AllHolders, Inner

\* What a macro is made of.
LEMMA StepsOf ==
    ASSUME Placed, NEW m \in MacroIds
    PROVE  /\ IsMacro(P.macro[m]) /\ Len(P.macro[m].steps) \in Nat \ {0}
           /\ DOMAIN P.macro[m].steps = 1..Len(P.macro[m].steps)
           /\ P.macro[m].gap \in Nat \ {0}
           /\ \A i \in DOMAIN P.macro[m].steps :
                 /\ P.macro[m].steps[i].hold \subseteq Bindings
                 /\ P.macro[m].steps[i].ends \in Nat \ {0}
                 /\ P.macro[m].steps[i].min \in Nat \ {0}
<1>1. IsMacro(P.macro[m])
  BY TablesSay DEF IsPreset, MacroIds
<1> DEFINE steps == P.macro[m].steps
           Form == [hold : SUBSET Bindings, ends : Nat \ {0}, min : Nat \ {0}]
<1>2. steps \in Seq(Form) /\ steps # <<>>
  BY <1>1 DEF IsMacro
<1>3. \A f \in Form : f.hold \subseteq Bindings /\ f.ends \in Nat \ {0} /\ f.min \in Nat \ {0}
  OBVIOUS
<1> HIDE DEF steps, Form
<1>4. Len(steps) \in Nat /\ DOMAIN steps = 1..Len(steps) /\ \A i \in DOMAIN steps : steps[i] \in Form
  BY <1>2
<1>5. Len(steps) # 0
  BY <1>2, EmptySeq
<1> QED
  BY <1>1, <1>3, <1>4, <1>5 DEF steps, IsMacro

\* What holders drive are bindings.
LEMMA DrivesBindings ==
    ASSUME Placed, NEW h \in Holders
    PROVE  Drives(h) \subseteq Bindings
<1>1. IsPreset(P) /\ Drives(h) = DrivesIn(P, h)
  BY TablesSay
<1>2. CASE \E k \in Keys : h = Key(k)
  BY <1>1, <1>2, Kinds DEF DrivesIn, IsPreset
<1>3. CASE \E c \in ChordIds : h = Chord(c)
  BY <1>1, <1>3, Kinds DEF DrivesIn, IsPreset, ChordIds
<1>4. CASE \E m \in MacroIds : \E i \in DOMAIN P.macro[m].steps : h = Step(m, i)
  BY <1>1, <1>4, Kinds, StepsOf DEF DrivesIn
<1>5. CASE \E b \in DOMAIN P.turbo : h = Turbo(b)
  BY <1>1, <1>5, Kinds DEF DrivesIn, IsPreset
<1>6. CASE \E b \in P.toggle : h = Toggle(b)
  BY <1>1, <1>6, Kinds DEF DrivesIn, IsPreset
<1> QED
  BY <1>2, <1>3, <1>4, <1>5, <1>6, HolderForms

\* The opposing sides are keys of an axis, and no key is on both.
LEMMA Sides ==
    ASSUME Placed
    PROVE  /\ Side(1) \subseteq Keys /\ Side(-1) \subseteq Keys
           /\ Side(1) \cap Side(-1) = {}
           /\ SocdKeys \subseteq Keys
           /\ SocdKeys # {} => HasSocd /\ SocdKeys = Side(1) \cup Side(-1)
<1>1. Side(1) = SideIn(P, 1) /\ Side(-1) = SideIn(P, -1)
  BY TablesSay
<1>2. Side(1) \subseteq Keys /\ Side(-1) \subseteq Keys /\ Side(1) \cap Side(-1) = {}
  BY <1>1 DEF SideIn
<1> QED
  BY <1>2 DEF SocdKeys
-----------------------------------------------------------------------------
(* The pad. *)

\* The order of the naturals.
LessThan == {o \in Nat \X Nat : o[1] < o[2]}

\* A set of naturals has a least element.
LEMMA LeastOf ==
    ASSUME NEW T \in SUBSET Nat, T # {}
    PROVE  \E x \in T : \A y \in T : x <= y
<1>1. IsWellFoundedOn(LessThan, Nat)
  BY NatLessThanWellFounded DEF OpToRel, LessThan
<1>2. PICK x \in T : \A y \in T : ~(<<y, x>> \in LessThan)
  BY <1>1, WFMin
<1>3. \A y \in T : ~(y < x)
  BY <1>2 DEF LessThan
<1> QED
  BY <1>3

\* A deflection lies between its bounds.
LEMMA DeflectionBounds ==
    /\ AxisMax \in Nat
    /\ \A v \in Deflections : v \in Int /\ AxisMax - v \in Nat /\ v + AxisMax + 1 \in Nat
<1>1. AxisMax \in Nat
  BY DEF AxisMax
<1> QED
  BY <1>1 DEF Deflections

\* A set of deflections has a highest and a lowest.
LEMMA Extremes ==
    ASSUME NEW T \in SUBSET Deflections, T # {}
    PROVE  Highest(T) \in T /\ Lowest(T) \in T
<1>1. \E v \in T : \A w \in T : w <= v
  <2> DEFINE U == {AxisMax - v : v \in T}
  <2>1. U \in SUBSET Nat /\ U # {}
    BY DeflectionBounds
  <2>2. PICK u \in U : \A w \in U : u <= w
    BY <2>1, LeastOf
  <2>3. PICK v \in T : u = AxisMax - v
    OBVIOUS
  <2>4. \A w \in T : AxisMax - v <= AxisMax - w
    BY <2>2, <2>3
  <2> QED
    BY <2>4, DeflectionBounds
<1>2. \E v \in T : \A w \in T : v <= w
  <2> DEFINE U == {v + AxisMax + 1 : v \in T}
  <2>1. U \in SUBSET Nat /\ U # {}
    BY DeflectionBounds
  <2>2. PICK u \in U : \A w \in U : u <= w
    BY <2>1, LeastOf
  <2>3. PICK v \in T : u = v + AxisMax + 1
    OBVIOUS
  <2>4. \A w \in T : v + AxisMax + 1 <= w + AxisMax + 1
    BY <2>2, <2>3
  <2> QED
    BY <2>4, DeflectionBounds
<1> QED
  BY <1>1, <1>2 DEF Highest, Lowest

\* The axis stands at a deflection that is held, or at its centre.
LEMMA DeflectionHeld ==
    ASSUME NEW T \in SUBSET Deflections, NEW g
    PROVE  Deflection(g, T) \in T \cup {0}
<1> DEFINE pos == {v \in T : v > 0}
           neg == {v \in T : v < 0}
<1>1. pos # {} => Highest(pos) \in T
  BY Extremes
<1>2. neg # {} => Lowest(neg) \in T
  BY Extremes
<1> HIDE DEF pos, neg
<1>3. Deflection(g, T) =
         CASE g = 1 /\ pos # {} -> Highest(pos)
          [] g = -1 /\ neg # {} -> Lowest(neg)
          [] g = 0 /\ 0 \in T -> 0
          [] OTHER -> IF pos = {} /\ neg = {} THEN 0
                      ELSE IF neg = {} THEN Highest(pos)
                      ELSE IF pos = {} THEN Lowest(neg)
                      ELSE IF Highest(pos) >= -Lowest(neg) THEN Highest(pos) ELSE Lowest(neg)
  BY Zenon DEF Deflection, pos, neg
<1> QED
  BY <1>1, <1>2, <1>3

\* With nothing held the axis is centred.
LEMMA DeflectionNone == \A g : Deflection(g, {}) = 0
  BY DEF Deflection

\* What holders demand of the pad.
LEMMA DemandsType ==
    ASSUME Placed, NEW hs \in SUBSET Holders
    PROVE  /\ Demands(hs) \subseteq Bindings
           /\ Leanings(hs) \subseteq Deflections /\ Pressed(hs) \subseteq Controls
<1>1. Demands(hs) \subseteq Bindings
  BY DrivesBindings DEF Demands
<1> QED
  BY <1>1 DEF Leanings, Pressed, Bindings

\* Who demands a deflection or a control.
LEMMA DemandsOf ==
    ASSUME NEW hs
    PROVE  /\ \A c : c \in Pressed(hs) <=> c # "X" /\ \E h \in hs : \E x \in Drives(h) : x[1] = c
           /\ \A v : v \in Leanings(hs) <=> \E h \in hs : \E x \in Drives(h) : x[1] = "X" /\ x[2] = v
  BY DEF Pressed, Leanings, Demands

\* The controls that holders can move.
Touched(hs) == {x[1] : x \in Demands(hs)}

\* In t the controls of the holders that rose or fell show what held demands,
\* and nothing else of s has changed.
Resolves(t, s, held, rose, fell) ==
    /\ t = [s EXCEPT !.sign = t.sign, !.pad = t.pad]
    /\ \A c \in Controls :
          c \in t.pad.on <=> IF c \in Touched(rose \cup fell) THEN c \in Pressed(held)
                            ELSE c \in s.pad.on
    /\ IF "X" \in Touched(rose \cup fell) THEN t.pad.x = Deflection(t.sign, Leanings(held))
       ELSE t.pad.x = s.pad.x
    /\ Leanings(rose) = {} => t.sign = s.sign

\* What the controls of moved holders show once they have been resolved is what
\* all that holds demands; the others are as they were.
LEMMA ResolvedShape ==
    ASSUME Placed, NEW s, Runtime(s),
           NEW held \in SUBSET Holders, NEW rose \in SUBSET Holders, NEW fell \in SUBSET Holders,
           NEW t \in Resolved(s, held, rose, fell)
    PROVE  Runtime(t) /\ Resolves(t, s, held, rose, fell)
<1> DEFINE signs == {Sgn(v) : v \in Leanings(rose)}
           moved == Touched(rose \cup fell)
<1>1. PICK g \in IF signs = {} THEN {s.sign} ELSE signs :
         t = [s EXCEPT !.sign = g,
                       !.pad.on = (@ \ moved) \cup (Pressed(held) \cap moved),
                       !.pad.x = IF "X" \in moved THEN Deflection(g, Leanings(held)) ELSE @]
  BY DEF Resolved, Touched
<1>2. /\ Leanings(rose) \subseteq Deflections /\ Leanings(held) \subseteq Deflections
      /\ Pressed(held) \subseteq Controls
  BY DemandsType
<1>3. signs \subseteq -1..1
  BY <1>2, DeflectionBounds DEF Sgn
<1>4. g \in -1..1 /\ (Leanings(rose) = {} => g = s.sign)
  BY <1>3 DEF Runtime
<1>5. Deflection(g, Leanings(held)) \in Int
  BY <1>2, DeflectionHeld, DeflectionBounds
<1> HIDE DEF moved, signs
<1>6. /\ t.sign = g /\ t.pad = [on |-> (s.pad.on \ moved) \cup (Pressed(held) \cap moved),
                                x |-> IF "X" \in moved THEN Deflection(g, Leanings(held)) ELSE s.pad.x]
      /\ t = [s EXCEPT !.sign = t.sign, !.pad = t.pad]
  BY <1>1 DEF Runtime
<1>7. t.pad \in [on : SUBSET Controls, x : Int]
  BY <1>2, <1>5, <1>6 DEF Runtime
<1>8. Runtime(t)
  BY <1>4, <1>6, <1>7 DEF Runtime
<1>9. \A c \in Controls : c \in t.pad.on <=> IF c \in moved THEN c \in Pressed(held) ELSE c \in s.pad.on
  BY <1>6
<1>10. IF "X" \in moved THEN t.pad.x = Deflection(t.sign, Leanings(held)) ELSE t.pad.x = s.pad.x
  BY <1>6
<1> QED
  BY <1>4, <1>6, <1>8, <1>9, <1>10 DEF moved, Resolves

\* t is s with the holders of scan looked at again and the pad up to date.
IsApplied(t, s, bits, scan) ==
    /\ Runtime(t) /\ t.dirty = {} /\ Composed(t)
    /\ t.held = (s.held \ scan) \cup {h \in scan : HoldsNow(s, bits, h)}
    /\ t.active = s.active /\ t.consumed = s.consumed /\ t.posWins = s.posWins
    /\ t.macro = s.macro /\ t.turbo = s.turbo /\ t.latch = s.latch /\ t.timers = s.timers
    /\ \A a, h : HoldsNow(t, a, h) <=> HoldsNow(s, a, h)

\* A scan leaves a pad composed that was composed, and rescans what it is given.
LEMMA AppliedShape ==
    ASSUME Placed, NEW s, Runtime(s), Composed(s), NEW bits,
           NEW scan \in SUBSET Holders, NEW t \in Applied(s, bits, scan)
    PROVE  IsApplied(t, s, bits, scan)
<1> DEFINE holding == {h \in scan : HoldsNow(s, bits, h)}
           held == (s.held \ scan) \cup holding
           base == [s EXCEPT !.held = held, !.dirty = {}]
           rose == held \ s.held
           fell == s.held \ held
<1>1. t \in Resolved(base, held, rose, fell)
  BY DEF Applied
<1>2. s.held \subseteq Holders
  BY DEF Runtime
<1>3. held \in SUBSET Holders /\ rose \in SUBSET Holders /\ fell \in SUBSET Holders
  BY <1>2
<1> HIDE DEF holding
<1>4. Runtime(base)
  BY <1>3 DEF Runtime
<1>5. /\ base.held = held /\ base.dirty = {} /\ base.pad = s.pad /\ base.sign = s.sign
  BY DEF Runtime
<1> DEFINE moved == Touched(rose \cup fell)
<1>7. \A h \in rose \cup fell : \A x \in Drives(h) : x[1] \in moved
  BY DEF Demands, Touched
<1>8. \A h : h \notin rose \cup fell => (h \in held <=> h \in s.held)
  OBVIOUS
<1> HIDE DEF base, rose, fell, held
<1>6. /\ t = [base EXCEPT !.sign = t.sign, !.pad = t.pad] /\ Runtime(t)
      /\ \A c \in Controls : c \in t.pad.on <=> IF c \in moved THEN c \in Pressed(held) ELSE c \in s.pad.on
      /\ IF "X" \in moved THEN t.pad.x = Deflection(t.sign, Leanings(held)) ELSE t.pad.x = s.pad.x
      /\ Leanings(rose) = {} => t.sign = s.sign
  <2> HIDE DEF moved
  <2>1. Runtime(t) /\ Resolves(t, base, held, rose, fell)
    BY <1>1, <1>3, <1>4, ResolvedShape
  <2> QED
    BY <2>1, <1>5 DEF moved, Resolves
<1> HIDE DEF moved
<1>9. t = [s EXCEPT !.held = t.held, !.dirty = {}, !.sign = t.sign, !.pad = t.pad] /\ t.held = held
  BY <1>6 DEF base, Runtime
<1>10. \A c \in Controls : c \notin moved => (c \in Pressed(held) <=> c \in Pressed(s.held))
  <2>1. /\ \A c : c \in Pressed(held) <=> c # "X" /\ \E h \in held : \E x \in Drives(h) : x[1] = c
        /\ \A c : c \in Pressed(s.held) <=> c # "X" /\ \E h \in s.held : \E x \in Drives(h) : x[1] = c
    BY DemandsOf
  <2> QED
    BY <2>1, <1>7, <1>8
<1>11. "X" \notin moved => Leanings(held) = Leanings(s.held) /\ Leanings(rose) = {}
  <2>1. /\ \A v : v \in Leanings(held) <=> \E h \in held : \E x \in Drives(h) : x[1] = "X" /\ x[2] = v
        /\ \A v : v \in Leanings(s.held) <=> \E h \in s.held : \E x \in Drives(h) : x[1] = "X" /\ x[2] = v
        /\ \A v : v \in Leanings(rose) <=> \E h \in rose : \E x \in Drives(h) : x[1] = "X" /\ x[2] = v
    BY DemandsOf
  <2>2. "X" \notin moved => \A h \in rose \cup fell : \A x \in Drives(h) : x[1] # "X"
    BY <1>7
  <2>3. "X" \notin moved => \A v : v \in Leanings(held) <=> v \in Leanings(s.held)
    BY <2>1, <2>2, <1>8
  <2>4. "X" \notin moved => \A v : v \notin Leanings(rose)
    BY <2>1, <2>2
  <2> QED
    BY <2>3, <2>4
<1>12. t.pad.on = Pressed(held)
  <2>1. t.pad.on \subseteq Controls /\ Pressed(held) \subseteq Controls
    BY <1>3, <1>6, DemandsType DEF Runtime
  <2>2. \A c \in Controls : c \in t.pad.on <=> c \in Pressed(held)
    BY <1>6, <1>10 DEF Composed
  <2> QED
    BY <2>1, <2>2
<1>13. t.pad.x = Deflection(t.sign, Leanings(held))
  BY <1>6, <1>11 DEF Composed
<1>14. /\ t.dirty = {} /\ t.active = s.active /\ t.consumed = s.consumed
       /\ t.posWins = s.posWins /\ t.macro = s.macro /\ t.turbo = s.turbo
       /\ t.latch = s.latch /\ t.timers = s.timers
  BY <1>9 DEF Runtime
<1>15. \A a, h : HoldsNow(t, a, h) <=> HoldsNow(s, a, h)
  BY <1>14 DEF HoldsNow
<1> QED
  BY <1>6, <1>9, <1>12, <1>13, <1>14, <1>15 DEF Composed, held, holding, IsApplied
-----------------------------------------------------------------------------
(* What moves holders marks them. *)

\* t comes from s: keys and chords hold as they did, and a step, a turbo or a
\* latch that does not is marked.
Moves(s, t) ==
    /\ t.held = s.held /\ t.active = s.active /\ t.consumed = s.consumed
    /\ t.posWins = s.posWins /\ t.sign = s.sign /\ t.pad = s.pad
    /\ s.dirty \subseteq t.dirty
    /\ \A h \in Inner \ t.dirty : \A bits : HoldsNow(t, bits, h) <=> HoldsNow(s, bits, h)

\* Moves follow each other.
LEMMA MovesOn ==
    ASSUME NEW s, NEW t, NEW u, Moves(s, t), Moves(t, u)
    PROVE  Moves(s, u)
  BY DEF Moves

\* A key or a chord holds in t as it does in s.
LEMMA MovesOutside ==
    ASSUME NEW s, NEW t, Moves(s, t), NEW h, h[1] \in {"key", "chord"}, NEW bits
    PROVE  HoldsNow(t, bits, h) <=> HoldsNow(s, bits, h)
  BY DEF Moves, HoldsNow

\* The holders inside are steps, turbos and latches.
LEMMA InnerForms ==
    ASSUME Placed, NEW h \in Inner
    PROVE  \/ \E m \in MacroIds : \E i \in DOMAIN P.macro[m].steps : h = Step(m, i)
           \/ \E b \in DOMAIN P.turbo : h = Turbo(b)
           \/ \E b \in P.toggle : h = Toggle(b)
<1>1. h \in Holders /\ h[1] \notin {"key", "chord"}
  BY DEF Inner
<1> QED
  BY <1>1, HolderForms, Kinds

\* What is left of a run is a time.
LEMMA TimeLeftType ==
    ASSUME Placed, NEW m \in MacroIds, NEW r, IsRun(m, r), Alive(r)
    PROVE  TimeLeft(m, r) \in Int /\ TimeLeft(m, r) >= Least(m, r) /\ Least(m, r) \in Nat \ {0}
<1>2. CASE r.gapping
  BY <1>2, StepsOf DEF TimeLeft, Least
<1>3. CASE ~r.gapping
  <2>1. r.step \in DOMAIN P.macro[m].steps
    BY <1>3, StepsOf DEF IsRun, RunType, Alive
  <2> QED
    BY <2>1, <1>3, StepsOf DEF TimeLeft, Least, Larger, IsRun, RunType
<1> QED
  BY <1>2, <1>3

\* t is s with the macros of ms put on the runs given.
IsPut(t, s, ms, run) ==
    /\ Runtime(t) /\ Moves(s, t)
    /\ t.turbo = s.turbo /\ t.latch = s.latch
    /\ \A m \in MacroIds : t.macro[m] = IF m \in ms THEN run[m] ELSE s.macro[m]
    /\ \A m \in ms : Alive(run[m]) => t.timers[MacroTimer(m)] = TimeLeft(m, run[m])
    /\ \A m \in MacroIds \ ms : MacroTimer(m) \in DOMAIN s.timers =>
          t.timers[MacroTimer(m)] = s.timers[MacroTimer(m)]
    /\ Matched(s) => Matched(t)

\* What Put changes.
LEMMA PutShape ==
    ASSUME Placed, NEW s, Runtime(s), NEW ms \in SUBSET MacroIds, NEW run,
           \A m \in ms : IsRun(m, run[m])
    PROVE  IsPut(Put(s, ms, run), s, ms, run)
<1> DEFINE armed == {MacroTimer(m) : m \in {m \in ms : Alive(run[m])}}
           others == DOMAIN s.timers \ {MacroTimer(m) : m \in ms}
           macro == [m \in MacroIds |-> IF m \in ms THEN run[m] ELSE s.macro[m]]
           dirty == s.dirty \cup UNION {StepHolder(m, s.macro[m]) \cup StepHolder(m, run[m]) : m \in ms}
           timers == [i \in others \cup armed |-> IF i \in armed THEN TimeLeft(i[2], run[i[2]]) ELSE s.timers[i]]
           t == [s EXCEPT !.macro = macro, !.dirty = dirty, !.timers = timers]
<1>1. Put(s, ms, run) = t
  BY DEF Put, MacroTimer, Runtime
<1>2. macro \in [MacroIds -> RunType] /\ \A m \in MacroIds : IsRun(m, macro[m])
  BY DEF Runtime, IsRun
<1>3. \A m \in MacroIds : \A r : IsRun(m, r) => StepHolder(m, r) \subseteq Inner
  BY Members DEF StepHolder, IsRun, RunType
<1>4. dirty \subseteq Inner
  BY <1>3 DEF Runtime
<1>5. \A m \in MacroIds : MacroTimer(m)[2] = m /\ MacroTimer(m) \in TimerIds
  BY DEF MacroTimer, TimerIds
<1>6. \A i \in armed : /\ i[2] \in ms /\ Alive(run[i[2]]) /\ i = MacroTimer(i[2])
                       /\ TimeLeft(i[2], run[i[2]]) \in Int /\ i \in TimerIds
  BY <1>5, TimeLeftType
<1>7. PICK D \in SUBSET TimerIds : s.timers \in [D -> Int]
  BY DEF Runtime
<1>8. others \cup armed \in SUBSET TimerIds /\ timers \in [others \cup armed -> Int]
  BY <1>6, <1>7
<1>a. timers \in UNION {[E -> Int] : E \in SUBSET TimerIds}
  BY <1>8
<1> HIDE DEF armed, others, macro, dirty, timers
<1>9. Runtime(t)
  BY <1>2, <1>4, <1>a DEF Runtime
<1>10. Moves(s, t)
  <2>1. ASSUME NEW h \in Inner \ dirty, NEW bits
        PROVE  HoldsNow(t, bits, h) <=> HoldsNow(s, bits, h)
    <3>1. CASE \E m \in MacroIds : \E i \in DOMAIN P.macro[m].steps : h = Step(m, i)
      <4>0. PICK m \in MacroIds : \E i \in DOMAIN P.macro[m].steps : h = Step(m, i)
        BY <3>1
      <4>1. PICK i \in DOMAIN P.macro[m].steps : h = Step(m, i)
        BY <4>0
      <4>2. m \in ms => h \notin StepHolder(m, s.macro[m]) /\ h \notin StepHolder(m, run[m])
        BY <2>1 DEF dirty
      <4>3. m \in ms => (s.macro[m].step # i /\ run[m].step # i)
        <5>1. i # 0
          BY <4>1, StepsOf
        <5> QED
          BY <4>1, <4>2, <5>1 DEF StepHolder
      <4>4. t.macro[m].step = i <=> s.macro[m].step = i
        BY <4>3 DEF macro, Runtime
      <4> QED
        BY <4>1, <4>4, Kinds DEF HoldsNow
    <3>2. CASE \E b \in DOMAIN P.turbo : h = Turbo(b)
      BY <3>2, Kinds DEF HoldsNow, Runtime
    <3>3. CASE \E b \in P.toggle : h = Toggle(b)
      BY <3>3, Kinds DEF HoldsNow, Runtime
    <3> QED
      BY <3>1, <3>2, <3>3, InnerForms
  <2> QED
    BY <2>1 DEF Moves, Runtime, dirty
<1>11. /\ t.turbo = s.turbo /\ t.latch = s.latch /\ t.macro = macro /\ t.timers = timers
  BY DEF Runtime
<1>12. \A m \in ms : Alive(run[m]) => t.timers[MacroTimer(m)] = TimeLeft(m, run[m])
  BY <1>5, <1>11 DEF timers, armed
<1>13. \A m \in MacroIds \ ms : MacroTimer(m) \in DOMAIN s.timers =>
          t.timers[MacroTimer(m)] = s.timers[MacroTimer(m)]
  BY <1>5, <1>11 DEF timers, armed, others
<1>14. ASSUME Matched(s) PROVE Matched(t)
  <2>1. DOMAIN t.timers = others \cup armed
    BY <1>11 DEF timers
  <2>2. others = {MacroTimer(m) : m \in {m \in MacroIds \ ms : Alive(s.macro[m])}}
                 \cup {TurboTimer(b) : b \in {b \in DOMAIN P.turbo : s.turbo[b].running}}
    BY <1>5, <1>14 DEF others, Matched, MacroTimer, TurboTimer
  <2>3. \A m \in MacroIds : m \in ms => (Alive(t.macro[m]) <=> Alive(run[m]))
    BY <1>11 DEF macro
  <2>4. \A m \in MacroIds : m \notin ms => (Alive(t.macro[m]) <=> Alive(s.macro[m]))
    BY <1>11 DEF macro
  <2> QED
    BY <2>1, <2>2, <2>3, <2>4, <1>11 DEF Matched, armed
<1> QED
  BY <1>1, <1>9, <1>10, <1>11, <1>12, <1>13, <1>14 DEF macro, IsPut

\* The runs that are put in place of others are runs.
LEMMA PlainRuns ==
    ASSUME Placed, NEW m \in MacroIds
    PROVE  /\ IsRun(m, Idle) /\ ~Alive(Idle) /\ IsRun(m, Fresh) /\ Alive(Fresh)
           /\ Stopped[m] = Idle /\ Started[m] = Fresh
<1>1. Idle \in RunType /\ Idle.step = 0 /\ ~Idle.gapping
  BY DEF RunType, Idle
<1>3. Fresh \in RunType /\ Fresh.step = 1 /\ ~Fresh.gapping
  BY <1>1 DEF RunType, Fresh
<1>4. Len(P.macro[m].steps) \in Nat \ {0}
  BY StepsOf
<1>5. Stopped[m] = Idle /\ Started[m] = Fresh
  BY DEF Stopped, Started
<1> QED
  BY <1>1, <1>3, <1>4, <1>5 DEF IsRun, Alive

\* How long a turbo stays in a phase.
LEMMA TurboTimes ==
    ASSUME Placed, NEW b \in DOMAIN P.turbo
    PROVE  P.turbo[b].on \in Int /\ P.turbo[b].off \in Int
  BY TablesSay DEF IsPreset

\* t is s with the turbos of bs put on a phase.
IsPhased(t, s, bs, running, on) ==
    /\ Runtime(t) /\ Moves(s, t)
    /\ t.macro = s.macro /\ t.latch = s.latch
    /\ \A b \in DOMAIN P.turbo :
          t.turbo[b] = IF b \in bs THEN [running |-> running, on |-> on] ELSE s.turbo[b]
    /\ \A m \in MacroIds : MacroTimer(m) \in DOMAIN s.timers =>
          t.timers[MacroTimer(m)] = s.timers[MacroTimer(m)]
    /\ Matched(s) => Matched(t)

\* What Phase changes.
LEMMA PhaseShape ==
    ASSUME Placed, NEW s, Runtime(s), NEW bs \in SUBSET DOMAIN P.turbo,
           NEW running \in BOOLEAN, NEW on \in BOOLEAN
    PROVE  IsPhased(Phase(s, bs, running, on), s, bs, running, on)
<1> DEFINE armed == IF running THEN {TurboTimer(b) : b \in bs} ELSE {}
           others == DOMAIN s.timers \ {TurboTimer(b) : b \in bs}
           turbo == [b \in DOMAIN P.turbo |-> IF b \in bs THEN [running |-> running, on |-> on] ELSE s.turbo[b]]
           dirty == s.dirty \cup {Turbo(b) : b \in bs}
           timers == [i \in others \cup armed |->
                        IF i \in armed THEN (IF on THEN P.turbo[i[2]].on ELSE P.turbo[i[2]].off)
                        ELSE s.timers[i]]
           t == [s EXCEPT !.turbo = turbo, !.dirty = dirty, !.timers = timers]
<1>1. Phase(s, bs, running, on) = t
  BY DEF Phase, TurboTimer, Runtime
<1>2. turbo \in [DOMAIN P.turbo -> [running : BOOLEAN, on : BOOLEAN]]
  BY DEF Runtime
<1>3. dirty \subseteq Inner
  BY Members DEF Runtime
<1>4. \A b \in DOMAIN P.turbo : TurboTimer(b)[2] = b /\ TurboTimer(b) \in TimerIds
  BY DEF TurboTimer, TimerIds
<1>5. \A i \in armed : i[2] \in bs /\ i = TurboTimer(i[2]) /\ i \in TimerIds
  BY <1>4
<1>6. PICK D \in SUBSET TimerIds : s.timers \in [D -> Int]
  BY DEF Runtime
<1>7. others \cup armed \in SUBSET TimerIds /\ timers \in [others \cup armed -> Int]
  BY <1>5, <1>6, TurboTimes
<1>8. timers \in UNION {[E -> Int] : E \in SUBSET TimerIds}
  BY <1>7
<1> HIDE DEF armed, others, turbo, dirty, timers
<1>9. Runtime(t)
  BY <1>2, <1>3, <1>8 DEF Runtime
<1>10. Moves(s, t)
  <2>1. ASSUME NEW h \in Inner \ dirty, NEW bits
        PROVE  HoldsNow(t, bits, h) <=> HoldsNow(s, bits, h)
    <3>1. CASE \E m \in MacroIds : \E i \in DOMAIN P.macro[m].steps : h = Step(m, i)
      BY <3>1, Kinds DEF HoldsNow, Runtime
    <3>2. CASE \E b \in DOMAIN P.turbo : h = Turbo(b)
      <4>1. PICK b \in DOMAIN P.turbo : h = Turbo(b)
        BY <3>2
      <4>2. t.turbo[b] = s.turbo[b]
        BY <4>1, <2>1 DEF dirty, turbo, Runtime
      <4> QED
        BY <4>1, <4>2, Kinds DEF HoldsNow
    <3>3. CASE \E b \in P.toggle : h = Toggle(b)
      BY <3>3, Kinds DEF HoldsNow, Runtime
    <3> QED
      BY <3>1, <3>2, <3>3, InnerForms
  <2> QED
    BY <2>1 DEF Moves, Runtime, dirty
<1>11. /\ t.macro = s.macro /\ t.latch = s.latch /\ t.turbo = turbo /\ t.timers = timers
  BY DEF Runtime
<1>12. \A m \in MacroIds : MacroTimer(m) \in DOMAIN s.timers =>
          t.timers[MacroTimer(m)] = s.timers[MacroTimer(m)]
  BY <1>11 DEF timers, armed, others, MacroTimer, TurboTimer
<1>13. ASSUME Matched(s) PROVE Matched(t)
  <2>1. DOMAIN t.timers = others \cup armed
    BY <1>11 DEF timers
  <2>2. others = {MacroTimer(m) : m \in {m \in MacroIds : Alive(s.macro[m])}}
                 \cup {TurboTimer(b) : b \in {b \in DOMAIN P.turbo \ bs : s.turbo[b].running}}
    BY <1>4, <1>13 DEF others, Matched, MacroTimer, TurboTimer
  <2>3. \A b \in DOMAIN P.turbo : t.turbo[b].running <=> IF b \in bs THEN running ELSE s.turbo[b].running
    BY <1>11 DEF turbo
  <2> QED
    BY <2>1, <2>2, <2>3, <1>11 DEF Matched, armed
<1> QED
  BY <1>1, <1>9, <1>10, <1>11, <1>12, <1>13 DEF turbo, IsPhased

\* t is s with its latches flipped by sources that start to drive.
IsToggled(t, s, bits) ==
    /\ Runtime(t) /\ Moves(s, t)
    /\ t.macro = s.macro /\ t.turbo = s.turbo /\ t.timers = s.timers
    /\ \A b \in P.toggle : ~HoldsAny(s, bits, LatchSources(b)) =>
          t.latch[b].latched = s.latch[b].latched

\* What Toggled changes.
LEMMA ToggledShape ==
    ASSUME Placed, NEW s, Runtime(s), NEW bits
    PROVE  IsToggled(Toggled(s, bits), s, bits)
<1> DEFINE driving(b) == HoldsAny(s, bits, LatchSources(b))
           flips == {b \in P.toggle : driving(b) /\ ~s.latch[b].was}
           latch == [b \in P.toggle |->
                       [latched |-> IF b \in flips THEN ~s.latch[b].latched ELSE s.latch[b].latched,
                        was |-> driving(b)]]
           dirty == s.dirty \cup {Toggle(b) : b \in flips}
           t == [s EXCEPT !.latch = latch, !.dirty = dirty]
<1>1. Toggled(s, bits) = t
  BY DEF Toggled, Runtime
<1>2. \A b \in P.toggle : driving(b) \in BOOLEAN
  BY DEF HoldsAny
<1>3. latch \in [P.toggle -> [latched : BOOLEAN, was : BOOLEAN]]
  <2> HIDE DEF flips, driving
  <2> QED
    BY <1>2 DEF Runtime
<1>4. dirty \subseteq Inner
  BY Members DEF Runtime
<1>5. \A b \in P.toggle : b \notin flips => latch[b].latched = s.latch[b].latched
  OBVIOUS
<1>6. \A b \in P.toggle : ~HoldsAny(s, bits, LatchSources(b)) => b \notin flips
  OBVIOUS
<1>7. \A b \in P.toggle : b \in flips => Toggle(b) \in dirty
  OBVIOUS
<1>8. s.dirty \subseteq dirty
  OBVIOUS
<1> HIDE DEF flips, driving, latch, dirty
<1>9. Runtime(t)
  BY <1>3, <1>4 DEF Runtime
<1>10. Moves(s, t)
  <2>1. ASSUME NEW h \in Inner \ dirty, NEW a
        PROVE  HoldsNow(t, a, h) <=> HoldsNow(s, a, h)
    <3>1. CASE \E m \in MacroIds : \E i \in DOMAIN P.macro[m].steps : h = Step(m, i)
      BY <3>1, Kinds DEF HoldsNow, Runtime
    <3>2. CASE \E b \in DOMAIN P.turbo : h = Turbo(b)
      BY <3>2, Kinds DEF HoldsNow, Runtime
    <3>3. CASE \E b \in P.toggle : h = Toggle(b)
      <4>1. PICK b \in P.toggle : h = Toggle(b)
        BY <3>3
      <4>2. t.latch[b].latched = s.latch[b].latched
        BY <4>1, <2>1, <1>5, <1>7 DEF Runtime
      <4> QED
        BY <4>1, <4>2, Kinds DEF HoldsNow
    <3> QED
      BY <3>1, <3>2, <3>3, InnerForms
  <2> QED
    BY <2>1, <1>8 DEF Moves, Runtime
<1>11. t.macro = s.macro /\ t.turbo = s.turbo /\ t.timers = s.timers /\ t.latch = latch
  BY DEF Runtime
<1> QED
  BY <1>1, <1>5, <1>6, <1>9, <1>10, <1>11 DEF IsToggled

\* t is s with the turbos running whose sources drive.
IsTurboed(t, s, bits) ==
    /\ Runtime(t) /\ Moves(s, t)
    /\ t.macro = s.macro /\ t.latch = s.latch
    /\ \A b \in DOMAIN P.turbo : t.turbo[b].running <=> HoldsAny(s, bits, TurboSources(b))
    /\ \A m \in MacroIds : MacroTimer(m) \in DOMAIN s.timers /\ Matched(s) =>
          t.timers[MacroTimer(m)] = s.timers[MacroTimer(m)]
    /\ Matched(s) => Matched(t)

\* What Turboed changes.
LEMMA TurboedShape ==
    ASSUME Placed, NEW s, Runtime(s), NEW bits
    PROVE  IsTurboed(Turboed(s, bits), s, bits)
<1> DEFINE driven(b) == HoldsAny(s, bits, TurboSources(b))
           starts == {b \in DOMAIN P.turbo : driven(b) /\ ~s.turbo[b].running}
           stops == {b \in DOMAIN P.turbo : ~driven(b) /\ s.turbo[b].running}
           u == Phase(s, starts, TRUE, TRUE)
           t == Phase(u, stops, FALSE, FALSE)
<1>1. Turboed(s, bits) = t
  BY DEF Turboed
<1>2. /\ starts \in SUBSET DOMAIN P.turbo /\ stops \in SUBSET DOMAIN P.turbo
      /\ starts \cap stops = {}
      /\ \A b \in DOMAIN P.turbo : driven(b) <=> b \in starts \/ (b \notin stops /\ s.turbo[b].running)
  OBVIOUS
<1> HIDE DEF driven, starts, stops, u, t
<1>3. /\ Runtime(u) /\ Moves(s, u) /\ u.macro = s.macro /\ u.latch = s.latch
      /\ \A b \in DOMAIN P.turbo :
            u.turbo[b] = IF b \in starts THEN [running |-> TRUE, on |-> TRUE] ELSE s.turbo[b]
      /\ \A m \in MacroIds : MacroTimer(m) \in DOMAIN s.timers =>
            u.timers[MacroTimer(m)] = s.timers[MacroTimer(m)]
      /\ Matched(s) => Matched(u)
  <2>1. IsPhased(u, s, starts, TRUE, TRUE)
    BY <1>2, PhaseShape DEF u
  <2> QED
    BY <2>1 DEF IsPhased
<1>4. /\ Runtime(t) /\ Moves(u, t) /\ t.macro = u.macro /\ t.latch = u.latch
      /\ \A b \in DOMAIN P.turbo :
            t.turbo[b] = IF b \in stops THEN [running |-> FALSE, on |-> FALSE] ELSE u.turbo[b]
      /\ \A m \in MacroIds : MacroTimer(m) \in DOMAIN u.timers =>
            t.timers[MacroTimer(m)] = u.timers[MacroTimer(m)]
      /\ Matched(u) => Matched(t)
  <2>1. IsPhased(t, u, stops, FALSE, FALSE)
    BY <1>2, <1>3, PhaseShape DEF t
  <2> QED
    BY <2>1 DEF IsPhased
<1>5. Moves(s, t)
  BY <1>3, <1>4, MovesOn
<1>6. \A b \in DOMAIN P.turbo : t.turbo[b].running <=> driven(b)
  BY <1>2, <1>3, <1>4
<1>7. \A m \in MacroIds : MacroTimer(m) \in DOMAIN s.timers /\ Matched(s) =>
          t.timers[MacroTimer(m)] = s.timers[MacroTimer(m)]
  <2> SUFFICES ASSUME NEW m \in MacroIds, MacroTimer(m) \in DOMAIN s.timers, Matched(s)
               PROVE  t.timers[MacroTimer(m)] = s.timers[MacroTimer(m)]
    OBVIOUS
  <2>1. Alive(s.macro[m])
    BY DEF Matched, MacroTimer, TurboTimer
  <2>2. MacroTimer(m) \in DOMAIN u.timers
    BY <2>1, <1>3 DEF Matched
  <2> QED
    BY <2>2, <1>3, <1>4
<1> QED
  BY <1>1, <1>3, <1>4, <1>5, <1>6, <1>7 DEF driven, IsTurboed

\* t is s with no run under way and no latch on.
IsCancelled(t, s) ==
    /\ Runtime(t) /\ Moves(s, t)
    /\ \A m \in MacroIds : ~Alive(t.macro[m])
    /\ \A b \in DOMAIN P.turbo : ~t.turbo[b].running
    /\ \A b \in P.toggle : ~t.latch[b].latched
    /\ Matched(s) => Matched(t)

\* An exit leaves no run under way and no latch on.
LEMMA CancelledShape ==
    ASSUME Placed, NEW s, Runtime(s)
    PROVE  IsCancelled(Cancelled(s), s)
<1> DEFINE ms == {m \in MacroIds : Alive(s.macro[m])}
           bs == {b \in DOMAIN P.turbo : s.turbo[b].running \/ s.turbo[b].on}
           still == Put(s, ms, Stopped)
           quiet == Phase(still, bs, FALSE, FALSE)
           latch == [b \in P.toggle |-> [latched |-> FALSE, was |-> FALSE]]
           dirty == quiet.dirty \cup {Toggle(b) : b \in {b \in P.toggle : s.latch[b].latched}}
           t == [quiet EXCEPT !.latch = latch, !.dirty = dirty]
<1>1. Cancelled(s) = t
  <2>1. \A q : Runtime(q) => [q EXCEPT !.latch = latch,
                     !.dirty = @ \cup {Toggle(b) : b \in {b \in P.toggle : s.latch[b].latched}}]
                   = [q EXCEPT !.latch = latch,
                     !.dirty = q.dirty \cup {Toggle(b) : b \in {b \in P.toggle : s.latch[b].latched}}]
    BY DEF Runtime
  <2> QED
    BY DEF Cancelled
<1>2. ms \in SUBSET MacroIds /\ bs \in SUBSET DOMAIN P.turbo
  OBVIOUS
<1>3. \A m \in MacroIds : m \notin ms => ~Alive(s.macro[m])
  OBVIOUS
<1>4. \A b \in DOMAIN P.turbo : b \notin bs => ~s.turbo[b].running
  OBVIOUS
<1>5. \A b \in P.toggle : s.latch[b].latched => Toggle(b) \in dirty
  OBVIOUS
<1>6. quiet.dirty \subseteq dirty
  OBVIOUS
<1>7. quiet.dirty \subseteq Inner => dirty \subseteq Inner
  BY Members
<1> HIDE DEF ms, bs, still, quiet, dirty, t
<1>8. /\ Runtime(still) /\ Moves(s, still) /\ still.turbo = s.turbo /\ still.latch = s.latch
      /\ \A m \in MacroIds : still.macro[m] = IF m \in ms THEN Idle ELSE s.macro[m]
      /\ Matched(s) => Matched(still)
  <2>1. \A m \in ms : IsRun(m, Stopped[m]) /\ Stopped[m] = Idle
    BY <1>2, PlainRuns
  <2>2. IsPut(still, s, ms, Stopped)
    BY <1>2, <2>1, PutShape DEF still
  <2> QED
    BY <2>1, <2>2 DEF IsPut
<1>9. /\ Runtime(quiet) /\ Moves(still, quiet) /\ quiet.macro = still.macro /\ quiet.latch = still.latch
      /\ \A b \in DOMAIN P.turbo :
            quiet.turbo[b] = IF b \in bs THEN [running |-> FALSE, on |-> FALSE] ELSE still.turbo[b]
      /\ Matched(still) => Matched(quiet)
  <2>1. IsPhased(quiet, still, bs, FALSE, FALSE)
    BY <1>2, <1>8, PhaseShape DEF quiet
  <2> QED
    BY <2>1 DEF IsPhased
<1>10. latch \in [P.toggle -> [latched : BOOLEAN, was : BOOLEAN]] /\ dirty \subseteq Inner
  BY <1>7, <1>9 DEF Runtime
<1>11. \A b \in P.toggle : ~latch[b].latched
  OBVIOUS
<1> HIDE DEF latch
<1>12. /\ Runtime(t) /\ t.macro = quiet.macro /\ t.turbo = quiet.turbo /\ t.timers = quiet.timers
       /\ t.latch = latch /\ t.dirty = dirty
       /\ t.held = quiet.held /\ t.active = quiet.active /\ t.consumed = quiet.consumed
       /\ t.posWins = quiet.posWins /\ t.sign = quiet.sign /\ t.pad = quiet.pad
  BY <1>9, <1>10 DEF t, Runtime
<1>13. Moves(quiet, t)
  <2>1. ASSUME NEW h \in Inner \ dirty, NEW a
        PROVE  HoldsNow(t, a, h) <=> HoldsNow(quiet, a, h)
    <3>1. CASE \E m \in MacroIds : \E i \in DOMAIN P.macro[m].steps : h = Step(m, i)
      BY <3>1, <1>12, Kinds DEF HoldsNow
    <3>2. CASE \E b \in DOMAIN P.turbo : h = Turbo(b)
      BY <3>2, <1>12, Kinds DEF HoldsNow
    <3>3. CASE \E b \in P.toggle : h = Toggle(b)
      <4>1. PICK b \in P.toggle : h = Toggle(b)
        BY <3>3
      <4>2. ~t.latch[b].latched /\ ~quiet.latch[b].latched
        BY <4>1, <2>1, <1>5, <1>8, <1>9, <1>11, <1>12
      <4> QED
        BY <4>1, <4>2, Kinds DEF HoldsNow
    <3> QED
      BY <3>1, <3>2, <3>3, InnerForms
  <2> QED
    BY <2>1, <1>6, <1>12 DEF Moves
<1>14. Moves(s, t)
  BY <1>8, <1>9, <1>13, MovesOn
<1>15. \A m \in MacroIds : ~Alive(t.macro[m])
  BY <1>3, <1>8, <1>9, <1>12, PlainRuns
<1>16. \A b \in DOMAIN P.turbo : ~t.turbo[b].running
  BY <1>4, <1>8, <1>9, <1>12
<1>17. Matched(s) => Matched(t)
  BY <1>8, <1>9, <1>12 DEF Matched
<1> QED
  BY <1>1, <1>11, <1>12, <1>14, <1>15, <1>16, <1>17 DEF IsCancelled
-----------------------------------------------------------------------------
(* Deadlines and what has been seen. *)

\* How long the runs of t have been seen, when those of s0 were seen so long.
Renewed(s0, t, seen) == [m \in MacroIds |-> IF t.macro[m] # s0.macro[m] THEN 0 ELSE seen[m]]

\* t is a runtime whose deadlines match its runs and leave them to be seen.
Timed(t, s0, seen) == Runtime(t) /\ Matched(t) /\ Lasting(t, Renewed(s0, t, seen))

\* A run under way has its deadline.
LEMMA AliveIsArmed ==
    ASSUME NEW s, Matched(s), NEW m \in MacroIds
    PROVE  MacroTimer(m) \in DOMAIN s.timers <=> Alive(s.macro[m])
  BY DEF Matched, MacroTimer, TurboTimer

\* A deadline is a time.
LEMMA TimersAreTimes ==
    ASSUME NEW s, Runtime(s), NEW i \in DOMAIN s.timers
    PROVE  s.timers[i] \in Int
<1>1. PICK D \in SUBSET TimerIds : s.timers \in [D -> Int]
  BY DEF Runtime
<1> QED
  BY <1>1

\* Where the runs and their deadlines stay, they stay to be seen.
LEMMA TimedOn ==
    ASSUME NEW s, NEW t, NEW s0, NEW seen, Timed(s, s0, seen), Runtime(t), Matched(t),
           t.macro = s.macro,
           \A m \in MacroIds : MacroTimer(m) \in DOMAIN s.timers =>
              t.timers[MacroTimer(m)] = s.timers[MacroTimer(m)]
    PROVE  Timed(t, s0, seen)
  BY AliveIsArmed DEF Timed, Lasting, Renewed

\* Put gives what it puts in place the time to be seen.
LEMMA TimedPut ==
    ASSUME Placed, NEW s, NEW t, NEW s0, NEW seen \in [MacroIds -> Nat], Timed(s, s0, seen),
           NEW ms \in SUBSET MacroIds, NEW run, \A m \in ms : IsRun(m, run[m]),
           IsPut(t, s, ms, run)
    PROVE  Timed(t, s0, seen)
<1>1. Runtime(t) /\ Matched(t) /\ Runtime(s) /\ Matched(s)
  BY DEF Timed, IsPut
<1>2. ASSUME NEW m \in MacroIds, Alive(t.macro[m])
      PROVE  Renewed(s0, t, seen)[m] + t.timers[MacroTimer(m)] >= Least(m, t.macro[m])
  <2>1. CASE m \in ms
    <3>1. t.macro[m] = run[m] /\ t.timers[MacroTimer(m)] = TimeLeft(m, run[m])
      BY <1>2, <2>1 DEF IsPut
    <3>2. /\ TimeLeft(m, run[m]) \in Int /\ TimeLeft(m, run[m]) >= Least(m, run[m])
          /\ Least(m, run[m]) \in Nat
      BY <1>2, <2>1, <3>1, TimeLeftType
    <3>3. Renewed(s0, t, seen)[m] \in Nat
      BY DEF Renewed
    <3> QED
      BY <3>1, <3>2, <3>3
  <2>2. CASE m \notin ms
    <3>1. t.macro[m] = s.macro[m]
      BY <2>2 DEF IsPut
    <3>2. t.timers[MacroTimer(m)] = s.timers[MacroTimer(m)]
      BY <1>1, <1>2, <2>2, <3>1, AliveIsArmed DEF IsPut
    <3>3. Renewed(s0, t, seen)[m] = Renewed(s0, s, seen)[m]
      BY <3>1 DEF Renewed
    <3> QED
      BY <1>2, <3>1, <3>2, <3>3 DEF Timed, Lasting
  <2> QED
    BY <2>1, <2>2
<1> QED
  BY <1>1, <1>2 DEF Timed, Lasting

\* t is s with macros started and aborted by the edge of a key.
IsEdged(t, s) ==
    /\ Runtime(t) /\ Moves(s, t)
    /\ t.turbo = s.turbo /\ t.latch = s.latch
    /\ Matched(s) => Matched(t)
    /\ \A seen \in [MacroIds -> Nat] : Timed(s, s, seen) => Timed(t, s, seen)

\* What MacroEdge changes.
LEMMA EdgeShape ==
    ASSUME Placed, NEW s, Runtime(s), NEW k, NEW press \in BOOLEAN
    PROVE  IsEdged(MacroEdge(s, k, press), s)
<1>1. /\ Abortable(k) \in SUBSET MacroIds /\ Interrupted(s, k) \in SUBSET MacroIds
      /\ \A u : Startable(u, k) \in SUBSET MacroIds
  BY DEF Abortable, Interrupted, Startable, Triggered
<1>2. \A m \in MacroIds : IsRun(m, Stopped[m]) /\ IsRun(m, Started[m])
  BY PlainRuns
<1>3. CASE press
  <2> DEFINE calm == Put(s, Interrupted(s, k), Stopped)
             t == Put(calm, Startable(calm, k), Started)
  <2>1. MacroEdge(s, k, press) = t
    BY <1>3 DEF MacroEdge
  <2> HIDE DEF calm
  <2>2. IsPut(calm, s, Interrupted(s, k), Stopped)
    BY <1>1, <1>2, PutShape DEF calm
  <2>3. Runtime(calm) /\ Startable(calm, k) \in SUBSET MacroIds
    BY <1>1, <2>2 DEF IsPut
  <2> HIDE DEF t
  <2>4. IsPut(t, calm, Startable(calm, k), Started)
    BY <1>2, <2>3, PutShape DEF t
  <2>5. Moves(s, t)
    BY <2>2, <2>4, MovesOn DEF IsPut
  <2>6. ASSUME NEW seen \in [MacroIds -> Nat], Timed(s, s, seen)
        PROVE  Timed(t, s, seen)
    <3>1. Timed(calm, s, seen)
      BY <1>1, <1>2, <2>2, <2>6, TimedPut
    <3> QED
      BY <1>2, <2>3, <2>4, <3>1, TimedPut
  <2> QED
    BY <2>1, <2>2, <2>4, <2>5, <2>6 DEF IsPut, IsEdged
<1>4. CASE ~press
  <2> DEFINE t == Put(s, Abortable(k), Stopped)
  <2>1. MacroEdge(s, k, press) = t
    BY <1>4 DEF MacroEdge
  <2> HIDE DEF t
  <2>2. IsPut(t, s, Abortable(k), Stopped)
    BY <1>1, <1>2, PutShape DEF t
  <2>3. ASSUME NEW seen \in [MacroIds -> Nat], Timed(s, s, seen)
        PROVE  Timed(t, s, seen)
    BY <1>1, <1>2, <2>2, <2>3, TimedPut
  <2> QED
    BY <2>1, <2>2, <2>3 DEF IsPut, IsEdged
<1> QED
  BY <1>3, <1>4
-----------------------------------------------------------------------------
(* The passes over a slot. *)

\* Keys that chords and opposing sides can consume.
LEMMA ConsumedType ==
    ASSUME Placed, NEW bits, NEW w
    PROVE  /\ Active(bits) \subseteq ChordIds /\ ByChords(bits) \subseteq ChordKeys
           /\ Consumed(bits, w) \subseteq ChordKeys \cup SocdKeys
           /\ Consumed(bits, w) \subseteq Keys
<1>1. Active(bits) \subseteq ChordIds
  BY DEF Active, ActiveIn, ChordIds
<1>2. ByChords(bits) \subseteq ChordKeys
  BY <1>1 DEF ByChords, ChordKeys
<1>3. ChordKeys \subseteq Keys
  BY TablesSay DEF ChordKeys, ChordIds, IsPreset
<1>4. Consumed(bits, w) \subseteq ChordKeys \cup SocdKeys
  <2>1. CASE Driving(bits) = {-1, 1}
    <3>1. 1 \in Driving(bits)
      BY <2>1
    <3>2. HasSocd
      BY <3>1 DEF Driving
    <3> QED
      BY <1>2, <2>1, <3>2 DEF Consumed, SocdKeys
  <2>2. CASE Driving(bits) # {-1, 1}
    BY <1>2, <2>2 DEF Consumed
  <2> QED
    BY <2>1, <2>2
<1> QED
  BY <1>1, <1>2, <1>3, <1>4, Sides

\* What can drive a latch or a turbo is a key, a chord or a latch.
LEMMA SourceForms ==
    ASSUME Placed
    PROVE  /\ \A b \in P.toggle : \A h \in LatchSources(b) :
                 \/ \E k \in Keys : h = Key(k)
                 \/ \E c \in ChordIds : h = Chord(c)
           /\ \A b \in DOMAIN P.turbo : \A h \in TurboSources(b) :
                 \/ \E k \in Keys : h = Key(k)
                 \/ \E c \in ChordIds : h = Chord(c)
                 \/ \E x \in P.toggle : h = Toggle(x)
  BY TablesSay DEF DirectIn, TurboSourcesIn, ChordIds

\* Sources drive in t as in s when keys, chords and latches hold as they did.
LEMMA SourcesAgree ==
    ASSUME Placed, NEW s, NEW t, t.active = s.active, t.consumed = s.consumed, t.latch = s.latch,
           NEW bits, NEW b \in DOMAIN P.turbo
    PROVE  HoldsAny(t, bits, TurboSources(b)) <=> HoldsAny(s, bits, TurboSources(b))
<1>1. \A h \in TurboSources(b) : HoldsNow(t, bits, h) <=> HoldsNow(s, bits, h)
  BY SourceForms, Kinds DEF HoldsNow
<1> QED
  BY <1>1 DEF HoldsAny

\* t is s with chords, sides, latches and turbos as the keys down have them.
IsSettled(t, s, bits, w) ==
    /\ Runtime(t) /\ t.held = s.held /\ t.sign = s.sign /\ t.pad = s.pad
    /\ t.posWins = w /\ Settled(t, bits)
    /\ s.dirty \subseteq t.dirty
    /\ \A h \in Inner \ t.dirty : \A a : HoldsNow(t, a, h) <=> HoldsNow(s, a, h)
    /\ t.macro = s.macro
    /\ \A m \in MacroIds : MacroTimer(m) \in DOMAIN s.timers /\ Matched(s) =>
          t.timers[MacroTimer(m)] = s.timers[MacroTimer(m)]
    /\ Matched(s) => Matched(t)
    /\ \A b \in DOMAIN P.turbo : t.turbo[b].running <=> HoldsAny(t, bits, TurboSources(b))
    /\ \A b \in P.toggle : ~HoldsAny(t, bits, LatchSources(b)) =>
          t.latch[b].latched = s.latch[b].latched

\* The pass over chords, sides, latches and turbos settles a runtime.
LEMMA SettledShape ==
    ASSUME Placed, NEW s, Runtime(s), NEW bits, NEW w \in BOOLEAN
    PROVE  IsSettled(Turboed(Toggled([s EXCEPT !.active = Active(bits), !.posWins = w,
                                               !.consumed = Consumed(bits, w)], bits), bits),
                     s, bits, w)
<1> DEFINE base == [s EXCEPT !.active = Active(bits), !.posWins = w, !.consumed = Consumed(bits, w)]
           u == Toggled(base, bits)
           t == Turboed(u, bits)
<1>1. Runtime(base)
  BY ConsumedType DEF Runtime
<1>2. /\ base.active = Active(bits) /\ base.posWins = w /\ base.consumed = Consumed(bits, w)
      /\ base.held = s.held /\ base.sign = s.sign /\ base.pad = s.pad /\ base.dirty = s.dirty
      /\ base.macro = s.macro /\ base.turbo = s.turbo /\ base.latch = s.latch
      /\ base.timers = s.timers
  BY DEF Runtime
<1> HIDE DEF base, u, t
<1>3. IsToggled(u, base, bits)
  BY <1>1, ToggledShape DEF u
<1>4. IsTurboed(t, u, bits)
  BY <1>3, TurboedShape DEF t, IsToggled
<1>5. Moves(base, u) /\ Moves(u, t)
  BY <1>3, <1>4 DEF IsToggled, IsTurboed
<1>6. Moves(base, t)
  BY <1>5, MovesOn
<1>7. \A h \in Inner : \A a : HoldsNow(base, a, h) <=> HoldsNow(s, a, h)
  BY <1>2, InnerForms, Kinds DEF HoldsNow
<1>8. /\ Runtime(t) /\ t.held = s.held /\ t.sign = s.sign /\ t.pad = s.pad
      /\ t.posWins = w /\ Settled(t, bits) /\ s.dirty \subseteq t.dirty
  BY <1>2, <1>4, <1>6 DEF Moves, IsTurboed, Settled
<1>9. \A h \in Inner \ t.dirty : \A a : HoldsNow(t, a, h) <=> HoldsNow(s, a, h)
  BY <1>6, <1>7 DEF Moves
<1>10. t.macro = s.macro
  BY <1>2, <1>3, <1>4 DEF IsToggled, IsTurboed
<1>11. Matched(s) => Matched(u) /\ Matched(t)
  BY <1>2, <1>3, <1>4 DEF IsToggled, IsTurboed, Matched
<1>12. \A m \in MacroIds : MacroTimer(m) \in DOMAIN s.timers /\ Matched(s) =>
          t.timers[MacroTimer(m)] = s.timers[MacroTimer(m)]
  BY <1>2, <1>3, <1>4, <1>11 DEF IsToggled, IsTurboed
<1>13. \A b \in DOMAIN P.turbo : t.turbo[b].running <=> HoldsAny(t, bits, TurboSources(b))
  <2>1. t.active = u.active /\ t.consumed = u.consumed /\ t.latch = u.latch
    BY <1>4, <1>5 DEF IsTurboed, Moves
  <2> QED
    BY <1>4, <2>1, SourcesAgree DEF IsTurboed
<1>14. \A b \in P.toggle : ~HoldsAny(t, bits, LatchSources(b)) =>
          t.latch[b].latched = s.latch[b].latched
  <2>1. t.active = base.active /\ t.consumed = base.consumed
    BY <1>6 DEF Moves
  <2>2. \A b \in P.toggle : \A h \in LatchSources(b) : HoldsNow(t, bits, h) <=> HoldsNow(base, bits, h)
    BY <2>1, SourceForms, Kinds DEF HoldsNow
  <2>3. \A b \in P.toggle : HoldsAny(t, bits, LatchSources(b)) <=> HoldsAny(base, bits, LatchSources(b))
    BY <2>2 DEF HoldsAny
  <2>4. t.latch = u.latch
    BY <1>4 DEF IsTurboed
  <2> QED
    BY <1>2, <1>3, <2>3, <2>4 DEF IsToggled
<1> QED
  BY <1>8, <1>9, <1>10, <1>11, <1>12, <1>13, <1>14 DEF IsSettled, base, u, t

\* t, which comes from the runtime s, is in order for the keys down on the keyboard.
InOrder(t, s, bits, w) ==
    /\ Runtime(t) /\ t.dirty = {} /\ Matched(t) /\ Composed(t)
    /\ Settled(t, bits) /\ t.posWins = w /\ Driven(t, bits)
    /\ Accurate(t, bits, AllHolders)
    /\ \A h \in t.held : OfMouse(h) => h \in slot.held
    /\ t.macro = s.macro
    /\ \A m \in MacroIds : MacroTimer(m) \in DOMAIN s.timers =>
          t.timers[MacroTimer(m)] = s.timers[MacroTimer(m)]

\* Who has the axis is a fact.
LEMMA WinnerType ==
    ASSUME slot.posWins \in BOOLEAN, NEW before, NEW bits
    PROVE  Winner(before, bits) \in BOOLEAN
  BY DEF Winner

\* The pass for a key of the keyboard puts a slot in order.
LEMMA SyncedShape ==
    ASSUME Placed, Runtime(slot), slot.dirty = {}, Composed(slot),
           NEW before, Accurate(slot, before, AllHolders), Settled(slot, before),
           NEW s, Runtime(s), Moves(slot, s), Matched(s),
           NEW k \in Keys, NEW bits \in SUBSET KbdKeys,
           \A j : j # k => (j \in bits <=> j \in before),
           NEW t \in Synced(s, bits, before, k)
    PROVE  /\ InOrder(t, s, bits, Winner(before, bits))
           /\ Accurate(t, bits, {Key(j) : j \in SocdKeys})
<1> DEFINE w == Winner(before, bits)
           u == Turboed(Toggled([s EXCEPT !.active = Active(bits), !.posWins = w,
                                          !.consumed = Consumed(bits, w)], bits), bits)
           scan == {Key(j) : j \in ScanOf(s, k)} \cup {Chord(c) : c \in ChordIds} \cup u.dirty
<1>1. w \in BOOLEAN
  BY WinnerType DEF Runtime
<1>2. t \in Applied(u, bits, scan)
  BY DEF Synced
<1>3. ScanOf(s, k) \subseteq Keys /\ ChordKeys \cup SocdKeys \cup {k} = ScanOf(s, k)
  BY Sides, TablesSay DEF ScanOf, ChordKeys, ChordIds, IsPreset
<1> HIDE DEF w, u
<1>4. IsSettled(u, s, bits, w)
  BY <1>1, SettledShape DEF u
<1>5. scan \in SUBSET Holders
  BY <1>3, <1>4, Members DEF IsSettled, Runtime, Inner
<1>6. u.held = slot.held /\ Composed(u) /\ Runtime(u)
  BY <1>4 DEF IsSettled, Moves, Composed
<1>7. /\ \A j \in ScanOf(s, k) : Key(j) \in scan
      /\ \A c \in ChordIds : Chord(c) \in scan
      /\ u.dirty \subseteq scan
  OBVIOUS
<1> HIDE DEF scan
<1>8. IsApplied(t, u, bits, scan)
  BY <1>2, <1>5, <1>6, AppliedShape
<1>9. /\ Runtime(t) /\ t.dirty = {} /\ Composed(t)
      /\ t.held = (u.held \ scan) \cup {h \in scan : HoldsNow(u, bits, h)}
      /\ t.active = u.active /\ t.consumed = u.consumed /\ t.posWins = u.posWins
      /\ t.macro = u.macro /\ t.turbo = u.turbo /\ t.latch = u.latch /\ t.timers = u.timers
      /\ \A a, h : HoldsNow(t, a, h) <=> HoldsNow(u, a, h)
  BY <1>8 DEF IsApplied
<1>10. \A h \in scan : h \in t.held <=> HoldsNow(t, bits, h)
  BY <1>9
<1>11. Accurate(t, bits, {Key(j) : j \in SocdKeys})
  BY <1>3, <1>7, <1>10 DEF Accurate
<1>12. ASSUME NEW h \in AllHolders, ~OfMouse(h), h \notin scan
       PROVE  h \in t.held <=> HoldsNow(t, bits, h)
  <2>1. h \in t.held <=> HoldsNow(slot, before, h)
    BY <1>6, <1>9, <1>12 DEF Accurate
  <2>2. CASE \E j \in Keys : h = Key(j)
    <3>1. PICK j \in Keys : h = Key(j)
      BY <2>2
    <3>2. j \notin ChordKeys \cup SocdKeys /\ j # k
      BY <3>1, <1>3, <1>7, <1>12
    <3>3. j \notin slot.consumed /\ j \notin t.consumed
      BY <3>2, <1>4, <1>9, ConsumedType DEF Settled, IsSettled
    <3>4. j \in before <=> j \in bits
      BY <3>2
    <3>5. /\ HoldsNow(slot, before, h) <=> j \in before \ slot.consumed
          /\ HoldsNow(t, bits, h) <=> j \in bits \ t.consumed
      <4>1. h[1] = "key" /\ h[2] = j
        BY <3>1, Kinds
      <4> QED
        BY <4>1, Zenon DEF HoldsNow
    <3> QED
      BY <2>1, <3>3, <3>4, <3>5
  <2>3. CASE \E c \in ChordIds : h = Chord(c)
    BY <2>3, <1>7, <1>12
  <2>4. CASE h \in Inner
    <3>1. h \notin u.dirty /\ h \notin s.dirty
      BY <1>4, <1>7, <1>12 DEF IsSettled
    <3>2. HoldsNow(t, bits, h) <=> HoldsNow(s, bits, h)
      BY <1>4, <1>9, <2>4, <3>1 DEF IsSettled
    <3>3. HoldsNow(s, bits, h) <=> HoldsNow(slot, bits, h)
      BY <2>4, <3>1 DEF Moves
    <3>4. HoldsNow(slot, bits, h) <=> HoldsNow(slot, before, h)
      BY <2>4, InnerForms, Kinds DEF HoldsNow
    <3> QED
      BY <2>1, <3>2, <3>3, <3>4
  <2>5. h \in Holders
    BY Members
  <2> QED
    BY <2>2, <2>3, <2>4, <2>5, HolderForms, Kinds, Members
<1>13. Accurate(t, bits, AllHolders)
  BY <1>10, <1>12 DEF Accurate
<1>14. ASSUME NEW h \in t.held, OfMouse(h)
       PROVE  h \in slot.held
  <2>1. ~HoldsNow(u, bits, h)
    BY <1>14, KeysAssumption DEF OfMouse, HoldsNow
  <2> QED
    BY <1>6, <1>9, <1>14, <2>1
<1>15. Driven(t, bits)
  <2>1. \A b \in DOMAIN P.turbo : HoldsAny(t, bits, TurboSources(b)) <=> HoldsAny(u, bits, TurboSources(b))
    BY <1>9 DEF HoldsAny
  <2> QED
    BY <1>4, <1>9, <2>1 DEF Driven, IsSettled
<1>16. Settled(t, bits) /\ t.posWins = w /\ t.macro = s.macro /\ Matched(t)
  BY <1>4, <1>9 DEF IsSettled, Settled, Matched
<1>17. \A m \in MacroIds : MacroTimer(m) \in DOMAIN s.timers =>
          t.timers[MacroTimer(m)] = s.timers[MacroTimer(m)]
  BY <1>4, <1>9 DEF IsSettled
<1> QED
  BY <1>9, <1>11, <1>13, <1>14, <1>15, <1>16, <1>17 DEF InOrder, w

\* With no key down no key holds and no chord.
LEMMA NothingDown ==
    ASSUME Placed, NEW t, Settled(t, {})
    PROVE  /\ \A k : ~HoldsNow(t, {}, Key(k)) /\ \A c : ~HoldsNow(t, {}, Chord(c))
           /\ \A b \in P.toggle : ~HoldsAny(t, {}, LatchSources(b))
<1>1. t.active = {}
  BY TablesSay, NothingActive DEF Settled, Active
<1>2. \A k : ~HoldsNow(t, {}, Key(k)) /\ \A c : ~HoldsNow(t, {}, Chord(c))
  BY <1>1, Kinds DEF HoldsNow
<1> QED
  BY <1>2, SourceForms DEF HoldsAny

\* With no run under way and no latch on, nothing is armed and nothing inside holds.
LEMMA LetGo ==
    ASSUME Placed, NEW t, Runtime(t), Matched(t),
           \A m \in MacroIds : ~Alive(t.macro[m]),
           \A b \in DOMAIN P.turbo : ~t.turbo[b].running,
           \A b \in P.toggle : ~t.latch[b].latched
    PROVE  /\ DOMAIN t.timers = {}
           /\ \A h \in Inner : \A bits : ~HoldsNow(t, bits, h)
<1>1. DOMAIN t.timers = {}
  BY DEF Matched
<1>2. ASSUME NEW h \in Inner, NEW bits PROVE ~HoldsNow(t, bits, h)
  <2>1. CASE \E m \in MacroIds : \E i \in DOMAIN P.macro[m].steps : h = Step(m, i)
    <3>1. PICK m \in MacroIds : \E i \in DOMAIN P.macro[m].steps : h = Step(m, i)
      BY <2>1
    <3>2. PICK i \in DOMAIN P.macro[m].steps : h = Step(m, i)
      BY <3>1
    <3>3. HoldsNow(t, bits, h) <=> t.macro[m].step = i
      <4>1. h[1] = "step" /\ h[2] = m /\ h[3] = i
        BY <3>2, Kinds
      <4> QED
        BY <4>1 DEF HoldsNow
    <3>4. i # 0 /\ t.macro[m].step = 0
      BY StepsOf DEF Alive
    <3> QED
      BY <3>3, <3>4
  <2>2. CASE \E b \in DOMAIN P.turbo : h = Turbo(b)
    <3>1. PICK b \in DOMAIN P.turbo : h = Turbo(b)
      BY <2>2
    <3>2. HoldsNow(t, bits, h) <=> t.turbo[b].running /\ t.turbo[b].on
      BY <3>1, HoldsBy
    <3> QED
      BY <3>2
  <2>3. CASE \E b \in P.toggle : h = Toggle(b)
    <3>1. PICK b \in P.toggle : h = Toggle(b)
      BY <2>3
    <3>2. HoldsNow(t, bits, h) <=> t.latch[b].latched
      BY <3>1, HoldsBy
    <3> QED
      BY <3>2
  <2> QED
    BY <2>1, <2>2, <2>3, InnerForms
<1> QED
  BY <1>1, <1>2

\* What holds then is a key or a chord.
OnlyKeys(t) == DOMAIN t.timers = {} /\ \A h \in t.held : h[1] \in {"key", "chord"}

\* An accurate runtime with nothing armed holds only keys and chords.
LEMMA OnlyKeysHeld ==
    ASSUME Placed, NEW t, Runtime(t), NEW bits, Accurate(t, bits, AllHolders),
           DOMAIN t.timers = {}, \A h \in Inner : \A a : ~HoldsNow(t, a, h)
    PROVE  OnlyKeys(t)
<1>1. \A h \in Inner : h \notin t.held
  BY Members DEF Accurate, OfMouse
<1>2. t.held \subseteq Holders
  BY DEF Runtime
<1> QED
  BY <1>1, <1>2, HolderForms, Kinds, Members DEF OnlyKeys

\* The full pass, after an exit and with no key left down, puts a slot in order.
LEMMA FullShape ==
    ASSUME Placed, Runtime(slot), Composed(slot), NEW before,
           NEW s, IsCancelled(s, slot), Matched(s),
           NEW t \in SyncedInFull(s, {}, before)
    PROVE  InOrder(t, s, {}, Winner(before, {})) /\ OnlyKeys(t)
<1> DEFINE w == Winner(before, {})
           u == Turboed(Toggled([s EXCEPT !.active = Active({}), !.posWins = w,
                                          !.consumed = Consumed({}, w)], {}), {})
<1>1. w \in BOOLEAN /\ Runtime(s) /\ Moves(slot, s)
  BY WinnerType DEF Runtime, IsCancelled
<1>2. t \in Applied(u, {}, AllHolders)
  BY DEF SyncedInFull
<1> HIDE DEF w, u
<1>3. IsSettled(u, s, {}, w)
  BY <1>1, SettledShape DEF u
<1>4. AllHolders \in SUBSET Holders
  BY Members
<1>5. u.held = slot.held /\ Composed(u) /\ Runtime(u)
  BY <1>1, <1>3 DEF IsSettled, Moves, Composed
<1>6. IsApplied(t, u, {}, AllHolders)
  BY <1>2, <1>4, <1>5, AppliedShape
<1>7. /\ Runtime(t) /\ t.dirty = {} /\ Composed(t)
      /\ t.held = (u.held \ AllHolders) \cup {h \in AllHolders : HoldsNow(u, {}, h)}
      /\ t.active = u.active /\ t.consumed = u.consumed /\ t.posWins = u.posWins
      /\ t.macro = u.macro /\ t.turbo = u.turbo /\ t.latch = u.latch /\ t.timers = u.timers
      /\ \A a, h : HoldsNow(t, a, h) <=> HoldsNow(u, a, h)
  BY <1>6 DEF IsApplied
<1>8. Accurate(t, {}, AllHolders)
  BY <1>7 DEF Accurate
<1>9. ASSUME NEW h \in t.held, OfMouse(h) PROVE h \in slot.held
  <2>1. ~HoldsNow(u, {}, h)
    BY <1>9 DEF OfMouse, HoldsNow
  <2> QED
    BY <1>5, <1>7, <1>9, <2>1
<1>10. Driven(t, {})
  <2>1. \A b \in DOMAIN P.turbo : HoldsAny(t, {}, TurboSources(b)) <=> HoldsAny(u, {}, TurboSources(b))
    BY <1>7 DEF HoldsAny
  <2> QED
    BY <1>3, <1>7, <2>1 DEF Driven, IsSettled
<1>11. Settled(t, {}) /\ Settled(u, {}) /\ t.posWins = w /\ t.macro = s.macro /\ Matched(t)
  BY <1>3, <1>7 DEF IsSettled, Settled, Matched
<1>12. \A m \in MacroIds : MacroTimer(m) \in DOMAIN s.timers =>
          t.timers[MacroTimer(m)] = s.timers[MacroTimer(m)]
  BY <1>3, <1>7 DEF IsSettled
<1>13. OnlyKeys(t)
  <2>1. \A b \in P.toggle : ~t.latch[b].latched
    BY <1>3, <1>7, <1>11, NothingDown DEF IsSettled, IsCancelled
  <2>2. \A m \in MacroIds : ~Alive(t.macro[m])
    BY <1>11 DEF IsCancelled
  <2>3. \A b \in DOMAIN P.turbo : ~t.turbo[b].running
    <3>1. \A b \in DOMAIN P.turbo : \A h \in TurboSources(b) : ~HoldsNow(t, {}, h)
      BY <2>1, <1>11, SourceForms, NothingDown, HoldsBy
    <3> QED
      BY <3>1, <1>10 DEF Driven, HoldsAny
  <2> QED
    BY <1>7, <1>8, <1>11, <2>1, <2>2, <2>3, LetGo, OnlyKeysHeld
<1> QED
  BY <1>7, <1>8, <1>9, <1>10, <1>11, <1>12, <1>13 DEF InOrder, w

\* A pass over what is marked keeps what holds accurate.
LEMMA MarkedShape ==
    ASSUME Placed, Runtime(slot), Composed(slot), NEW bits,
           NEW s, Runtime(s), Moves(slot, s), NEW t \in Applied(s, bits, s.dirty)
    PROVE  /\ IsApplied(t, s, bits, s.dirty)
           /\ Accurate(slot, bits, AllHolders) => Accurate(t, bits, AllHolders)
           /\ Accurate(slot, bits, {Key(j) : j \in SocdKeys})
              => Accurate(t, bits, {Key(j) : j \in SocdKeys})
           /\ \A h \in t.held : OfMouse(h) => h \in slot.held
<1>1. s.dirty \subseteq Inner /\ s.dirty \in SUBSET Holders
  BY DEF Runtime, Inner
<1>2. s.held = slot.held /\ Composed(s)
  BY DEF Moves, Composed
<1>3. IsApplied(t, s, bits, s.dirty)
  BY <1>1, <1>2, AppliedShape
<1>4. /\ t.held = (slot.held \ s.dirty) \cup {h \in s.dirty : HoldsNow(s, bits, h)}
      /\ \A a, h : HoldsNow(t, a, h) <=> HoldsNow(s, a, h)
  BY <1>2, <1>3 DEF IsApplied
<1>5. \A h : h[1] \in {"key", "chord"} =>
         /\ h \notin s.dirty
         /\ HoldsNow(t, bits, h) <=> HoldsNow(slot, bits, h)
  BY <1>1, <1>4, MovesOutside, Members
<1>6. \A h \in Inner \ s.dirty : HoldsNow(t, bits, h) <=> HoldsNow(slot, bits, h)
  BY <1>4 DEF Moves
<1>7. ASSUME Accurate(slot, bits, AllHolders) PROVE Accurate(t, bits, AllHolders)
  <2> SUFFICES ASSUME NEW h \in AllHolders, ~OfMouse(h)
               PROVE  h \in t.held <=> HoldsNow(t, bits, h)
    BY DEF Accurate
  <2>1. CASE h \in s.dirty
    BY <2>1, <1>4
  <2>2. CASE h \notin s.dirty
    <3>1. h \in Inner \/ h[1] \in {"key", "chord"}
      BY Members, HolderForms, Kinds
    <3> QED
      BY <2>2, <3>1, <1>4, <1>5, <1>6, <1>7 DEF Accurate
  <2> QED
    BY <2>1, <2>2
<1>8. ASSUME Accurate(slot, bits, {Key(j) : j \in SocdKeys})
      PROVE  Accurate(t, bits, {Key(j) : j \in SocdKeys})
  BY <1>4, <1>5, <1>8, Kinds DEF Accurate
<1>9. \A h \in t.held : OfMouse(h) => h \in slot.held
  BY <1>4, <1>5 DEF OfMouse
<1> QED
  BY <1>3, <1>7, <1>8, <1>9

\* A pass over buttons of the mouse leaves the rest of the slot alone.
LEMMA MouseShape ==
    ASSUME Placed, Runtime(slot), Composed(slot), NEW bits, NEW a,
           NEW ks \in SUBSET MouseKeys, NEW t \in Applied(slot, bits, {Key(k) : k \in ks})
    PROVE  /\ IsApplied(t, slot, bits, {Key(k) : k \in ks})
           /\ Accurate(slot, a, AllHolders) => Accurate(t, a, AllHolders)
           /\ Accurate(slot, a, {Key(j) : j \in SocdKeys}) => Accurate(t, a, {Key(j) : j \in SocdKeys})
           /\ \A h \in t.held : OfMouse(h) => \/ h[2] \in bits
                                              \/ h \in slot.held /\ h[2] \notin ks
<1>1. {Key(k) : k \in ks} \in SUBSET Holders
  BY Members DEF Keys
<1>2. IsApplied(t, slot, bits, {Key(k) : k \in ks})
  BY <1>1, AppliedShape
<1> DEFINE scan == {Key(k) : k \in ks}
<1>3. /\ t.held = (slot.held \ scan) \cup {h \in scan : HoldsNow(slot, bits, h)}
      /\ \A x, h : HoldsNow(t, x, h) <=> HoldsNow(slot, x, h)
  BY <1>2 DEF IsApplied
<1>4. \A h : ~OfMouse(h) => h \notin scan
  BY Kinds DEF OfMouse
<1>5. \A h : ~OfMouse(h) => (h \in t.held <=> h \in slot.held)
  BY <1>3, <1>4
<1>6. \A hs : Accurate(slot, a, hs) => Accurate(t, a, hs)
  BY <1>3, <1>5 DEF Accurate
<1>7. ASSUME NEW h \in t.held, OfMouse(h)
      PROVE  h[2] \in bits \/ (h \in slot.held /\ h[2] \notin ks)
  <2>1. CASE h \in scan
    <3>1. PICK k \in ks : h = Key(k)
      BY <2>1
    <3>2. HoldsNow(slot, bits, h) /\ h[2] = k
      BY <1>3, <1>7, <2>1, <3>1, Kinds
    <3>3. HoldsNow(slot, bits, Key(k)) => k \in bits
      BY HoldsBy
    <3> QED
      BY <3>1, <3>2, <3>3
  <2>2. CASE h \notin scan
    <3>1. h \in slot.held
      BY <1>3, <2>2
    <3>2. h \in Holders
      BY <3>1 DEF Runtime
    <3>3. h = Key(h[2])
      BY <1>7, <3>2, HolderForms, Kinds DEF OfMouse
    <3> QED
      BY <2>2, <3>1, <3>3
  <2> QED
    BY <2>1, <2>2
<1> QED
  BY <1>2, <1>6, <1>7

\* What follows a step or a gap is a run.
LEMMA AfterType ==
    ASSUME Placed, Runtime(slot), NEW m \in MacroIds
    PROVE  IsRun(m, After(slot, m))
<1>1. IsRun(m, slot.macro[m])
  BY DEF Runtime
<1>2. IsRun(m, Idle) /\ IsRun(m, Fresh)
  BY PlainRuns
<1>3. Idle.step = 0 /\ Idle \in RunType
  BY DEF Idle, RunType
<1>4. [Idle EXCEPT !.gapping = TRUE] \in RunType /\ [Idle EXCEPT !.gapping = TRUE].step = 0
  BY <1>3 DEF RunType
<1>5. IsRun(m, [Idle EXCEPT !.gapping = TRUE])
  BY <1>4, StepsOf DEF IsRun
<1>6. slot.macro[m].step # 0 /\ slot.macro[m].step < Len(P.macro[m].steps) =>
         IsRun(m, [slot.macro[m] EXCEPT !.step = @ + 1])
  <2> DEFINE r == slot.macro[m]
             next == [r EXCEPT !.step = @ + 1]
  <2>1. r \in RunType /\ IsRun(m, r)
    BY <1>1 DEF IsRun
  <2> HIDE DEF r
  <2>2. next \in RunType /\ next.step = r.step + 1 /\ next.gapping = r.gapping
    BY <2>1 DEF RunType
  <2> HIDE DEF next
  <2>3. r.step # 0 /\ r.step < Len(P.macro[m].steps) => IsRun(m, next)
    BY <2>1, <2>2, StepsOf DEF IsRun, RunType
  <2> QED
    BY <2>3 DEF next, r
<1> QED
  BY <1>2, <1>5, <1>6 DEF After

\* t is the slot with what is due moved on.
IsTicked(t) ==
    /\ Runtime(t) /\ Moves(slot, t) /\ Matched(t)
    /\ \A b \in DOMAIN P.turbo : t.turbo[b].running => slot.turbo[b].running
    /\ t.latch = slot.latch
    /\ \A m \in MacroIds : MacroTimer(m) \notin Due => t.macro[m] = slot.macro[m]
    /\ \A seen \in [MacroIds -> Nat] : Timed(slot, slot, seen) => Timed(t, slot, seen)

\* What a tick changes before it applies.
LEMMA TickedShape ==
    ASSUME Placed, Runtime(slot), Matched(slot)
    PROVE  IsTicked(Ticked)
<1> DEFINE ms == {m \in MacroIds : MacroTimer(m) \in Due}
           bs == {b \in DOMAIN P.turbo : TurboTimer(b) \in Due}
           on == {b \in bs : slot.turbo[b].on}
           run == [m \in ms |-> After(slot, m)]
           s == Put(slot, ms, run)
           u == Phase(s, on, TRUE, FALSE)
           t == Phase(u, bs \ on, TRUE, TRUE)
<1>1. Ticked = t
  BY DEF Ticked, MacroTimer, TurboTimer
<1>2. ms \in SUBSET MacroIds /\ on \in SUBSET DOMAIN P.turbo /\ bs \ on \in SUBSET DOMAIN P.turbo
  OBVIOUS
<1>3. \A m \in ms : IsRun(m, run[m])
  BY AfterType
<1>4. \A b \in bs : slot.turbo[b].running
  BY DEF Due, Matched, MacroTimer, TurboTimer
<1>5. \A m \in MacroIds : MacroTimer(m) \notin Due => m \notin ms
  OBVIOUS
<1>6. on \subseteq bs
  OBVIOUS
<1> HIDE DEF ms, bs, on, run, s, u, t
<1>7. IsPut(s, slot, ms, run)
  BY <1>2, <1>3, PutShape DEF s
<1>8. IsPhased(u, s, on, TRUE, FALSE)
  BY <1>2, <1>7, PhaseShape DEF u, IsPut
<1>9. IsPhased(t, u, bs \ on, TRUE, TRUE)
  BY <1>2, <1>8, PhaseShape DEF t, IsPhased
<1>10. Runtime(t) /\ Matched(s) /\ Matched(u) /\ Matched(t)
  BY <1>7, <1>8, <1>9 DEF IsPut, IsPhased
<1>11. Moves(slot, t)
  <2>1. Moves(slot, s) /\ Moves(s, u) /\ Moves(u, t)
    BY <1>7, <1>8, <1>9 DEF IsPut, IsPhased
  <2> QED
    BY <2>1, MovesOn
<1>12. t.macro = s.macro /\ u.macro = s.macro /\ t.latch = slot.latch
  BY <1>7, <1>8, <1>9 DEF IsPut, IsPhased
<1>13. ASSUME NEW b \in DOMAIN P.turbo, t.turbo[b].running PROVE slot.turbo[b].running
  <2>1. CASE b \in bs
    BY <1>4, <2>1
  <2>2. CASE b \notin bs
    <3>1. t.turbo[b] = u.turbo[b] /\ u.turbo[b] = s.turbo[b] /\ s.turbo = slot.turbo
      BY <1>6, <1>7, <1>8, <1>9, <2>2 DEF IsPut, IsPhased
    <3> QED
      BY <1>13, <3>1
  <2> QED
    BY <2>1, <2>2
<1>14. \A m \in MacroIds : MacroTimer(m) \notin Due => t.macro[m] = slot.macro[m]
  BY <1>5, <1>7, <1>12 DEF IsPut
<1>15. ASSUME NEW seen \in [MacroIds -> Nat], Timed(slot, slot, seen)
       PROVE  Timed(t, slot, seen)
  <2>1. Timed(s, slot, seen)
    BY <1>2, <1>3, <1>7, <1>15, TimedPut
  <2>2. Timed(u, slot, seen)
    BY <1>8, <1>10, <2>1, TimedOn DEF IsPhased
  <2> QED
    BY <1>9, <1>10, <2>2, TimedOn DEF IsPhased
<1> QED
  BY <1>1, <1>10, <1>11, <1>12, <1>13, <1>14, <1>15 DEF IsTicked
-----------------------------------------------------------------------------
(* A slot without state. *)

\* It has nothing to run.
LEMMA Stateless ==
    ASSUME Placed, ~Stateful
    PROVE  /\ ChordIds = {} /\ MacroIds = {} /\ DOMAIN P.turbo = {} /\ P.toggle = {}
           /\ SocdKeys = {}
  BY DEF Stateful, SocdKeys

\* t is the slot with another pad, which shows no more than the keys demand.
IsPlain(t, keys) ==
    Runtime(t) /\ t = [slot EXCEPT !.sign = t.sign, !.pad = t.pad] /\ Shows(t, keys)

\* A key event leaves it showing what keys down demand.
LEMMA PlainShape ==
    ASSUME Placed, Runtime(slot), NEW bits \in SUBSET Keys, NEW ks \in SUBSET Keys,
           NEW press \in BOOLEAN, NEW t \in Plain(bits, ks, press),
           NEW all \in SUBSET Keys, NEW now \in SUBSET Keys, Shows(slot, all),
           bits \subseteq now, \A k \in all : k \in now \/ k \in ks
    PROVE  IsPlain(t, now)
<1> DEFINE held == {Key(k) : k \in bits}
           touched == {Key(k) : k \in ks}
           rose == IF press THEN touched ELSE {}
<1>1. held \in SUBSET Holders /\ touched \in SUBSET Holders /\ rose \in SUBSET Holders
  BY Members
<1>2. t \in Resolved(slot, held, rose, touched)
  BY DEF Plain
<1>3. rose \cup touched = touched
  OBVIOUS
<1>4. /\ \A h \in held : h \in {Key(k) : k \in now}
      /\ \A h \in {Key(k) : k \in all} : h \in touched \/ h \in {Key(k) : k \in now}
  OBVIOUS
<1> HIDE DEF held, touched, rose
<1>5. Runtime(t) /\ Resolves(t, slot, held, rose, touched)
  BY <1>1, <1>2, ResolvedShape
<1> DEFINE before == {Key(k) : k \in all}
           after == {Key(k) : k \in now}
<1>6. /\ \A c : c \in Pressed(held) <=> c # "X" /\ \E h \in held : \E x \in Drives(h) : x[1] = c
      /\ \A v : v \in Leanings(held) <=> \E h \in held : \E x \in Drives(h) : x[1] = "X" /\ x[2] = v
      /\ \A c : c \in Pressed(before) <=> c # "X" /\ \E h \in before : \E x \in Drives(h) : x[1] = c
      /\ \A v : v \in Leanings(before) <=> \E h \in before : \E x \in Drives(h) : x[1] = "X" /\ x[2] = v
      /\ \A c : c \in Pressed(after) <=> c # "X" /\ \E h \in after : \E x \in Drives(h) : x[1] = c
      /\ \A v : v \in Leanings(after) <=> \E h \in after : \E x \in Drives(h) : x[1] = "X" /\ x[2] = v
  BY DemandsOf
<1> HIDE DEF before, after
<1>7. \A h \in touched : \A x \in Drives(h) : x[1] \in Touched(touched)
  BY DEF Touched, Demands
<1>8. Pressed(held) \subseteq Pressed(after) /\ Leanings(held) \subseteq Leanings(after)
  BY <1>4, <1>6 DEF after
<1>9. \A c \in Pressed(before) : c \in Touched(touched) \/ c \in Pressed(after)
  BY <1>4, <1>6, <1>7 DEF before, after
<1>10. "X" \notin Touched(touched) => Leanings(before) \subseteq Leanings(after)
  BY <1>4, <1>6, <1>7 DEF before, after
<1>11. t.pad.on \subseteq Pressed(after)
  <2>1. t.pad.on \subseteq Controls
    BY <1>5 DEF Runtime
  <2> QED
    BY <2>1, <1>3, <1>5, <1>8, <1>9 DEF Resolves, Shows, before
<1>12. t.pad.x \in Leanings(after) \cup {0}
  <2>1. CASE "X" \in Touched(touched)
    <3>1. Leanings(held) \in SUBSET Deflections
      BY <1>1, DemandsType
    <3>2. t.pad.x = Deflection(t.sign, Leanings(held))
      BY <1>3, <1>5, <2>1 DEF Resolves
    <3> QED
      BY <1>8, <3>1, <3>2, DeflectionHeld
  <2>2. CASE "X" \notin Touched(touched)
    BY <1>3, <1>5, <1>10, <2>2 DEF Resolves, Shows, before
  <2> QED
    BY <2>1, <2>2
<1> QED
  BY <1>5, <1>11, <1>12 DEF Resolves, Shows, after, IsPlain
-----------------------------------------------------------------------------
(* The order of presses. *)

\* Two keys that oppose each other alone are a side each, and a side drives
\* while its key is down.
Contest(o, bits) ==
    /\ \/ Side(1) = {o[1]} /\ Side(-1) = {o[2]}
       \/ Side(1) = {o[2]} /\ Side(-1) = {o[1]}
    /\ \A s \in {-1, 1} : s \in Driving(bits) <=> Side(s) \cap bits # {}
    /\ Driving(bits) \subseteq {-1, 1}

\* Such keys are the whole of the contest.
LEMMA ContestOf ==
    ASSUME Placed, NEW o, Opponents(o), o[1] # o[2], NEW bits
    PROVE  Contest(o, bits)
<1>1. /\ HasSocd /\ SocdKeys = Side(1) \cup Side(-1) /\ SocdKeys = {o[1], o[2]}
      /\ Side(1) \cap Side(-1) = {} /\ SocdKeys \cap ChordKeys = {}
  BY Sides DEF Opponents
<1>2. \/ Side(1) = {o[1]} /\ Side(-1) = {o[2]}
      \/ Side(1) = {o[2]} /\ Side(-1) = {o[1]}
  BY <1>1 DEF HasSocd
<1>3. ByChords(bits) \cap SocdKeys = {}
  BY <1>1, ConsumedType
<1>4. ASSUME NEW s \in {-1, 1} PROVE s \in Driving(bits) <=> Side(s) \cap bits # {}
  <2>1. Side(s) \subseteq SocdKeys
    BY <1>1
  <2>2. Side(s) \cap (bits \ ByChords(bits)) = Side(s) \cap bits
    BY <1>3, <2>1
  <2> QED
    BY <1>1, <2>2 DEF Driving
<1>5. Driving(bits) \subseteq {-1, 1}
  BY DEF Driving
<1> QED
  BY <1>2, <1>4, <1>5 DEF Contest

\* Who wins, given who drives and who drove.
LEMMA WinnerIs ==
    ASSUME NEW before, NEW bits, Driving(bits) = {-1, 1}
    PROVE  /\ Driving(before) = {-1, 1} => Winner(before, bits) = slot.posWins
           /\ Driving(before) = {-1} => Winner(before, bits) = (P.socd = "last")
           /\ Driving(before) = {1} => Winner(before, bits) = (P.socd # "last")
<1>1. {-1, 1} # {-1} /\ {-1, 1} # {1} /\ {-1, 1} # {} /\ {1} # {-1} /\ {1} # {} /\ {-1} # {}
  OBVIOUS
<1> DEFINE both == {-1, 1}
           minus == {-1}
           plus == {1}
           drove == Driving(before)
<1>2. Winner(before, bits) = CASE drove = minus -> P.socd = "last"
                               [] drove = plus -> P.socd # "last"
                               [] drove = {} -> FALSE
                               [] OTHER -> slot.posWins
  BY Zenon DEF Winner
<1>3. both # minus /\ both # plus /\ both # {} /\ plus # minus /\ plus # {} /\ minus # {}
  BY <1>1
<1> HIDE DEF both, minus, plus, drove
<1>4. /\ drove = both => Winner(before, bits) = slot.posWins
      /\ drove = minus => Winner(before, bits) = (P.socd = "last")
      /\ drove = plus => Winner(before, bits) = (P.socd # "last")
  BY <1>2, <1>3
<1> QED
  BY <1>4 DEF both, minus, plus, drove

\* The order of the pairs that are down after an event on key k.
OrderAfter(os, k, before, press) ==
    IF (k \in before) = press \/ k \notin SocdKeys THEN os
    ELSE IF press THEN os \cup {<<j, k>> : j \in SocdKeys \cap before}
    ELSE {o \in os : k \notin {o[1], o[2]}}

\* Who has the axis follows the order of presses through every key event.
LEMMA OrderKept ==
    ASSUME Placed, slot.posWins \in BOOLEAN, NEW before, NEW os, Ordered(slot, before, os),
           NEW k, NEW press \in BOOLEAN, NEW bits, k \in bits <=> press,
           \A j : j # k => (j \in bits <=> j \in before),
           NEW t, t.posWins = Winner(before, bits)
    PROVE  Ordered(t, bits, OrderAfter(os, k, before, press))
<1> DEFINE os2 == OrderAfter(os, k, before, press)
           wins(o) == (IF P.socd = "last" THEN o[2] ELSE o[1]) \in Side(1)
<1>1. ASSUME NEW o \in os2, o \in os
      PROVE  /\ o[1] # o[2] /\ {o[1], o[2]} \subseteq SocdKeys \cap bits
             /\ Opponents(o) => (t.posWins <=> wins(o))
  <2>1. o[1] # o[2] /\ {o[1], o[2]} \subseteq SocdKeys \cap before
    BY <1>1 DEF Ordered
  <2>2. {o[1], o[2]} \subseteq bits
    BY <1>1, <2>1 DEF OrderAfter
  <2>3. ASSUME Opponents(o) PROVE t.posWins <=> wins(o)
    <3>1. Contest(o, before) /\ Contest(o, bits)
      BY <2>1, <2>3, ContestOf
    <3>2. Driving(before) = {-1, 1} /\ Driving(bits) = {-1, 1}
      BY <2>1, <2>2, <3>1 DEF Contest
    <3>3. t.posWins = slot.posWins
      BY <3>2, WinnerIs
    <3>4. slot.posWins <=> wins(o)
      BY <1>1, <2>3 DEF Ordered
    <3> QED
      BY <3>3, <3>4
  <2> QED
    BY <2>1, <2>2, <2>3
<1>2. ASSUME NEW o \in os2, o \notin os
      PROVE  /\ o[1] # o[2] /\ {o[1], o[2]} \subseteq SocdKeys \cap bits
             /\ Opponents(o) => (t.posWins <=> wins(o))
  <2>1. press /\ k \notin before /\ k \in SocdKeys /\ \E j \in SocdKeys \cap before : o = <<j, k>>
    BY <1>2 DEF OrderAfter
  <2>2. PICK j \in SocdKeys \cap before : o = <<j, k>>
    BY <2>1
  <2>3. o[1] = j /\ o[2] = k /\ j # k /\ j \in bits /\ k \in bits
    BY <2>1, <2>2
  <2>4. ASSUME Opponents(o) PROVE t.posWins <=> wins(o)
    <3>1. Contest(o, before) /\ Contest(o, bits)
      BY <2>3, <2>4, ContestOf
    <3>2. Driving(bits) = {-1, 1}
      BY <2>3, <3>1 DEF Contest
    <3>3. CASE Side(1) = {j} /\ Side(-1) = {k}
      <4>1. Driving(before) = {1}
        BY <2>1, <2>3, <3>1, <3>3 DEF Contest
      <4>2. t.posWins = (P.socd # "last")
        BY <3>2, <4>1, WinnerIs
      <4> QED
        BY <2>3, <3>3, <4>2
    <3>4. CASE Side(1) = {k} /\ Side(-1) = {j}
      <4>1. Driving(before) = {-1}
        BY <2>1, <2>3, <3>1, <3>4 DEF Contest
      <4>2. t.posWins = (P.socd = "last")
        BY <3>2, <4>1, WinnerIs
      <4> QED
        BY <2>3, <3>4, <4>2
    <3> QED
      BY <2>3, <3>1, <3>3, <3>4 DEF Contest
  <2> QED
    BY <2>1, <2>2, <2>3, <2>4
<1> QED
  BY <1>1, <1>2 DEF Ordered
-----------------------------------------------------------------------------
(* The steps. *)

\* What it means to be in order does not change with the step.
LEMMA Carried ==
    ASSUME UNCHANGED <<name, tables>>
    PROVE  \A s, dn, seen, os : Sound(s, dn, seen, os)' <=> Sound(s, dn, seen, os)
<1>1. /\ P' = P /\ ChordIds' = ChordIds /\ MacroIds' = MacroIds
      /\ Holders' = Holders /\ AllHolders' = AllHolders
      /\ \A bits : Active(bits)' = Active(bits)
      /\ \A bits, w : Consumed(bits, w)' = Consumed(bits, w)
      /\ Stateful' = Stateful
  BY Same
<1>2. \A h : Drives(h)' = Drives(h)
  BY DEF Drives
<1>3. /\ \A hs : Leanings(hs)' = Leanings(hs)
      /\ \A hs : Pressed(hs)' = Pressed(hs)
  BY DEF Drives, Demands, Leanings, Pressed
<1>4. \A s : Side(s)' = Side(s)
  BY DEF Side
<1>5. SocdKeys' = SocdKeys
  BY <1>4 DEF SocdKeys, HasSocd
<1>6. ChordKeys' = ChordKeys /\ Known' = Known
  <2>1. ChordKeys' = ChordKeys
    BY <1>1, Zenon DEF ChordKeys
  <2>2. (UNION {P.chord[c].unless : c \in ChordIds})' = UNION {P.chord[c].unless : c \in ChordIds}
    BY <1>1, Zenon
  <2>3. (UNION {P.macro[m].triggers : m \in MacroIds})' = UNION {P.macro[m].triggers : m \in MacroIds}
    BY <1>1, Zenon
  <2>4. {k \in Keys : P.entry[k] # {}}' = {k \in Keys : P.entry[k] # {}}
    BY <1>1
  <2> QED
    BY <2>1, <2>2, <2>3, <2>4, Zenon DEF Known
<1>7. \A b : TurboSources(b)' = TurboSources(b)
  BY DEF TurboSources
<1>8. \A m, r : IsRun(m, r)' <=> IsRun(m, r)
  BY <1>1 DEF IsRun
<1>9. TimerIds' = TimerIds /\ Inner' = Inner
  BY <1>1 DEF TimerIds, Inner
<1>10. \A s : Runtime(s)' <=> Runtime(s)
  BY <1>1, <1>8, <1>9 DEF Runtime
<1>11. \A s : Matched(s)' <=> Matched(s)
  BY <1>1 DEF Matched
<1>12. \A s, dn : Stated(s, dn)' <=> Stated(s, dn)
  BY <1>1, <1>3, Zenon DEF Stated, Composed, Settled, Accurate
<1>13. \A s, ks : Shows(s, ks)' <=> Shows(s, ks)
  BY <1>3 DEF Shows
<1>14. \A s, bits : Driven(s, bits)' <=> Driven(s, bits)
  BY <1>1, <1>7 DEF Driven, HoldsAny
<1>15. \A s, seen : Lasting(s, seen)' <=> Lasting(s, seen)
  BY <1>1, Zenon DEF Lasting, Least
<1>16. \A s, bits, os : Ordered(s, bits, os)' <=> Ordered(s, bits, os)
  BY <1>1, <1>4, <1>5, <1>6 DEF Ordered, Opponents
<1>17. ASSUME NEW s, NEW dn, NEW seen, NEW os
       PROVE  Sound(s, dn, seen, os)' <=> Sound(s, dn, seen, os)
  BY <1>1, <1>5, <1>6, <1>10, <1>11, <1>12, <1>13, <1>14, <1>15, <1>16, Zenon DEF Sound, Accurate
<1> QED
  BY <1>17

\* It is enough to look at the next slot under the present tables.
LEMMA Enough ==
    ASSUME Placed, UNCHANGED <<name, tables>>, Sound(slot', down', shown', order')
    PROVE  IInv'
<1>1. Placed'
  BY DEF Placed, P
<1>2. Sound(slot, down, shown, order)'
  BY Carried
<1> QED
  BY <1>1, <1>2 DEF IInv

\* What the ghosts say of the runs stays true when the deadlines do.
LEMMA Watched ==
    ASSUME Placed, shown \in [MacroIds -> Nat], Timed(slot', slot, shown), Watch
    PROVE  shown' \in [MacroIds -> Nat] /\ Lasting(slot', shown')
<1>1. shown' = Renewed(slot, slot', shown)
  BY Zenon DEF Watch, Renewed
<1>2. Renewed(slot, slot', shown) \in [MacroIds -> Nat]
  BY DEF Renewed
<1> QED
  BY <1>1, <1>2 DEF Timed

\* A runtime in order is timed to be seen.
LEMMA TimedNow ==
    ASSUME NEW dn, NEW os, Sound(slot, dn, shown, os)
    PROVE  Timed(slot, slot, shown)
<1>1. Renewed(slot, slot, shown) = shown
  BY DEF Renewed, Sound
<1> QED
  BY <1>1 DEF Timed, Sound

\* The keys that are down after an event on a device.
LEMMA DownAfter ==
    ASSUME down \in [Devices -> SUBSET Keys], \A d \in Devices : down[d] \subseteq KeysOf(d) \cap Known,
           NEW d \in Devices, NEW bits, bits \subseteq KeysOf(d) \cap Known,
           down' = [down EXCEPT ![d] = bits]
    PROVE  /\ down' \in [Devices -> SUBSET Keys]
           /\ \A e \in Devices : down'[e] \subseteq KeysOf(e) \cap Known
           /\ down'[d] = bits /\ \A e \in Devices \ {d} : down'[e] = down[e]
  BY DEF KeysOf, Keys

\* The path of a slot without state keeps it in order.
LEMMA PlainStep ==
    ASSUME Placed, Sound(slot, down, shown, order), ~Stateful,
           NEW d \in Devices, NEW bits, bits \subseteq KeysOf(d) \cap Known,
           down' = [down EXCEPT ![d] = bits],
           NEW ks \in SUBSET Keys, down[d] \subseteq bits \cup ks, NEW press \in BOOLEAN,
           slot' \in Plain(bits, ks, press), Watch
    PROVE  order = {} /\ Sound(slot', down', shown', {})
<1> DEFINE all == down["kbd"] \cup down["mouse"]
           now == down'["kbd"] \cup down'["mouse"]
<1>1. /\ ChordIds = {} /\ MacroIds = {} /\ DOMAIN P.turbo = {} /\ P.toggle = {}
      /\ SocdKeys = {}
  BY Stateless
<1>2. /\ down' \in [Devices -> SUBSET Keys]
      /\ \A e \in Devices : down'[e] \subseteq KeysOf(e) \cap Known
      /\ down'[d] = bits /\ \A e \in Devices \ {d} : down'[e] = down[e]
  BY DownAfter DEF Sound
<1>3. down["kbd"] \in SUBSET Keys /\ down["mouse"] \in SUBSET Keys
  BY DEF Sound, Devices
<1>4. all \in SUBSET Keys /\ now \in SUBSET Keys /\ bits \in SUBSET Keys
  BY <1>2, <1>3 DEF Devices
<1>5. bits \subseteq now /\ \A k \in all : k \in now \/ k \in ks
  BY <1>2 DEF Devices
<1>6. Shows(slot, all) /\ Runtime(slot)
  BY DEF Sound
<1> HIDE DEF all, now
<1>7. Runtime(slot') /\ slot' = [slot EXCEPT !.sign = slot'.sign, !.pad = slot'.pad] /\ Shows(slot', now)
  <2>1. PICK t \in Plain(bits, ks, press) : t = slot'
    OBVIOUS
  <2>2. PICK n \in SUBSET Keys : n = now
    BY <1>4
  <2>3. PICK a \in SUBSET Keys : a = all
    BY <1>4
  <2>4. bits \subseteq n /\ (\A k \in a : k \in n \/ k \in ks) /\ Shows(slot, a)
    BY <1>5, <1>6, <2>2, <2>3
  <2>5. IsPlain(t, n)
    BY <1>4, <1>6, <2>4, PlainShape
  <2> QED
    BY <2>1, <2>2, <2>5 DEF IsPlain
<1>8. slot'.dirty = slot.dirty /\ slot'.timers = slot.timers /\ slot'.macro = slot.macro /\ slot'.turbo = slot.turbo
  BY <1>6, <1>7 DEF Runtime
<1>9. Matched(slot')
  BY <1>8 DEF Matched, Sound
<1>10. shown' \in [MacroIds -> Nat] /\ Lasting(slot', shown')
  BY <1>1 DEF Watch, Lasting
<1>11. order = {}
  BY <1>1 DEF Sound, Ordered
<1>12. Driven(slot', down'["kbd"]) /\ Ordered(slot', down'["kbd"], {})
  BY <1>1 DEF Driven, Ordered
<1> QED
  BY <1>2, <1>7, <1>8, <1>9, <1>10, <1>11, <1>12 DEF Sound, now

\* A pass that settles nothing leaves the turbos driven and the order decided.
LEMMA StillDriven ==
    ASSUME Placed, NEW s, NEW t, NEW bits, Driven(s, bits),
           t.active = s.active, t.consumed = s.consumed, t.latch = s.latch,
           \A b \in DOMAIN P.turbo : t.turbo[b].running => s.turbo[b].running
    PROVE  Driven(t, bits)
  BY SourcesAgree DEF Driven

\* A mouse event keeps a slot with state in order.
LEMMA MouseStep ==
    ASSUME Placed, Sound(slot, down, shown, order), Stateful,
           NEW bits, bits \subseteq KeysOf("mouse") \cap Known,
           down' = [down EXCEPT !["mouse"] = bits],
           NEW x \in SUBSET bits, NEW ks \in SUBSET MouseKeys, down["mouse"] \subseteq bits \cup ks,
           slot' \in Applied(slot, x, {Key(k) : k \in ks}), Watch
    PROVE  Sound(slot', down', shown', order)
<1>1. /\ down' \in [Devices -> SUBSET Keys]
      /\ \A e \in Devices : down'[e] \subseteq KeysOf(e) \cap Known
      /\ down'["mouse"] = bits /\ down'["kbd"] = down["kbd"]
  <2>1. "mouse" \in Devices /\ "kbd" \in Devices \ {"mouse"}
    BY DEF Devices
  <2> QED
    BY <2>1, DownAfter DEF Sound
<1>2. Runtime(slot) /\ Stated(slot, down) /\ Matched(slot)
  BY DEF Sound
<1>3. Composed(slot) /\ Accurate(slot, down["kbd"], AllHolders) /\ Settled(slot, down["kbd"])
  BY <1>2 DEF Stated
<1>4. /\ IsApplied(slot', slot, x, {Key(k) : k \in ks})
      /\ Accurate(slot', down["kbd"], AllHolders)
      /\ Accurate(slot, down["kbd"], {Key(j) : j \in SocdKeys})
           => Accurate(slot', down["kbd"], {Key(j) : j \in SocdKeys})
      /\ \A h \in slot'.held : OfMouse(h) => h[2] \in x \/ (h \in slot.held /\ h[2] \notin ks)
  <2>1. PICK t \in Applied(slot, x, {Key(k) : k \in ks}) : t = slot'
    OBVIOUS
  <2>2. /\ IsApplied(t, slot, x, {Key(k) : k \in ks})
        /\ Accurate(t, down["kbd"], AllHolders)
        /\ Accurate(slot, down["kbd"], {Key(j) : j \in SocdKeys})
             => Accurate(t, down["kbd"], {Key(j) : j \in SocdKeys})
        /\ \A h \in t.held : OfMouse(h) => h[2] \in x \/ (h \in slot.held /\ h[2] \notin ks)
    BY <1>2, <1>3, MouseShape
  <2> QED
    BY <2>1, <2>2
<1>5. /\ Runtime(slot') /\ slot'.dirty = {} /\ Composed(slot')
      /\ slot'.active = slot.active /\ slot'.consumed = slot.consumed /\ slot'.posWins = slot.posWins
      /\ slot'.macro = slot.macro /\ slot'.turbo = slot.turbo /\ slot'.latch = slot.latch
      /\ slot'.timers = slot.timers
  BY <1>4 DEF IsApplied
<1>6. Matched(slot')
  BY <1>2, <1>5 DEF Matched
<1>7. Timed(slot', slot, shown)
  BY <1>5, <1>6, TimedNow, TimedOn
<1>8. shown' \in [MacroIds -> Nat] /\ Lasting(slot', shown')
  BY <1>7, Watched DEF Sound
<1>9. Driven(slot', down["kbd"])
  BY <1>5, StillDriven DEF Sound
<1>10. Ordered(slot', down["kbd"], order)
  BY <1>5 DEF Ordered, Sound
<1>11. \A h \in slot'.held : OfMouse(h) => h[2] \in bits
  <2> SUFFICES ASSUME NEW h \in slot'.held, OfMouse(h), h \in slot.held, h[2] \notin ks
               PROVE  h[2] \in bits
    BY <1>4
  <2>1. h[2] \in down["mouse"]
    BY <1>2 DEF Stated
  <2> QED
    BY <2>1
<1>12. Stated(slot', down')
  BY <1>1, <1>3, <1>4, <1>5, <1>11 DEF Stated, Settled
<1> QED
  BY <1>1, <1>4, <1>5, <1>6, <1>8, <1>9, <1>10, <1>12 DEF Sound

\* A key event on the keyboard keeps a slot with state in order.
LEMMA KeyStep ==
    ASSUME Placed, Sound(slot, down, shown, order), Stateful,
           NEW k, k \in KbdKeys \cap Known, NEW press \in BOOLEAN, NEW bits,
           bits = IF press THEN down["kbd"] \cup {k} ELSE down["kbd"] \ {k},
           down' = [down EXCEPT !["kbd"] = bits],
           NEW s, IsEdged(s, slot), slot' \in Synced(s, bits, down["kbd"], k), Watch
    PROVE  Sound(slot', down', shown', OrderAfter(order, k, down["kbd"], press))
<1> DEFINE before == down["kbd"]
           os == OrderAfter(order, k, before, press)
<1>0. "kbd" \in Devices /\ "mouse" \in Devices \ {"kbd"} /\ KeysOf("kbd") = KbdKeys
  BY DEF Devices, KeysOf
<1>1. before \subseteq KbdKeys \cap Known
  BY <1>0 DEF Sound
<1>2. /\ bits \subseteq KeysOf("kbd") \cap Known /\ bits \in SUBSET KbdKeys
      /\ k \in bits <=> press
      /\ \A j : j # k => (j \in bits <=> j \in before)
  BY <1>0, <1>1
<1>3. /\ down' \in [Devices -> SUBSET Keys]
      /\ \A e \in Devices : down'[e] \subseteq KeysOf(e) \cap Known
      /\ down'["kbd"] = bits /\ down'["mouse"] = down["mouse"]
  BY <1>0, <1>2, DownAfter DEF Sound
<1>4. Runtime(slot) /\ Stated(slot, down) /\ Matched(slot) /\ slot.dirty = {}
  BY DEF Sound
<1>5. Composed(slot) /\ Accurate(slot, before, AllHolders) /\ Settled(slot, before)
  BY <1>4 DEF Stated
<1>6. /\ Runtime(s) /\ Moves(slot, s) /\ Matched(s)
      /\ Timed(s, slot, shown)
  BY <1>4, TimedNow DEF IsEdged, Sound
<1>7. k \in Keys
  BY DEF Keys
<1> HIDE DEF before
<1>8. InOrder(slot', s, bits, Winner(before, bits)) /\ Accurate(slot', bits, {Key(j) : j \in SocdKeys})
  <2>1. PICK t \in Synced(s, bits, before, k) : t = slot'
    BY DEF before
  <2>2. InOrder(t, s, bits, Winner(before, bits)) /\ Accurate(t, bits, {Key(j) : j \in SocdKeys})
    BY <1>2, <1>4, <1>5, <1>6, <1>7, SyncedShape
  <2> QED
    BY <2>1, <2>2
<1>9. /\ Runtime(slot') /\ slot'.dirty = {} /\ Matched(slot') /\ Composed(slot')
      /\ Settled(slot', bits) /\ slot'.posWins = Winner(before, bits) /\ Driven(slot', bits)
      /\ Accurate(slot', bits, AllHolders)
      /\ \A h \in slot'.held : OfMouse(h) => h \in slot.held
  BY <1>8 DEF InOrder
<1>10. Timed(slot', slot, shown)
  BY <1>6, <1>8, <1>9, TimedOn DEF InOrder
<1>11. shown' \in [MacroIds -> Nat] /\ Lasting(slot', shown')
  BY <1>10, Watched DEF Sound
<1>12. Ordered(slot', bits, os)
  <2>1. slot.posWins \in BOOLEAN /\ Ordered(slot, before, order)
    BY <1>4 DEF Runtime, Sound, before
  <2> QED
    BY <1>2, <1>9, <2>1, OrderKept
<1>13. os \subseteq KbdKeys \X KbdKeys
  BY <1>1 DEF OrderAfter, Sound, before
<1>14. Stated(slot', down')
  <2>1. \A h \in slot'.held : OfMouse(h) => h[2] \in down'["mouse"]
    BY <1>3, <1>4, <1>9 DEF Stated
  <2> QED
    BY <1>3, <1>9, <2>1 DEF Stated
<1> HIDE DEF os
<1>15. Sound(slot', down', shown', os)
  BY <1>3, <1>8, <1>9, <1>11, <1>12, <1>13, <1>14 DEF Sound
<1> QED
  BY <1>15 DEF os, before

\* Nor does an event that is no edge.
LEMMA NoEdge ==
    ASSUME NEW s, Runtime(s)
    PROVE  IsEdged(s, s)
  BY DEF IsEdged, Moves

\* A key that goes down, repeats or comes up keeps the slot in order.
LEMMA HandleStep ==
    ASSUME Placed, Sound(slot, down, shown, order),
           NEW d \in Devices, NEW k \in Keys, NEW press \in BOOLEAN, Handle(d, k, press)
    PROVE  Sound(slot', down', shown', order')
<1> DEFINE bits == IF press THEN down[d] \cup {k} ELSE down[d] \ {k}
           edge == (k \in down[d]) # press
<1>0. order' = IF d = "mouse" THEN order ELSE OrderAfter(order, k, down[d], press)
  BY Zenon DEF Handle, OrderAfter
<1>1. k \in KeysOf(d) \cap Known /\ down' = [down EXCEPT ![d] = bits] /\ Watch
  BY DEF Handle
<1>2. down[d] \subseteq KeysOf(d) \cap Known /\ bits \subseteq KeysOf(d) \cap Known
  BY <1>1 DEF Sound
<1>3. CASE ~Stateful
  <2>1. slot' \in Plain(bits, {k}, press)
    BY <1>3 DEF Handle
  <2>2. down[d] \subseteq bits \cup {k} /\ {k} \in SUBSET Keys
    OBVIOUS
  <2>3. k \notin SocdKeys
    BY <1>3, Stateless
  <2>4. order' = order
    BY <1>0, <2>3 DEF OrderAfter
  <2> HIDE DEF bits
  <2>5. order = {} /\ Sound(slot', down', shown', {})
    BY <1>1, <1>2, <1>3, <2>1, <2>2, PlainStep
  <2> QED
    BY <2>4, <2>5
<1>4. CASE Stateful /\ d = "mouse"
  <2>1. slot' \in Applied(slot, bits, {Key(k)}) /\ order' = order
    BY <1>0, <1>4, Zenon DEF Handle
  <2>2. down["mouse"] \subseteq bits \cup {k} /\ {k} \in SUBSET MouseKeys /\ bits \in SUBSET bits
    BY <1>1, <1>4 DEF KeysOf
  <2>3. bits \subseteq KeysOf("mouse") \cap Known /\ down' = [down EXCEPT !["mouse"] = bits]
    BY <1>1, <1>2, <1>4
  <2>4. {Key(k)} = {Key(j) : j \in {k}}
    OBVIOUS
  <2> HIDE DEF bits
  <2>5. slot' \in Applied(slot, bits, {Key(j) : j \in {k}})
    BY <2>1, <2>4
  <2>6. Sound(slot', down', shown', order)
    BY <1>1, <1>4, <2>2, <2>3, <2>5, MouseStep
  <2> QED
    BY <2>1, <2>6
<1>5. CASE Stateful /\ d = "kbd"
  <2> DEFINE s == IF edge THEN MacroEdge(slot, k, press) ELSE slot
             os == OrderAfter(order, k, down["kbd"], press)
  <2>1. Runtime(slot)
    BY DEF Sound
  <2>2. IsEdged(s, slot)
    BY <2>1, EdgeShape, NoEdge
  <2>3. slot' \in Synced(s, bits, down["kbd"], k)
    BY <1>5 DEF Handle
  <2>4. order' = os
    BY <1>0, <1>5 DEF OrderAfter
  <2>5. k \in KbdKeys \cap Known /\ down' = [down EXCEPT !["kbd"] = bits]
    BY <1>1, <1>5 DEF KeysOf
  <2>6. bits = IF press THEN down["kbd"] \cup {k} ELSE down["kbd"] \ {k}
    BY <1>5
  <2> HIDE DEF s, os, bits, edge
  <2>7. Sound(slot', down', shown', OrderAfter(order, k, down["kbd"], press))
    BY <1>1, <1>5, <2>2, <2>3, <2>5, <2>6, KeyStep
  <2> QED
    BY <2>4, <2>7 DEF os
<1> QED
  BY <1>3, <1>4, <1>5 DEF Devices

\* A pass over what is marked keeps a slot with state in order.
LEMMA MarkedStep ==
    ASSUME Placed, Sound(slot, down, shown, order), Stateful,
           NEW s, Moves(slot, s), Timed(s, slot, shown), Driven(s, down["kbd"]),
           slot' \in Applied(s, down["kbd"], s.dirty), Watch, UNCHANGED <<down, order>>
    PROVE  /\ Sound(slot', down', shown', order')
           /\ IsApplied(slot', s, down["kbd"], s.dirty) /\ Accurate(slot', down["kbd"], AllHolders)
<1> DEFINE bits == down["kbd"]
           sides == {Key(j) : j \in SocdKeys}
<1>1. Runtime(slot) /\ Stated(slot, down) /\ Matched(slot) /\ Runtime(s) /\ Matched(s)
  BY DEF Sound, Timed
<1>2. Composed(slot) /\ Accurate(slot, bits, AllHolders) /\ Settled(slot, bits)
  BY <1>1 DEF Stated
<1> HIDE DEF bits, sides
<1>3. /\ IsApplied(slot', s, bits, s.dirty) /\ Accurate(slot', bits, AllHolders)
      /\ Accurate(slot, bits, sides) => Accurate(slot', bits, sides)
      /\ \A h \in slot'.held : OfMouse(h) => h \in slot.held
  <2>1. PICK t \in Applied(s, bits, s.dirty) : t = slot'
    BY DEF bits
  <2>2. /\ IsApplied(t, s, bits, s.dirty) /\ Accurate(t, bits, AllHolders)
        /\ Accurate(slot, bits, sides) => Accurate(t, bits, sides)
        /\ \A h \in t.held : OfMouse(h) => h \in slot.held
    BY <1>1, <1>2, MarkedShape DEF sides
  <2> QED
    BY <2>1, <2>2
<1>4. /\ Runtime(slot') /\ slot'.dirty = {} /\ Composed(slot')
      /\ slot'.active = s.active /\ slot'.consumed = s.consumed /\ slot'.posWins = s.posWins
      /\ slot'.macro = s.macro /\ slot'.turbo = s.turbo /\ slot'.latch = s.latch
      /\ slot'.timers = s.timers
  BY <1>3 DEF IsApplied
<1>5. s.active = slot.active /\ s.consumed = slot.consumed /\ s.posWins = slot.posWins
  BY DEF Moves
<1>6. Matched(slot')
  BY <1>1, <1>4 DEF Matched
<1>7. Timed(slot', slot, shown)
  BY <1>4, <1>6, TimedOn
<1>8. shown' \in [MacroIds -> Nat] /\ Lasting(slot', shown')
  BY <1>7, Watched DEF Sound
<1>9. Driven(slot', bits)
  BY <1>4, StillDriven DEF bits
<1>10. Ordered(slot', bits, order)
  BY <1>4, <1>5 DEF Ordered, Sound, bits
<1>11. Stated(slot', down)
  <2>1. \A h \in slot'.held : OfMouse(h) => h[2] \in down["mouse"]
    BY <1>1, <1>3 DEF Stated
  <2> QED
    BY <1>2, <1>3, <1>4, <1>5, <2>1 DEF Stated, Settled, bits
<1> QED
  BY <1>3, <1>4, <1>6, <1>8, <1>9, <1>10, <1>11 DEF Sound, bits, sides

\* What is due moves on, and the slot stays in order.
LEMMA TickStep ==
    ASSUME Placed, Sound(slot, down, shown, order), Tick
    PROVE  Sound(slot', down', shown', order') /\ IsApplied(slot', Ticked, down["kbd"], Ticked.dirty)
<1>1. Stateful
  <2> SUFFICES ASSUME ~Stateful PROVE FALSE
    OBVIOUS
  <2>1. MacroIds = {} /\ DOMAIN P.turbo = {}
    BY Stateless
  <2>2. DOMAIN slot.timers = {}
    BY <2>1 DEF Sound, Matched
  <2> QED
    BY <2>2 DEF Tick, Due
<1>2. IsTicked(Ticked)
  BY TickedShape DEF Sound
<1>3. slot' \in Applied(Ticked, down["kbd"], Ticked.dirty) /\ Watch /\ UNCHANGED <<down, order>>
  BY DEF Tick
<1> DEFINE s == Ticked
<1> HIDE DEF s
<1>4. IsTicked(s) /\ slot' \in Applied(s, down["kbd"], s.dirty)
  BY <1>2, <1>3 DEF s
<1>5. Moves(slot, s) /\ Timed(s, slot, shown)
  BY <1>4, TimedNow DEF IsTicked, Sound
<1>6. Driven(s, down["kbd"])
  <2>1. s.active = slot.active /\ s.consumed = slot.consumed
    BY <1>5 DEF Moves
  <2> QED
    BY <1>4, <2>1, StillDriven DEF IsTicked, Sound
<1> QED
  BY <1>1, <1>3, <1>4, <1>5, <1>6, MarkedStep DEF s

\* What has been cancelled leaves nothing to be seen.
LEMMA CancelledTimes ==
    ASSUME Placed, Sound(slot, down, shown, order), NEW s, IsCancelled(s, slot)
    PROVE  Timed(s, slot, shown) /\ \A bits : Driven(s, bits)
  BY DEF IsCancelled, Timed, Lasting, Driven, Sound

\* The escape gesture lets everything go but keys and chords.
LEMMA CancelStep ==
    ASSUME Placed, Sound(slot, down, shown, order), CancelMacros
    PROVE  Sound(slot', down', shown', order') /\ OnlyKeys(slot')
<1> DEFINE s == Cancelled(slot)
<1>1. IsCancelled(s, slot)
  BY CancelledShape DEF Sound
<1>2. Stateful /\ slot' \in Applied(s, down["kbd"], s.dirty) /\ Watch /\ UNCHANGED <<down, order>>
  BY DEF CancelMacros
<1> HIDE DEF s
<1>3. Moves(slot, s) /\ Timed(s, slot, shown) /\ Driven(s, down["kbd"])
  BY <1>1, CancelledTimes DEF IsCancelled
<1>4. /\ Sound(slot', down', shown', order')
      /\ IsApplied(slot', s, down["kbd"], s.dirty) /\ Accurate(slot', down["kbd"], AllHolders)
  BY <1>2, <1>3, MarkedStep
<1>5. /\ Runtime(slot') /\ Matched(slot')
      /\ slot'.macro = s.macro /\ slot'.turbo = s.turbo /\ slot'.latch = s.latch
  BY <1>4 DEF Sound, IsApplied
<1>6. DOMAIN slot'.timers = {} /\ \A h \in Inner : \A bits : ~HoldsNow(slot', bits, h)
  BY <1>1, <1>5, LetGo DEF IsCancelled
<1>7. OnlyKeys(slot')
  BY <1>4, <1>5, <1>6, OnlyKeysHeld
<1> QED
  BY <1>4, <1>7

\* A board that goes takes all but keys and chords of the slot with it.
LEMMA FullStep ==
    ASSUME Placed, Sound(slot, down, shown, order), Stateful, ReleaseDevice("kbd")
    PROVE  Sound(slot', down', shown', order') /\ OnlyKeys(slot')
<1> DEFINE s == Cancelled(slot)
           before == down["kbd"]
<1>0. "kbd" \in Devices /\ "mouse" \in Devices \ {"kbd"}
  BY DEF Devices
<1>1. down["kbd"] \ Known = {}
  BY <1>0 DEF Sound
<1>2. /\ down' = [down EXCEPT !["kbd"] = {}] /\ slot' \in SyncedInFull(s, {}, before)
      /\ Watch /\ order' = {}
  <2>1. down' = [down EXCEPT !["kbd"] = @ \ Known]
    BY DEF ReleaseDevice
  <2> QED
    BY <1>1, <2>1 DEF ReleaseDevice
<1>3. /\ down' \in [Devices -> SUBSET Keys]
      /\ \A e \in Devices : down'[e] \subseteq KeysOf(e) \cap Known
      /\ down'["kbd"] = {} /\ down'["mouse"] = down["mouse"]
  <2>1. {} \subseteq KeysOf("kbd") \cap Known
    OBVIOUS
  <2> QED
    BY <1>0, <1>2, <2>1, DownAfter DEF Sound
<1>4. Runtime(slot) /\ Stated(slot, down) /\ Matched(slot)
  BY DEF Sound
<1>5. Composed(slot)
  BY <1>4 DEF Stated
<1>6. IsCancelled(s, slot)
  BY <1>4, CancelledShape
<1> HIDE DEF s, before
<1>7. Matched(s) /\ Timed(s, slot, shown)
  BY <1>4, <1>6, CancelledTimes DEF IsCancelled
<1>8. InOrder(slot', s, {}, Winner(before, {})) /\ OnlyKeys(slot')
  <2>1. PICK t \in SyncedInFull(s, {}, before) : t = slot'
    BY <1>2
  <2>2. InOrder(t, s, {}, Winner(before, {})) /\ OnlyKeys(t)
    BY <1>4, <1>5, <1>6, <1>7, FullShape
  <2> QED
    BY <2>1, <2>2
<1>9. /\ Runtime(slot') /\ slot'.dirty = {} /\ Matched(slot') /\ Composed(slot')
      /\ Settled(slot', {}) /\ Driven(slot', {}) /\ Accurate(slot', {}, AllHolders)
      /\ \A h \in slot'.held : OfMouse(h) => h \in slot.held
  BY <1>8 DEF InOrder
<1>10. Timed(slot', slot, shown)
  BY <1>7, <1>8, <1>9, TimedOn DEF InOrder
<1>11. shown' \in [MacroIds -> Nat] /\ Lasting(slot', shown')
  BY <1>2, <1>10, Watched DEF Sound
<1>12. Stated(slot', down')
  <2>1. \A h \in slot'.held : OfMouse(h) => h[2] \in down'["mouse"]
    BY <1>3, <1>4, <1>9 DEF Stated
  <2> QED
    BY <1>3, <1>9, <2>1 DEF Stated
<1>13. Ordered(slot', {}, {})
  BY DEF Ordered
<1> QED
  BY <1>2, <1>3, <1>8, <1>9, <1>11, <1>12, <1>13 DEF Sound

\* A board that goes leaves the slot in order.
LEMMA ReleaseStep ==
    ASSUME Placed, Sound(slot, down, shown, order), NEW d \in Devices, ReleaseDevice(d)
    PROVE  /\ Sound(slot', down', shown', order')
           /\ Stateful /\ d = "kbd" => OnlyKeys(slot')
<1> DEFINE ks == down[d] \cap Known
<1>1. down[d] \subseteq KeysOf(d) \cap Known
  BY DEF Sound
<1>2. down[d] \ Known = {}
  BY <1>1
<1>3. down' = [down EXCEPT ![d] = {}] /\ Watch
  <2>1. down' = [down EXCEPT ![d] = @ \ Known]
    BY DEF ReleaseDevice
  <2> QED
    BY <1>2, <2>1 DEF ReleaseDevice
<1>4. CASE ~Stateful
  <2>1. slot' \in Plain({}, ks, FALSE) /\ order' \in {order, {}}
    BY <1>2, <1>4 DEF ReleaseDevice
  <2>2. {} \subseteq KeysOf(d) \cap Known /\ ks \in SUBSET Keys /\ down[d] \subseteq {} \cup ks
    BY <1>1 DEF KeysOf, Keys
  <2> HIDE DEF ks
  <2>3. order = {} /\ Sound(slot', down', shown', {})
    BY <1>3, <1>4, <2>1, <2>2, PlainStep
  <2> QED
    BY <1>4, <2>1, <2>3
<1>5. CASE Stateful /\ d = "mouse"
  <2>1. slot' \in Applied(slot, {}, {Key(k) : k \in ks}) /\ order' = order
    BY <1>5 DEF ReleaseDevice
  <2>2. /\ {} \subseteq KeysOf("mouse") \cap Known /\ ks \in SUBSET MouseKeys
        /\ down["mouse"] \subseteq {} \cup ks /\ down' = [down EXCEPT !["mouse"] = {}]
    BY <1>1, <1>3, <1>5 DEF KeysOf
  <2> HIDE DEF ks
  <2>3. Sound(slot', down', shown', order)
    BY <1>3, <1>5, <2>1, <2>2, MouseStep
  <2> QED
    BY <1>5, <2>1, <2>3
<1>6. CASE Stateful /\ d = "kbd"
  BY <1>6, FullStep
<1> QED
  BY <1>4, <1>5, <1>6 DEF Devices

\* Time that passes leaves the slot in order.
LEMMA ElapseStep ==
    ASSUME Placed, Sound(slot, down, shown, order), Elapse
    PROVE  Sound(slot', down', shown', order')
<1> DEFINE run(m) == Aged(slot.macro[m])
<1>1. Runtime(slot) /\ Matched(slot) /\ slot.dirty = {} /\ Lasting(slot, shown) /\ shown \in [MacroIds -> Nat]
  BY DEF Sound
<1>2. /\ slot' = [slot EXCEPT !.timers = [i \in DOMAIN slot.timers |-> slot.timers[i] - 1],
                              !.macro = [m \in DOMAIN slot.macro |-> run(m)]]
      /\ shown' = [m \in MacroIds |-> IF Alive(slot.macro[m]) THEN shown[m] + 1 ELSE 0]
      /\ UNCHANGED <<down, order>>
  BY DEF Elapse
<1>3. DOMAIN slot.macro = MacroIds /\ \A m \in MacroIds : IsRun(m, slot.macro[m])
  BY <1>1 DEF Runtime
<1>4. \A m \in MacroIds : /\ IsRun(m, run(m)) /\ run(m).step = slot.macro[m].step
                          /\ run(m).gapping = slot.macro[m].gapping
  BY <1>3 DEF IsRun, RunType, Aged
<1> HIDE DEF run
<1>5. /\ slot'.held = slot.held /\ slot'.active = slot.active /\ slot'.consumed = slot.consumed
      /\ slot'.posWins = slot.posWins /\ slot'.turbo = slot.turbo /\ slot'.latch = slot.latch
      /\ slot'.dirty = slot.dirty /\ slot'.sign = slot.sign /\ slot'.pad = slot.pad
      /\ DOMAIN slot'.timers = DOMAIN slot.timers
      /\ \A i \in DOMAIN slot.timers : slot'.timers[i] = slot.timers[i] - 1
      /\ DOMAIN slot'.macro = MacroIds /\ \A m \in MacroIds : slot'.macro[m] = run(m)
  BY <1>1, <1>2, <1>3 DEF Runtime
<1>6. Runtime(slot')
  <2>1. slot'.macro \in [MacroIds -> RunType]
    BY <1>2, <1>3, <1>4 DEF IsRun, Runtime
  <2>2. PICK D \in SUBSET TimerIds : slot.timers \in [D -> Int]
    BY <1>1 DEF Runtime
  <2>3. slot'.timers \in [D -> Int]
    BY <1>1, <1>2, <2>2 DEF Runtime
  <2>4. slot'.timers \in UNION {[E -> Int] : E \in SUBSET TimerIds}
    BY <2>2, <2>3
  <2>5. slot' = [slot EXCEPT !.timers = slot'.timers, !.macro = slot'.macro]
    BY <1>1, <1>2 DEF Runtime
  <2> QED
    BY <1>1, <1>4, <1>5, <2>1, <2>4, <2>5 DEF Runtime
<1>7. \A m \in MacroIds : Alive(slot'.macro[m]) <=> Alive(slot.macro[m])
  BY <1>4, <1>5 DEF Alive
<1>8. Matched(slot')
  BY <1>1, <1>5, <1>7 DEF Matched
<1>9. ASSUME NEW h \in Holders, NEW a
      PROVE  HoldsNow(slot', a, h) <=> HoldsNow(slot, a, h)
  <2>1. CASE \E m \in MacroIds : \E i \in DOMAIN P.macro[m].steps : h = Step(m, i)
    <3>1. PICK m \in MacroIds : \E i \in DOMAIN P.macro[m].steps : h = Step(m, i)
      BY <2>1
    <3>2. h[1] = "step" /\ h[2] = m
      BY <3>1, Kinds
    <3> QED
      BY <1>4, <1>5, <3>2 DEF HoldsNow
  <2>2. CASE h[1] # "step"
    BY <1>5, <2>2 DEF HoldsNow
  <2> QED
    BY <2>1, <2>2, HolderForms, Kinds
<1>10. Driven(slot', down["kbd"])
  BY <1>5, StillDriven DEF Sound
<1>11. shown' \in [MacroIds -> Nat] /\ Lasting(slot', shown')
  <2>1. shown' \in [MacroIds -> Nat]
    BY <1>1, <1>2
  <2>2. ASSUME NEW m \in MacroIds, Alive(slot'.macro[m])
        PROVE  shown'[m] + slot'.timers[MacroTimer(m)] >= Least(m, slot'.macro[m])
    <3>1. Alive(slot.macro[m]) /\ MacroTimer(m) \in DOMAIN slot.timers
      BY <1>1, <1>7, <2>2, AliveIsArmed
    <3>2. slot.timers[MacroTimer(m)] \in Int
      BY <1>1, <3>1, TimersAreTimes
    <3>3. shown[m] + slot.timers[MacroTimer(m)] >= Least(m, slot.macro[m])
      BY <1>1, <3>1 DEF Lasting
    <3>4. shown'[m] = shown[m] + 1 /\ slot'.timers[MacroTimer(m)] = slot.timers[MacroTimer(m)] - 1
      BY <1>2, <1>5, <3>1
    <3>5. Least(m, slot'.macro[m]) = Least(m, slot.macro[m])
      BY <1>4, <1>5 DEF Least
    <3>6. shown[m] \in Nat
      BY <1>1
    <3> QED
      BY <3>2, <3>3, <3>4, <3>5, <3>6
  <2> QED
    BY <2>1, <2>2 DEF Lasting
<1>12. ASSUME NEW hs \in SUBSET Holders, NEW a, Accurate(slot, a, hs) PROVE Accurate(slot', a, hs)
  BY <1>5, <1>9, <1>12 DEF Accurate
<1>13. /\ Stated(slot, down) => Stated(slot', down)
       /\ Shows(slot, down["kbd"] \cup down["mouse"]) => Shows(slot', down["kbd"] \cup down["mouse"])
  <2>1. AllHolders \in SUBSET Holders
    BY Members
  <2> QED
    BY <1>5, <1>12, <2>1 DEF Stated, Composed, Settled, Shows
<1>14. Ordered(slot', down["kbd"], order)
  BY <1>5 DEF Ordered, Sound
<1>15. {Key(k) : k \in SocdKeys} \in SUBSET Holders
  BY Members, Sides
<1> QED
  BY <1>1, <1>2, <1>5, <1>6, <1>8, <1>10, <1>11, <1>12, <1>13, <1>14, <1>15 DEF Sound

\* A slot as its preset is put in place.
Blanked ==
    /\ Placed /\ down = [d \in Devices |-> {}] /\ slot = Blank(name)
    /\ shown = Silent(name) /\ order = {}

\* A slot starts in order.
LEMMA BlankIsSound == Blanked => IInv
<1> SUFFICES ASSUME Blanked PROVE Sound(slot, down, shown, order)
  BY DEF Blanked, IInv
<1>1. Placed /\ down = [d \in Devices |-> {}] /\ shown = [m \in MacroIds |-> 0] /\ order = {}
  BY DEF Blanked, Silent, MacroIds, P
<1>2. slot = [held |-> {}, active |-> {}, consumed |-> {}, posWins |-> FALSE,
              macro |-> [m \in MacroIds |-> Idle],
              turbo |-> [b \in DOMAIN P.turbo |-> [running |-> FALSE, on |-> FALSE]],
              latch |-> [b \in P.toggle |-> [latched |-> FALSE, was |-> FALSE]],
              timers |-> [i \in {} |-> 0], dirty |-> {}, sign |-> 0, pad |-> Neutral]
  BY DEF Blanked, Blank, MacroIds, P
<1>3. \A m \in MacroIds : IsRun(m, slot.macro[m]) /\ slot.macro[m] \in RunType /\ ~Alive(slot.macro[m])
  BY <1>1, <1>2, PlainRuns DEF IsRun
<1>4. Runtime(slot)
  <2>1. slot.timers \in UNION {[D -> Int] : D \in SUBSET TimerIds}
    <3>1. slot.timers \in [{} -> Int] /\ {} \in SUBSET TimerIds
      BY <1>2
    <3> QED
      BY <3>1
  <2>2. slot.macro \in [MacroIds -> RunType]
    BY <1>2, <1>3
  <2>3. slot.pad \in [on : SUBSET Controls, x : Int] /\ slot.sign \in -1..1
    BY <1>2 DEF Neutral
  <2>4. slot = [held |-> slot.held, active |-> slot.active, consumed |-> slot.consumed,
                posWins |-> slot.posWins, macro |-> slot.macro, turbo |-> slot.turbo,
                latch |-> slot.latch, timers |-> slot.timers, dirty |-> slot.dirty,
                sign |-> slot.sign, pad |-> slot.pad]
    BY <1>2
  <2>5. /\ slot.held = {} /\ slot.active = {} /\ slot.consumed = {} /\ slot.posWins = FALSE
        /\ slot.dirty = {}
        /\ slot.turbo \in [DOMAIN P.turbo -> [running : BOOLEAN, on : BOOLEAN]]
        /\ slot.latch \in [P.toggle -> [latched : BOOLEAN, was : BOOLEAN]]
    BY <1>2
  <2> QED
    BY <1>3, <2>1, <2>2, <2>3, <2>4, <2>5 DEF Runtime
<1>5. /\ \A m \in MacroIds : ~Alive(slot.macro[m])
      /\ \A b \in DOMAIN P.turbo : ~slot.turbo[b].running
      /\ \A b \in P.toggle : ~slot.latch[b].latched
      /\ slot.held = {} /\ slot.active = {} /\ slot.consumed = {} /\ slot.posWins = FALSE
      /\ slot.dirty = {} /\ DOMAIN slot.timers = {} /\ slot.pad = Neutral
  BY <1>2, <1>3
<1>6. Matched(slot)
  BY <1>5 DEF Matched
<1>7. Active({}) = {}
  BY <1>1, NothingActive, TablesSay DEF Active
<1>8. ByChords({}) = {}
  BY <1>7 DEF ByChords
<1>9. Driving({}) # {-1, 1}
  BY <1>8 DEF Driving
<1>10. Settled(slot, {})
  BY <1>5, <1>7, <1>8, <1>9 DEF Settled, Consumed
<1>11. \A h \in Inner : \A bits : ~HoldsNow(slot, bits, h)
  BY <1>1, <1>4, <1>5, <1>6, LetGo
<1>12. \A h \in Holders : ~HoldsNow(slot, {}, h)
  <2> SUFFICES ASSUME NEW h \in Holders PROVE ~HoldsNow(slot, {}, h)
    OBVIOUS
  <2>1. CASE h \in Inner
    BY <1>11, <2>1
  <2>2. CASE h[1] = "key" \/ h[1] = "chord"
    BY <1>5, <2>2 DEF HoldsNow
  <2> QED
    BY <1>1, <2>1, <2>2, HolderForms, Kinds DEF Inner
<1>13. Composed(slot)
  <2>1. Demands({}) = {}
    BY DEF Demands
  <2>2. Pressed({}) = {} /\ Leanings({}) = {}
    BY <2>1 DEF Pressed, Leanings
  <2> QED
    BY <1>5, <2>2, DeflectionNone DEF Composed, Neutral
<1>14. Accurate(slot, {}, AllHolders)
  BY <1>1, <1>5, <1>12, Members DEF Accurate
<1>15. "kbd" \in Devices
  BY DEF Devices
<1>16. Stated(slot, down)
  BY <1>1, <1>5, <1>10, <1>13, <1>14, <1>15 DEF Stated
<1>17. Shows(slot, down["kbd"] \cup down["mouse"])
  BY <1>5 DEF Shows, Neutral
<1>18. /\ Driven(slot, down["kbd"]) /\ Lasting(slot, shown) /\ shown \in [MacroIds -> Nat]
       /\ Ordered(slot, down["kbd"], order)
  BY <1>1, <1>5 DEF Driven, Lasting, Ordered
<1> QED
  BY <1>1, <1>4, <1>5, <1>6, <1>16, <1>17, <1>18 DEF Sound

-----------------------------------------------------------------------------
(* The theorems. *)

\* The invariant holds in every state: the slot is in order whatever keys,
\* boards, wakes, cancellations and edits come.
THEOREM Inductive == Spec => []IInv
<1>1. Init => IInv
  BY BlankIsSound DEF Init, Blanked, Placed
<1>2. IInv /\ [Next]_vars => IInv'
  <2> SUFFICES ASSUME IInv, [Next]_vars PROVE IInv'
    OBVIOUS
  <2>1. Placed /\ Sound(slot, down, shown, order)
    BY DEF IInv
  <2>2. ASSUME NEW d \in Devices, NEW k \in Keys, NEW press \in BOOLEAN, Handle(d, k, press)
        PROVE  IInv'
    <3>1. UNCHANGED <<name, tables>>
      BY <2>2 DEF Handle
    <3> QED
      BY <2>1, <2>2, <3>1, HandleStep, Enough
  <2>3. ASSUME NEW d \in Devices, ReleaseDevice(d) PROVE IInv'
    <3>1. UNCHANGED <<name, tables>>
      BY <2>3 DEF ReleaseDevice
    <3> QED
      BY <2>1, <2>3, <3>1, ReleaseStep, Enough
  <2>4. CASE Tick
    <3>1. UNCHANGED <<name, tables>>
      BY <2>4 DEF Tick
    <3> QED
      BY <2>1, <2>4, <3>1, TickStep, Enough
  <2>5. CASE CancelMacros
    <3>1. UNCHANGED <<name, tables>>
      BY <2>5 DEF CancelMacros
    <3> QED
      BY <2>1, <2>5, <3>1, CancelStep, Enough
  <2>6. CASE Elapse
    <3>1. UNCHANGED <<name, tables>>
      BY <2>6 DEF Elapse
    <3> QED
      BY <2>1, <2>6, <3>1, ElapseStep, Enough
  <2>7. ASSUME NEW n \in Names, SwapTables(n) PROVE IInv'
    <3>1. Blanked'
      BY <2>7 DEF SwapTables, Blanked, Placed, P
    <3>2. Blanked' => IInv'
      BY BlankIsSound, PTL
    <3> QED
      BY <3>1, <3>2
  <2>8. CASE UNCHANGED vars
    BY <2>1, <2>8, Enough DEF vars
  <2> QED
    BY <2>2, <2>3, <2>4, <2>5, <2>6, <2>7, <2>8 DEF Next
<1> QED
  BY <1>1, <1>2, PTL DEF Spec

\* A list of deadlines without an entry is empty.
LEMMA NoTimers ==
    ASSUME NEW s, Runtime(s), DOMAIN s.timers = {}
    PROVE  s.timers = <<>>
<1>1. PICK D \in SUBSET TimerIds : s.timers \in [D -> Int]
  BY DEF Runtime
<1>2. s.timers \in [{} -> Int]
  BY <1>1
<1>3. s.timers \in Seq(Int) /\ Len(s.timers) = 0
  BY <1>2, 1..0 = {}
<1> QED
  BY <1>3, EmptySeq

\* Every state is well typed, each run has its one deadline and each deadline its
\* run, and with every key up, no macro under way and no latch on the pad is
\* neutral and nothing is armed.
THEOREM BookkeepingHolds == Spec => []Bookkeeping
<1>1. IInv => Bookkeeping
  <2> SUFFICES ASSUME IInv PROVE Bookkeeping
    OBVIOUS
  <2>1. Placed /\ Sound(slot, down, shown, order)
    BY DEF IInv
  <2>2. Runtime(slot) /\ Matched(slot) /\ slot.dirty = {}
    BY <2>1 DEF Sound
  <2>3. TypeOK
    <3>1. /\ slot.held \subseteq Holders /\ slot.active \subseteq ChordIds
          /\ slot.consumed \subseteq Keys /\ slot.posWins \in BOOLEAN
          /\ slot.macro \in [MacroIds -> RunType]
          /\ slot.turbo \in [DOMAIN P.turbo -> [running : BOOLEAN, on : BOOLEAN]]
          /\ slot.latch \in [P.toggle -> [latched : BOOLEAN, was : BOOLEAN]]
          /\ slot.sign \in -1..1 /\ slot.pad.on \subseteq Controls /\ slot.pad.x \in Int
      BY <2>2 DEF Runtime
    <3>2. \A m \in MacroIds : /\ slot.macro[m].step <= Len(P.macro[m].steps)
                              /\ slot.macro[m].gapping => slot.macro[m].step = 0
      BY <2>2 DEF Runtime, IsRun
    <3>3. \A i \in DOMAIN slot.timers : slot.timers[i] \in Int
      BY <2>2, TimersAreTimes
    <3>4. \A d \in Devices : down[d] \subseteq KeysOf(d)
      BY <2>1 DEF Sound
    <3> QED
      BY <2>1, <2>2, <3>1, <3>2, <3>3, <3>4 DEF TypeOK, Placed, Sound, RunType
  <2>4. TimersMatchRuns
    BY <2>2 DEF Matched, TimersMatchRuns, MacroTimer, TurboTimer
  <2>5. NeutralAtRest
    <3> SUFFICES ASSUME \A d \in Devices : down[d] = {},
                        \A m \in MacroIds : ~Alive(slot.macro[m]),
                        \A b \in P.toggle : ~slot.latch[b].latched
                 PROVE  slot.pad = Neutral /\ slot.timers = <<>>
      BY DEF NeutralAtRest
    <3>1. down["kbd"] = {} /\ down["mouse"] = {}
      BY DEF Devices
    <3>2. slot.pad = [on |-> slot.pad.on, x |-> slot.pad.x]
      BY <2>2 DEF Runtime
    <3>3. DOMAIN slot.timers = {} => slot.timers = <<>>
      BY <2>2, NoTimers
    <3>4. CASE Stateful
      <4>1. Stated(slot, down) /\ Driven(slot, {})
        BY <2>1, <3>1, <3>4 DEF Sound
      <4>2. Composed(slot) /\ Accurate(slot, {}, AllHolders) /\ Settled(slot, {})
        BY <3>1, <4>1 DEF Stated
      <4>3. /\ \A k : ~HoldsNow(slot, {}, Key(k)) /\ \A c : ~HoldsNow(slot, {}, Chord(c))
        BY <2>1, <4>2, NothingDown
      <4>4. \A b \in P.toggle : ~HoldsNow(slot, {}, Toggle(b))
        BY HoldsBy
      <4>5. ASSUME NEW b \in DOMAIN P.turbo PROVE ~slot.turbo[b].running
        <5>1. \A h \in TurboSources(b) : ~HoldsNow(slot, {}, h)
          BY <2>1, <4>3, <4>4, SourceForms
        <5> QED
          BY <4>1, <5>1 DEF Driven, HoldsAny
      <4>6. DOMAIN slot.timers = {} /\ \A h \in Inner : \A bits : ~HoldsNow(slot, bits, h)
        BY <2>1, <2>2, <4>5, LetGo
      <4>7. ASSUME NEW h \in slot.held PROVE Drives(h) = {}
        <5>1. h \in Holders
          BY <3>4, <2>2 DEF Runtime
        <5>2. ~OfMouse(h)
          BY <3>1, <4>1 DEF Stated
        <5>3. ~HoldsNow(slot, {}, h)
          BY <2>1, <4>3, <4>6, <5>1, HolderForms, Members
        <5>4. h \notin AllHolders
          BY <4>2, <5>2, <5>3 DEF Accurate
        <5> QED
          BY <5>1, <5>4 DEF AllHolders
      <4>8. Pressed(slot.held) = {} /\ Leanings(slot.held) = {}
        BY <4>7 DEF Pressed, Leanings, Demands
      <4>9. slot.pad.on = {} /\ slot.pad.x = 0
        BY <4>2, <4>8, DeflectionNone DEF Composed
      <4> QED
        BY <3>2, <3>3, <4>6, <4>9 DEF Neutral
    <3>5. CASE ~Stateful
      <4>1. DOMAIN slot.timers = {}
        BY <2>1, <2>2, <3>5, Stateless DEF Matched
      <4>2. Shows(slot, {})
        BY <2>1, <3>1, <3>5 DEF Sound
      <4>3. slot.pad.on = {} /\ slot.pad.x = 0
        BY <4>2 DEF Shows, Pressed, Leanings, Demands
      <4> QED
        BY <3>2, <3>3, <4>1, <4>3 DEF Neutral
    <3> QED
      BY <3>4, <3>5
  <2> QED
    BY <2>3, <2>4, <2>5 DEF Bookkeeping
<1> QED
  BY <1>1, Inductive, PTL

\* The pad, which the engine changes one control at a time, is what all that
\* holds right now demands of it, whatever presets, keys, runs and late wakes.
THEOREM NothingIsStuck == Spec => []PadIsCurrent
<1>1. IInv => PadIsCurrent
  <2> SUFFICES ASSUME IInv PROVE PadIsCurrent
    OBVIOUS
  <2>1. Placed /\ Sound(slot, down, shown, order)
    BY DEF IInv
  <2>2. Runtime(slot) /\ "kbd" \in Devices
    BY <2>1 DEF Sound, Devices
  <2>3. CASE Stateful
    <3>1. /\ Composed(slot) /\ Accurate(slot, down["kbd"], AllHolders)
          /\ \A h \in slot.held : OfMouse(h) => h[2] \in down["mouse"]
      BY <2>1, <2>3 DEF Sound, Stated
    <3>2. down["kbd"] \cap MouseKeys = {}
      BY <2>1, <2>2, KeysAssumption DEF Sound, KeysOf
    <3>3. \A h : OfMouse(h) => ~HoldsNow(slot, down["kbd"], h)
      BY <3>2 DEF OfMouse, HoldsNow
    <3>4. MouseHeld = {h \in slot.held : OfMouse(h)}
      BY DEF MouseHeld, OfMouse
    <3>5. HeldNow \subseteq slot.held
      BY <3>1, <3>3, <3>4 DEF HeldNow, Accurate
    <3>6. ASSUME NEW h \in slot.held, h \notin HeldNow PROVE Drives(h) = {}
      <4>1. h \in Holders
        BY <2>2 DEF Runtime
      <4>2. ~OfMouse(h)
        BY <3>4, <3>6 DEF HeldNow
      <4>3. h \notin AllHolders
        BY <3>1, <3>6, <4>2 DEF Accurate, HeldNow
      <4> QED
        BY <4>1, <4>3 DEF AllHolders
    <3>7. Demands(slot.held) = Demands(HeldNow)
      BY <3>5, <3>6 DEF Demands
    <3>8. Pressed(slot.held) = Pressed(HeldNow) /\ Leanings(slot.held) = Leanings(HeldNow)
      BY <3>7 DEF Pressed, Leanings
    <3> QED
      BY <2>3, <3>1, <3>4, <3>8 DEF PadIsCurrent, Composed
  <2>4. CASE ~Stateful
    BY <2>1, <2>4 DEF PadIsCurrent, Sound, Shows
  <2> QED
    BY <2>3, <2>4
<1> QED
  BY <1>1, Inductive, PTL

\* While both keys of an axis are down, the one that went down last has it, or
\* the one that went down first where the preset says so.
THEOREM OrderIsKept == Spec => []OrderDecides
<1>1. IInv => OrderDecides
  <2> SUFFICES ASSUME IInv, NEW o \in order, SocdKeys = {o[1], o[2]}, SocdKeys \cap ChordKeys = {}
               PROVE  LET winner == IF P.socd = "last" THEN o[2] ELSE o[1]
                      IN  SocdKeys \cap {k \in KbdKeys : Key(k) \in slot.held} = {winner}
    BY DEF OrderDecides
  <2> DEFINE winner == IF P.socd = "last" THEN o[2] ELSE o[1]
             bits == down["kbd"]
  <2>1. Placed /\ Sound(slot, down, shown, order) /\ "kbd" \in Devices
    BY DEF IInv, Devices
  <2>2. Runtime(slot) /\ Ordered(slot, bits, order) /\ Accurate(slot, bits, {Key(k) : k \in SocdKeys})
    BY <2>1 DEF Sound
  <2>3. /\ o[1] # o[2] /\ {o[1], o[2]} \subseteq SocdKeys \cap bits
        /\ slot.posWins <=> winner \in Side(1)
    BY <2>2 DEF Ordered, Opponents
  <2>4. Contest(o, bits)
    BY <2>1, <2>3, ContestOf DEF Opponents
  <2>5. Driving(bits) = {-1, 1}
    BY <2>3, <2>4 DEF Contest
  <2>6. Stateful
    BY <2>4 DEF Stateful, HasSocd, Contest
  <2>7. slot.consumed = ByChords(bits) \cup Side(IF slot.posWins THEN -1 ELSE 1)
    BY <2>1, <2>5, <2>6 DEF Sound, Stated, Settled, Consumed
  <2>8. ByChords(bits) \cap SocdKeys = {}
    BY <2>1, ConsumedType
  <2>9. bits \subseteq KbdKeys
    BY <2>1 DEF Sound, KeysOf
  <2>10. ASSUME NEW k \in SocdKeys
         PROVE  k \in KbdKeys /\ (Key(k) \in slot.held <=> k \notin slot.consumed)
    <3>1. k \in bits /\ k \in KbdKeys
      BY <2>3, <2>9
    <3>2. ~OfMouse(Key(k))
      BY <3>1, Kinds, KeysAssumption DEF OfMouse
    <3>3. Key(k) \in slot.held <=> HoldsNow(slot, bits, Key(k))
      BY <2>2, <3>2 DEF Accurate
    <3> QED
      BY <3>1, <3>3, HoldsBy
  <2>11. \A k \in SocdKeys : k \notin slot.consumed <=> k = winner
    BY <2>3, <2>4, <2>7, <2>8 DEF Contest
  <2> QED
    BY <2>3, <2>10, <2>11
<1> QED
  BY <1>1, Inductive, PTL

\* The clock takes a macro off a step only after the game could have sampled it,
\* and out of a gap only after the gap was there to see.
THEOREM StepsAreShown == Spec => StepsAreSeen
<1>1. IInv /\ Tick => \A m \in MacroIds :
          slot'.macro[m] # slot.macro[m] =>
              shown[m] >= IF slot.macro[m].gapping THEN P.macro[m].gap
                          ELSE P.macro[m].steps[slot.macro[m].step].min
  <2> SUFFICES ASSUME IInv, Tick, NEW m \in MacroIds, slot'.macro[m] # slot.macro[m]
               PROVE  shown[m] >= Least(m, slot.macro[m])
    BY DEF Least
  <2>1. Placed /\ Sound(slot, down, shown, order)
    BY DEF IInv
  <2>2. Runtime(slot) /\ Matched(slot) /\ Lasting(slot, shown) /\ shown \in [MacroIds -> Nat]
    BY <2>1 DEF Sound
  <2>3. slot'.macro = Ticked.macro
    BY <2>1, TickStep DEF IsApplied
  <2>4. MacroTimer(m) \in Due
    BY <2>1, <2>2, <2>3, TickedShape DEF IsTicked
  <2>5. MacroTimer(m) \in DOMAIN slot.timers /\ slot.timers[MacroTimer(m)] <= 0
    BY <2>4 DEF Due
  <2>6. Alive(slot.macro[m])
    BY <2>2, <2>5, AliveIsArmed
  <2>7. shown[m] + slot.timers[MacroTimer(m)] >= Least(m, slot.macro[m])
    BY <2>2, <2>6 DEF Lasting
  <2>8. slot.timers[MacroTimer(m)] \in Int /\ shown[m] \in Int
    BY <2>2, <2>5, TimersAreTimes
  <2>9. Least(m, slot.macro[m]) \in Int
    BY <2>1, <2>2, <2>6, TimeLeftType DEF Runtime
  <2> QED
    BY <2>5, <2>7, <2>8, <2>9
<1> QED
  BY <1>1, Inductive, PTL DEF Spec, StepsAreSeen

\* The escape gesture, the loss of the panel and an edit leave nothing armed and
\* nothing driven but by keys and chords.
THEOREM ExitsRelease == Spec => ExitsLetGo
<1> DEFINE Left == slot'.timers = <<>> /\ \A h \in slot'.held : h[1] \in {"key", "chord"}
           Exit == CancelMacros \/ (Stateful /\ ReleaseDevice("kbd"))
                   \/ \E n \in Names : SwapTables(n)
<1>1. IInv /\ IInv' /\ Exit => Left
  <2> SUFFICES ASSUME IInv, IInv', Exit PROVE Left
    OBVIOUS
  <2>1. Placed /\ Sound(slot, down, shown, order) /\ "kbd" \in Devices
    BY DEF IInv, Devices
  <2>2. CASE CancelMacros \/ (Stateful /\ ReleaseDevice("kbd"))
    <3>1. Sound(slot', down', shown', order') /\ OnlyKeys(slot')
      BY <2>1, <2>2, CancelStep, FullStep
    <3>2. slot'.timers = <<>>
      BY <3>1, NoTimers DEF Sound, OnlyKeys
    <3> QED
      BY <3>1, <3>2 DEF OnlyKeys
  <2>3. CASE \E n \in Names : SwapTables(n)
    <3>1. PICK n \in Names : SwapTables(n)
      BY <2>3
    <3>2. slot'.held = {} /\ slot'.timers = [i \in {} |-> 0]
      BY <3>1 DEF SwapTables, Blank
    <3>3. [i \in {} |-> 0] = <<>>
      <4>1. [i \in {} |-> 0] \in Seq(Int) /\ Len([i \in {} |-> 0]) = 0
        BY 1..0 = {}
      <4> QED
        BY <4>1, EmptySeq
    <3> QED
      BY <3>2, <3>3
  <2> QED
    BY <2>2, <2>3
<1>2. IInv /\ IInv' /\ [Next]_vars => [Left \/ ~Exit]_vars
  BY <1>1
<1> QED
  BY <1>2, Inductive, PTL DEF Spec, ExitsLetGo
=============================================================================
