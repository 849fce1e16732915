--------------------------- MODULE EscapeDetector ---------------------------
(***************************************************************************)
(* The emergency-gesture detector of ksx-core (src/crates/ksx-core/src/    *)
(* escape.rs).  A capture thread feeds it every keystroke of every board   *)
(* it owns; it reports                                                     *)
(*   "Left"   threshold press+release cycles of LeftControl                *)
(*   "Right"  the same for RightControl                                    *)
(*   "Stop"   Ctrl, Alt and Del held together on one board.                *)
(*                                                                         *)
(* The environment is a set of physical boards.  A held key may repeat     *)
(* (autorepeat), a board may be unplugged with keys held, and the capture  *)
(* thread learns of the removal only at its next idle rescan.              *)
(***************************************************************************)
EXTENDS Integers, Sequences, FiniteSets

CONSTANTS
    Keyboards,      \* keyboards feeding one capture thread
    LeftControl, RightControl,  \* the two escape keys
    Alt, Del,       \* one key of each of the other two modifier classes
    Other,          \* any key with no role in a gesture
    Threshold,      \* press+release cycles of a sequence gesture (5 in ksx)
    MaxEvents       \* bound on the length of the recorded trace

ASSUME ThresholdAssumption == Threshold \in Nat
ASSUME BoundAssumption == MaxEvents \in Nat
ASSUME EscapeKeysAssumption == LeftControl # RightControl

AllKeys == {LeftControl, RightControl, Alt, Del, Other}
ModKeys == {LeftControl, RightControl, Alt, Del}

VARIABLES
    mods,       \* per board: the modifier keys the detector believes held
    count,      \* the four sequence counters
    attached,   \* boards on the machine
    pressed,    \* per board: the keys physically held
    stale,      \* ghost: boards removed and not forgotten since
    trace       \* ghost: every event so far and what it fired

detectorVars == <<mods, count, attached, pressed, stale, trace>>

-----------------------------------------------------------------------------
Zero == [leftDown |-> 0, leftUp |-> 0, rightDown |-> 0, rightUp |-> 0]

\* The constructor clamps the threshold: 0 would fire on every event.
Needed == IF Threshold = 0 THEN 1 ELSE Threshold

\* Mutant of ModsAfter: releases are missed.
ModsAfterPress(b, k, down) == IF k \in ModKeys THEN mods[b] \cup {k} ELSE mods[b]

ModsAfter(b, k, down) ==
    IF k \notin ModKeys THEN mods[b]
    ELSE IF down THEN mods[b] \cup {k} ELSE mods[b] \ {k}

IsCombo(held) == held \cap {LeftControl, RightControl} # {} /\ {Alt, Del} \subseteq held

Counted(k, down) ==
    CASE k = LeftControl /\ down  -> [count EXCEPT !.leftDown = @ + 1]
      [] k = LeftControl /\ ~down -> [count EXCEPT !.leftUp = @ + 1]
      [] k = RightControl /\ down  -> [count EXCEPT !.rightDown = @ + 1]
      [] k = RightControl /\ ~down -> [count EXCEPT !.rightUp = @ + 1]
      [] OTHER              -> Zero

\* Mutant of LeftDone: only presses count.
LeftDoneOnPresses(c) == c.leftDown >= Needed

LeftDone(c) == c.leftDown >= Needed /\ c.leftUp >= Needed
RightDone(c) == c.rightDown >= Needed /\ c.rightUp >= Needed

\* What one event fires: the combo is looked at first, and a key that is not
\* an escape key can fire nothing else.
Fires(b, k, down) ==
    IF IsCombo(ModsAfter(b, k, down)) THEN "Stop"
    ELSE IF k \notin {LeftControl, RightControl} THEN "None"
    ELSE IF LeftDone(Counted(k, down)) THEN "Left"
    ELSE IF RightDone(Counted(k, down)) THEN "Right"
    ELSE "None"

Observe(b, k, down) ==
    /\ mods' = [mods EXCEPT ![b] = ModsAfter(b, k, down)]
    /\ count' = IF Fires(b, k, down) = "None" THEN Counted(k, down) ELSE Zero
    /\ trace' = Append(trace, [board |-> b, key |-> k, down |-> down,
                               fired |-> Fires(b, k, down)])

-----------------------------------------------------------------------------
DetectorInit ==
    /\ mods = [b \in Keyboards |-> {}]
    /\ count = Zero
    /\ attached = Keyboards
    /\ pressed = [b \in Keyboards |-> {}]
    /\ stale = {}
    /\ trace = <<>>

\* A key goes down, or autorepeats: both are down events on the wire.
Press(b, k) ==
    /\ Len(trace) < MaxEvents
    /\ b \in attached
    /\ Observe(b, k, TRUE)
    /\ pressed' = [pressed EXCEPT ![b] = @ \cup {k}]
    /\ UNCHANGED <<attached, stale>>

Release(b, k) ==
    /\ Len(trace) < MaxEvents
    /\ b \in attached /\ k \in pressed[b]
    /\ Observe(b, k, FALSE)
    /\ pressed' = [pressed EXCEPT ![b] = @ \ {k}]
    /\ UNCHANGED <<attached, stale>>

\* The board leaves with its keys held; a removal produces no stroke.
Detach(b) ==
    /\ Len(trace) < MaxEvents
    /\ b \in attached
    /\ attached' = attached \ {b}
    /\ pressed' = [pressed EXCEPT ![b] = {}]
    /\ stale' = stale \cup {b}
    /\ UNCHANGED <<mods, count, trace>>

\* The same board (same hardware id) comes back.
Reattach(b) ==
    /\ b \notin attached
    /\ attached' = attached \cup {b}
    /\ UNCHANGED <<mods, count, pressed, stale, trace>>

\* forget_device, called by the idle rescan for a board that is gone.
Forget(b) ==
    /\ b \notin attached
    /\ mods' = [mods EXCEPT ![b] = {}]
    /\ stale' = stale \ {b}
    /\ UNCHANGED <<count, attached, pressed, trace>>

Keystroke == \E b \in Keyboards, k \in AllKeys : Press(b, k) \/ Release(b, k)
Hotplug == \E b \in Keyboards : Detach(b) \/ Reattach(b) \/ Forget(b)

DetectorNext == Keystroke \/ Hotplug

DetectorSpec == DetectorInit /\ [][DetectorNext]_detectorVars

-----------------------------------------------------------------------------
Counters == [leftDown : Nat, leftUp : Nat, rightDown : Nat, rightUp : Nat]

DetectorTypeOK ==
    /\ mods \in [Keyboards -> SUBSET ModKeys]
    /\ count \in Counters
    /\ attached \subseteq Keyboards
    /\ pressed \in [Keyboards -> SUBSET AllKeys]
    /\ stale \subseteq Keyboards
    /\ Len(trace) <= MaxEvents

\* The number of events in trace[i..j] that are a press (or a release) of k.
StrokesIn(i, j, k, down) ==
    Cardinality({n \in i..j : trace[n].key = k /\ trace[n].down = down})

\* No foreign key and no detection anywhere in trace[i..j].
Undisturbed(i, j) ==
    \A n \in i..j : trace[n].key \in {LeftControl, RightControl} /\ trace[n].fired = "None"

\* The reference definition of a completed sequence of k ending at event n:
\* since the last foreign key or detection, k was pressed and released at
\* least the threshold number of times.  Written on the history alone.
Completes(n, k) ==
    /\ trace[n].key \in {LeftControl, RightControl}
    /\ \E i \in 1..n :
        /\ Undisturbed(i, n - 1)
        /\ StrokesIn(i, n, k, TRUE) >= Needed
        /\ StrokesIn(i, n, k, FALSE) >= Needed

\* A detection is never missed and never invented: the counters agree with
\* the history, in both directions, for both gestures.  (The combo wins.)
SequencesMatchHistory ==
    \A n \in 1..Len(trace) :
        trace[n].fired # "Stop" =>
            /\ trace[n].fired = "Left" <=> Completes(n, LeftControl)
            /\ trace[n].fired = "Right" <=> Completes(n, RightControl) /\ ~Completes(n, LeftControl)

\* One clean tap of LeftControl on board b at events n, n+1.
TapAt(b, n) ==
    /\ trace[n].board = b /\ trace[n].key = LeftControl /\ trace[n].down
    /\ trace[n + 1].board = b /\ trace[n + 1].key = LeftControl /\ ~trace[n + 1].down

\* The promise to the person at the cabinet: threshold consecutive taps of
\* LeftControl always set something off, whatever was typed before them.
TapsAreNeverIgnored ==
    \A b \in Keyboards, n \in 1..Len(trace) :
        (/\ n + 2 * Needed - 1 <= Len(trace)
         /\ \A t \in 0..(Needed - 1) : TapAt(b, n + 2 * t))
        => \E m \in n..(n + 2 * Needed - 1) : trace[m].fired # "None"

\* Board b's event fired the emergency stop in this step.
StopFrom(b) ==
    /\ Len(trace') = Len(trace) + 1
    /\ trace'[Len(trace')].fired = "Stop" /\ trace'[Len(trace')].board = b

\* The emergency stop means that the board that fired it has a Ctrl, Alt and
\* Del held at this moment: keys spread over two boards never add up to the
\* combo, and a release is never missed.  A board that was removed counts
\* again once the rescan has called forget_device for it.
StopIsPhysical ==
    [][\A b \in Keyboards \ stale : StopFrom(b) => IsCombo(pressed'[b])]_detectorVars
=============================================================================
