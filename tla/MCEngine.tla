----------------------------- MODULE MCEngine ------------------------------
(***************************************************************************)
(* Three keys and a mouse button under six presets that bring together    *)
(* the transforms that meet on one control.                                *)
(***************************************************************************)
EXTENDS Engine, TLC

CONSTANTS a, b, c, m

A == <<"A", 0>>
B == <<"B", 0>>
Right == <<"X", 2>>
Left == <<"X", -1>>

Keyed(ka, kb, kc, km) == a :> ka @@ b :> kb @@ c :> kc @@ m :> km
None == [i \in {} |-> {}]
Bare(entry) == [entry |-> entry, chord |-> None, macro |-> None, turbo |-> None,
                toggle |-> {}, socd |-> "off"]

\* Two keys on one button, one on two controls, a mouse button that shares it.
Plain4 == Bare(Keyed({A, Right}, {A}, {Left}, {A}))

\* Opposing keys where the last wins, and a macro that leans against them.
Sides == [Bare(Keyed({Right}, {Left}, {A}, {A})) EXCEPT
    !.socd = "last",
    !.macro = "back" :> [triggers |-> {c}, abort |-> FALSE, restart |-> FALSE,
                         interrupt |-> "opposing", repeat |-> "once", gap |-> 1,
                         steps |-> <<[hold |-> {Left}, ends |-> 1, min |-> 1]>>]]

\* Chords that consume one of the opposing keys, the stricter one first, a
\* chord across the two devices, and a turbo that they drive.
Chords == [Bare(Keyed({Right}, {Left}, {A}, {B})) EXCEPT
    !.socd = "last",
    !.turbo = A :> [on |-> 1, off |-> 1],
    !.chord = "pair" :> [keys |-> {a, c}, unless |-> {}, drives |-> {B}]
           @@ "solo" :> [keys |-> {a, c}, unless |-> {b}, drives |-> {A}]
           @@ "both" :> [keys |-> {c, m}, unless |-> {}, drives |-> {Left}]]

\* A latch that feeds a turbo, a plain latch, and the first key wins.
Latches == [Bare(Keyed({Right}, {Left}, {A, B}, {B})) EXCEPT
    !.socd = "first", !.toggle = {A, B}, !.turbo = A :> [on |-> 1, off |-> 1]]

\* A motion that repeats while held and one that stops on release.
Motions == [Bare(Keyed({A}, {Left}, {}, {A})) EXCEPT
    !.macro = "qc" :> [triggers |-> {a}, abort |-> FALSE, restart |-> FALSE,
                       interrupt |-> "opposing", repeat |-> "turbo", gap |-> 1,
                       steps |-> <<[hold |-> {Right}, ends |-> 1, min |-> 1],
                                   [hold |-> {Right, A}, ends |-> 2, min |-> 1]>>]
           @@ "dash" :> [triggers |-> {c}, abort |-> TRUE, restart |-> TRUE,
                         interrupt |-> "any-input", repeat |-> "while-held", gap |-> 1,
                         steps |-> <<[hold |-> {Left, B}, ends |-> 2, min |-> 1]>>]]

\* All at once on the same controls: a turbo, a latch, a chord and a repeating
\* macro whose trigger is one of two opposing keys.
Mixture == [Bare(Keyed({Right, A}, {Left}, {A}, {B})) EXCEPT
    !.socd = "last", !.toggle = {B}, !.turbo = A :> [on |-> 1, off |-> 2],
    !.chord = "pair" :> [keys |-> {a, c}, unless |-> {}, drives |-> {B}],
    !.macro = "qc" :> [triggers |-> {b}, abort |-> FALSE, restart |-> TRUE,
                       interrupt |-> "opposing", repeat |-> "while-held", gap |-> 2,
                       steps |-> <<[hold |-> {Right}, ends |-> 1, min |-> 1],
                                   [hold |-> {A}, ends |-> 3, min |-> 2]>>]]

MCNames == {"plain", "sides", "chords", "latches", "motions", "mixture"}
MCPreset ==
    "plain" :> Plain4 @@ "sides" :> Sides @@ "chords" :> Chords
    @@ "latches" :> Latches @@ "motions" :> Motions
    @@ "mixture" :> Mixture
=============================================================================
