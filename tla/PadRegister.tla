---------------------------- MODULE PadRegister ----------------------------
(* What the engine is promised of the pads, whatever happens between them.  *)
(* A pad state is a snapshot, so a newer one may supersede those that no    *)
(* pad has shown yet; but a pad moves only forward through the states the   *)
(* engine asked for, the newest of them is never lost, and it is shown.     *)
(* When the session is over the rest may be forgotten, and a pad may then   *)
(* also be put back to neutral.  Pipeline.tla implements this.              *)
EXTENDS Naturals, Sequences

CONSTANTS Slots, States, Neutral

VARIABLES shown,    \* the state each pad shows
          ahead,    \* the states asked for and not shown yet, oldest first
          live      \* the engine and the pads are both up

vars == <<shown, ahead, live>>

TypeOK ==
    /\ shown \in [Slots -> States]
    /\ ahead \in [Slots -> Seq(States)]
    /\ live \in BOOLEAN

Init ==
    /\ shown = [s \in Slots |-> Neutral]
    /\ ahead = [s \in Slots |-> << >>]
    /\ live = TRUE

\* new is old with newer states last, in place of some of its newest: one for
\* an event, and one more when a deadline is due at the same wake
Supersedes(old, new) ==
    \E n \in {Len(new) - 1, Len(new) - 2} :
       n \in 0..Len(old) /\ SubSeq(new, 1, n) = SubSeq(old, 1, n)

Ask ==
    /\ live
    /\ ahead' \in [Slots -> Seq(States)]
    /\ \A s \in Slots : ahead'[s] = ahead[s] \/ Supersedes(ahead[s], ahead'[s])
    /\ UNCHANGED <<shown, live>>

Show(s) ==
    /\ ahead[s] # << >>
    /\ shown' = [shown EXCEPT ![s] = Head(ahead[s])]
    /\ ahead' = [ahead EXCEPT ![s] = Tail(@)]
    /\ UNCHANGED live

\* the end: a worker died or was stopped; a last state may be asked for, and
\* what is under way may be lost
End ==
    /\ live' = FALSE
    /\ ahead' \in [Slots -> Seq(States)]
    /\ \A s \in Slots :
          \/ \E i \in 1..(Len(ahead[s]) + 1), j \in 0..Len(ahead[s]) :
                ahead'[s] = SubSeq(ahead[s], i, j)
          \/ live /\ Supersedes(ahead[s], ahead'[s])
    /\ shown' \in [Slots -> States]
    /\ \A s \in Slots : shown'[s] \in {shown[s], Neutral}

Next == Ask \/ (\E s \in Slots : Show(s)) \/ End

Safety == Init /\ [][Next]_vars

Spec == Safety /\ \A s \in Slots : WF_vars(live /\ Show(s))
=============================================================================
