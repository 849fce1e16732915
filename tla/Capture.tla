------------------------------ MODULE Capture ------------------------------
(***************************************************************************)
(* The capture threads of one ksx session and the escape latch they share  *)
(* (src/crates/ksx-capture).                                               *)
(*                                                                         *)
(* Every board in Claimed is owned by a WinUSB thread of its own: Windows  *)
(* does not see the board, and the thread types (injects) what emulation   *)
(* does not own.  All other boards hang off one Interception thread, Tap:  *)
(* Windows sees a stroke when the thread re-sends it.  Each thread drains  *)
(* its control channel, waits for a stroke, feeds the stroke to its escape *)
(* detector, decides whether Windows gets it, and offers the event to the  *)
(* engine's bounded channel.                                               *)
(*                                                                         *)
(* The gesture detector is the module EscapeDetector; here a stroke simply *)
(* completes a gesture or does not, the strokes that lead up to it being   *)
(* left out.  The latch is a relaxed atomic that several threads load and  *)
(* store, so a load of it and what comes of the load are separate steps:   *)
(* the store of a toggle, and the publication of a decision.               *)
(***************************************************************************)
EXTENDS Integers, Sequences, FiniteSets

CONSTANTS
    Claimed,        \* boards bound to WinUSB, one thread each
    Tapped,         \* boards behind the Interception thread
    Tap,            \* the Interception thread
    Keys,           \* keys of a board
    LCtrl,          \* LeftControl, the key of the LeftCtrl x5 gesture
    Bound,          \* the keys a preset binds: what a BoundKeys take owns
    TakePlans,      \* what the supervisor may ask for: a take per board
    CtlBound,       \* bound on messages waiting in a control channel
    EventCap,       \* capacity of the event channel (1024 in ksx)
    Incidents       \* what may happen besides typing, see KnownIncidents

Boards == Claimed \cup Tapped
Threads == Claimed \cup {Tap}

ASSUME BoardsAssumption ==
    Claimed \cap Tapped = {} /\ Tap \notin Boards
ASSUME KeysAssumption ==
    IsFiniteSet(Keys) /\ LCtrl \in Keys /\ Bound \subseteq Keys
ASSUME BoundsAssumption ==
    CtlBound \in Nat /\ EventCap \in Nat

\* A board leaves or returns, SendInput is refused, the engine goes away, a
\* capture thread panics, the daemon starts another session (arm).
KnownIncidents == {"unplug", "refuse", "hangup", "panic", "arm"}
ASSUME IncidentsAssumption == Incidents \subseteq KnownIncidents

Takes == {"none", "whole", "bound"}

ASSUME PlansAssumption == TakePlans \subseteq [Boards -> Takes]

\* SetCaptured and SetCapturedWith are handled alike: a take per board.
CtlMessages ==
    [op : {"SetCaptured"}, takes : TakePlans]
        \cup [op : {"SetPassthrough", "Shutdown"}, takes : {[b \in Boards |-> "none"]}]

Strokes == [board : Boards, key : Keys, down : BOOLEAN]

VARIABLES
    \* shared by the threads
    latch,          \* EscapeHandle.passthrough
    events,         \* number of events waiting for the engine
    consumer,       \* the engine still holds the receiving end
    \* one per thread
    ctl,            \* control channel
    pc,             \* where the thread is in its loop
    pend,           \* the stroke in hand
    ctlPass,        \* ctl_passthrough
    wdPass,         \* watchdog_passthrough
    failing,        \* Watchdog.failing_since_ms is set
    tripped,        \* Watchdog.tripped
    \* one per board
    take,           \* what emulation was last asked to own
    injected,       \* keys a WinUSB thread typed down and not up again
    \* the Interception thread: its published decision, the boards it knows,
    \* the passthrough it last called publish() with
    snap, known, pass,
    wasOff,         \* ghost: the latch was off since it took up what it is doing,
                    \* or since it last set the latch itself; between tasks, is off
    \* the world
    plugged,        \* boards on the machine
    refusing,       \* SendInput is refused (secure desktop, elevated window)
    phys,           \* per board: keys physically held
    osDown          \* per board: keys Windows believes held

control == <<ctlPass, wdPass, take>>
dog == <<failing, tripped>>
decision == <<snap, known, pass, wasOff>>
world == <<plugged, refusing, phys>>
vars == <<latch, events, consumer, ctl, pc, pend, ctlPass, wdPass,
          failing, tripped, take, injected, snap, known, pass, wasOff, plugged,
          refusing, phys, osDown>>

-----------------------------------------------------------------------------
Owner(b) == IF b \in Claimed THEN b ELSE Tap
BoardsOf(t) == {b \in Boards : Owner(b) = t}

\* Take::BoundKeys owns the keys of the preset, Take::Whole all of them.
Owns(tk, k) == tk = "whole" \/ (tk = "bound" /\ k \in Bound)

\* The decision the Interception thread works from: publish().
Decision(free, knownBoards, takes) ==
    [pass |-> free,
     captured |-> [b \in Tapped |-> IF b \in knownBoards THEN takes[b] ELSE "none"]]

\* Mutants of Free: the watchdog, or the latch, is left out.
FreeWithoutDog(t) == ctlPass[t] \/ latch
FreeWithoutLatch(t) == ctlPass[t] \/ wdPass[t]

\* The thread's own view of "may this reach Windows": three sources, or-ed.
Free(t) == ctlPass[t] \/ wdPass[t] \/ latch

\* should_resend.  A WinUSB thread reads the latch live; the Interception
\* thread goes by its last published snapshot, and never suppresses a stroke
\* it cannot attribute to a board.
ReachesWindows(s) ==
    IF s.board \in Claimed
    THEN Free(s.board) \/ ~Owns(take[s.board], s.key)
    ELSE snap.pass \/ ~Owns(snap.captured[s.board], s.key)

After(held, s) == IF s.down THEN held \cup {s.key} ELSE held \ {s.key}

-----------------------------------------------------------------------------
Init ==
    /\ latch = FALSE
    /\ events = 0 /\ consumer = TRUE
    /\ ctl = [t \in Threads |-> <<>>]
    /\ pc = [t \in Threads |-> "drain"]
    /\ pend = [t \in Threads |-> <<>>]
    /\ ctlPass = [t \in Threads |-> TRUE]
    /\ wdPass = [t \in Threads |-> FALSE]
    /\ failing = [t \in Threads |-> FALSE]
    /\ tripped = [t \in Threads |-> FALSE]
    /\ take = [b \in Boards |-> "none"]
    /\ injected = [b \in Boards |-> {}]
    /\ snap = Decision(TRUE, {}, take)
    /\ known = Tapped
    /\ pass = TRUE /\ wasOff = TRUE
    /\ plugged = Boards
    /\ refusing = FALSE
    /\ phys = [b \in Boards |-> {}]
    /\ osDown = [b \in Boards |-> {}]

-----------------------------------------------------------------------------
(* Control messages, drained before every wait. *)

\* Mutant of ReleaseInjected: the record is cleared, nothing is released.
ForgetInjected(boards) ==
    /\ injected' = [b \in Boards |-> IF b \in boards THEN {} ELSE injected[b]]
    /\ UNCHANGED osDown

\* release_injected: synthesise a release for every key typed down.  A refused
\* release is not retried, and the set is cleared either way.
ReleaseInjected(boards) ==
    /\ injected' = [b \in Boards |-> IF b \in boards THEN {} ELSE injected[b]]
    /\ osDown' = [b \in Boards |-> IF b \in boards /\ ~refusing
                                   THEN osDown[b] \ injected[b] ELSE osDown[b]]

\* Capture resumes, so the watchdog must be able to trip again.
Rearm(t) ==
    /\ wdPass' = [wdPass EXCEPT ![t] = FALSE]
    /\ tripped' = [tripped EXCEPT ![t] = FALSE]
    /\ failing' = [failing EXCEPT ![t] = @ /\ ~tripped[t]]

\* publish(.., true): only the Interception thread has a decision to publish.
PassAll(t, boards) ==
    IF t = Tap THEN pass' = TRUE /\ snap' = Decision(TRUE, boards, take)
               ELSE UNCHANGED <<pass, snap>>

\* Thread t is done with a message, a stroke or a rescan.
TaskDone(t) == wasOff' = IF t = Tap THEN ~latch ELSE wasOff

\* SetCaptured / SetCapturedWith.  Clears the two passthrough sources that are
\* the thread's own and re-arms a tripped watchdog; the latch is not cleared, the
\* Interception thread loads it, and publishes the decision in a later step.
\* A WinUSB thread lets go of everything it typed when its take changes.
SetCaptured(t) ==
    LET takes == Head(ctl[t]).takes
        mine == BoardsOf(t)
    IN  /\ pc[t] = "drain" /\ ctl[t] # <<>> /\ Head(ctl[t]).op = "SetCaptured"
        /\ ctl' = [ctl EXCEPT ![t] = Tail(@)]
        /\ take' = [b \in Boards |-> IF b \in mine THEN takes[b] ELSE take[b]]
        /\ ctlPass' = [ctlPass EXCEPT ![t] = FALSE]
        /\ Rearm(t)
        /\ ReleaseInjected({b \in mine \cap Claimed : takes[b] # take[b]})
        /\ IF t = Tap THEN pass' = latch /\ pc' = [pc EXCEPT ![t] = "republish"]
                      ELSE UNCHANGED <<pass, pc>>
        /\ UNCHANGED <<latch, events, consumer, pend, snap, known, wasOff, world>>

SetPassthrough(t) ==
    /\ pc[t] = "drain" /\ ctl[t] # <<>> /\ Head(ctl[t]).op = "SetPassthrough"
    /\ ctl' = [ctl EXCEPT ![t] = Tail(@)]
    /\ ctlPass' = [ctlPass EXCEPT ![t] = TRUE]
    /\ PassAll(t, known)
    /\ UNCHANGED <<latch, events, consumer, pc, pend, wdPass, dog, take,
                   injected, known, wasOff, world, osDown>>

\* The channel is empty: go and wait for a stroke.
Wait(t) ==
    /\ pc[t] = "drain" /\ ctl[t] = <<>>
    /\ pc' = [pc EXCEPT ![t] = "wait"]
    /\ UNCHANGED <<latch, events, consumer, ctl, pend, control, dog,
                   injected, decision, world, osDown>>

\* Mutant of Idle: the wait has no timeout.
IdleNever(t) == pc[t] = "wait" /\ FALSE /\ UNCHANGED vars

\* The wait times out with nothing typed; back to the control channel.
Idle(t) ==
    /\ pc[t] = "wait"
    /\ pc' = [pc EXCEPT ![t] = "drain"]
    /\ UNCHANGED <<latch, events, consumer, ctl, pend, control, dog,
                   injected, decision, world, osDown>>

\* Every PRESENCE_RESCAN_MS an idle Interception thread re-reads the slot table
\* and loads the passthrough it then republishes.  A board whose hardware id
\* cannot be read this time is forgotten until its next stroke.
Rescan ==
    /\ pc[Tap] = "wait"
    /\ pc' = [pc EXCEPT ![Tap] = "republish"]
    /\ \E readable \in SUBSET (Tapped \cap plugged) : known' = readable
    /\ pass' = Free(Tap)
    /\ UNCHANGED <<latch, events, consumer, ctl, pend, control, dog,
                   injected, snap, wasOff, world, osDown>>

-----------------------------------------------------------------------------
(* One stroke. *)

\* A key moves, and its thread wakes with the stroke.  An Interception board
\* not in the slot table is learned now, if Windows gives its hardware id, and
\* the decision republished with the passthrough loaded here.
Receive(b, k, down) ==
    LET t == Owner(b)
        s == [board |-> b, key |-> k, down |-> down]
        learnt == {b} \cap (Tapped \ known)
    IN  /\ pc[t] = "wait" /\ b \in plugged
        /\ down \/ k \in phys[b]
        /\ phys' = [phys EXCEPT ![b] = After(@, s)]
        /\ pend' = [pend EXCEPT ![t] = s]
        /\ \/ /\ pc' = [pc EXCEPT ![t] = "observe"]
              /\ UNCHANGED <<known, pass>>
           \/ /\ learnt # {}
              /\ pc' = [pc EXCEPT ![t] = "learn"]
              /\ known' = known \cup learnt /\ pass' = Free(t)
        /\ UNCHANGED <<latch, events, consumer, ctl, control, dog, injected, snap,
                       wasOff, plugged, refusing, osDown>>

\* What a stroke can complete: LeftCtrl x5 ends on a LeftControl stroke, the
\* emergency stop can be completed by, and repeats on, any stroke.
Gestures(k) == {"None", "Stop"} \cup (IF k = LCtrl THEN {"Left"} ELSE {})

\* The detector's verdict on the stroke; on LeftCtrl x5 it loads the latch here.
Detect(t, gesture) ==
    /\ pc[t] = "observe" /\ gesture \in Gestures(pend[t].key)
    /\ pc' = [pc EXCEPT ![t] = CASE gesture = "None" -> "decide"
                                 [] gesture = "Left" /\ latch -> "bind"
                                 [] OTHER -> "free"]
    /\ UNCHANGED <<latch, events, consumer, ctl, pend, control, dog, injected,
                   decision, world, osDown>>

\* The store of observe(): a toggle writes the negation of what it loaded, the
\* emergency stop writes TRUE.  A WinUSB thread goes on to its decision, the
\* Interception thread has one to publish.
StoreLatch(t) ==
    /\ pc[t] \in {"free", "bind"}
    /\ latch' = (pc[t] = "free")
    /\ wasOff' = (~latch' \/ (wasOff /\ t # Tap /\ pc[Tap] \notin {"drain", "wait", "done"}))
    /\ pc' = [pc EXCEPT ![t] = IF t = Tap THEN "load" ELSE "decide"]
    /\ UNCHANGED <<events, consumer, ctl, pend, control, dog, injected, snap,
                   known, pass, world, osDown>>

\* After a gesture of its own the Interception thread loads the passthrough again.
Load ==
    /\ pc[Tap] = "load"
    /\ pass' = Free(Tap) /\ pc' = [pc EXCEPT ![Tap] = "publish"]
    /\ UNCHANGED <<latch, events, consumer, ctl, pend, control, dog, injected,
                   snap, known, wasOff, world, osDown>>

\* publish(): the table is built and stored with the passthrough loaded before;
\* another thread may have stored the latch meanwhile.  Then the thread returns to
\* the control channel, or to the stroke in its hand.
Resume == [republish |-> "drain", learn |-> "observe", publish |-> "decide"]
Publish ==
    /\ pc[Tap] \in DOMAIN Resume
    /\ snap' = Decision(pass, known, take)
    /\ pc' = [pc EXCEPT ![Tap] = Resume[@]]
    /\ IF pc[Tap] = "republish" THEN TaskDone(Tap) ELSE wasOff' = wasOff
    /\ UNCHANGED <<latch, events, consumer, ctl, pend, control, dog, injected,
                   known, pass, world, osDown>>

\* Windows' side of the decision: the stroke is re-sent or injected, or it is
\* swallowed.  A refused injection is counted and not tracked as held.
Type(s) ==
    IF ReachesWindows(s) /\ (s.board \in Tapped \/ ~refusing)
    THEN /\ osDown' = [osDown EXCEPT ![s.board] = After(@, s)]
         /\ injected' = [injected EXCEPT ![s.board] =
                            IF s.board \in Claimed THEN After(@, s) ELSE @]
    ELSE UNCHANGED <<osDown, injected>>

\* A full channel: the event is dropped and the stall watchdog looks at its
\* clock, which has or has not passed the threshold.  It trips once.
Drop(t) ==
    /\ failing' = [failing EXCEPT ![t] = @ \/ ~tripped[t]]
    /\ \/ /\ ~tripped[t] /\ failing[t]
          /\ tripped' = [tripped EXCEPT ![t] = TRUE]
          /\ wdPass' = [wdPass EXCEPT ![t] = TRUE]
          /\ PassAll(t, known)
       \/ UNCHANGED <<tripped, wdPass, snap, pass>>
    /\ UNCHANGED events

HasRoom == events < EventCap

\* Decide the stroke in hand, then offer the event to the engine.
Decide(t) ==
    /\ pc[t] = "decide" /\ consumer
    /\ Type(pend[t])
    /\ IF HasRoom
       THEN /\ events' = events + 1
            /\ failing' = [failing EXCEPT ![t] = FALSE]
            /\ UNCHANGED <<tripped, wdPass, snap, pass>>
       ELSE Drop(t)
    /\ pend' = [pend EXCEPT ![t] = <<>>]
    /\ pc' = [pc EXCEPT ![t] = "drain"] /\ TaskDone(t)
    /\ UNCHANGED <<latch, consumer, ctl, ctlPass, take, known, world>>

-----------------------------------------------------------------------------
(* The ways a thread ends: all of them let Windows have the boards back. *)

\* Interception: the filter is reset and the context destroyed, so Windows
\* reads the boards itself.  WinUSB: everything typed down is released.
Leave(t) ==
    /\ pc' = [pc EXCEPT ![t] = "done"]
    /\ pend' = [pend EXCEPT ![t] = <<>>]
    /\ ctl' = [ctl EXCEPT ![t] = <<>>]
    /\ PassAll(t, {}) /\ TaskDone(t)
    /\ UNCHANGED <<latch, consumer, control, dog, known, world>>

\* Shutdown, or every sender of the control channel dropped.
Shutdown(t) ==
    /\ pc[t] = "drain" /\ ctl[t] # <<>> /\ Head(ctl[t]).op = "Shutdown"
    /\ ReleaseInjected(BoardsOf(t) \cap Claimed)
    /\ UNCHANGED events
    /\ Leave(t)

\* The engine hung up: the stroke is still decided, then the thread ends.
ChannelClosed(t) ==
    /\ pc[t] = "decide" /\ ~consumer
    /\ LET s == pend[t]
           typed == ReachesWindows(s) /\ (s.board \in Tapped \/ ~refusing)
           windows == IF typed THEN After(osDown[s.board], s) ELSE osDown[s.board]
           tracked == IF typed THEN After(injected[s.board], s) ELSE injected[s.board]
           released == IF s.board \in Claimed /\ ~refusing THEN tracked ELSE {}
       IN  osDown' = [osDown EXCEPT ![s.board] = windows \ released]
    /\ injected' = [b \in Boards |-> IF b \in BoardsOf(t) THEN {} ELSE injected[b]]
    /\ UNCHANGED events
    /\ Leave(t)

\* A panic anywhere in the loop unwinds through the same clean-up.
Panic(t) ==
    /\ "panic" \in Incidents /\ pc[t] # "done"
    /\ ReleaseInjected(BoardsOf(t) \cap Claimed)
    /\ UNCHANGED events
    /\ Leave(t)

\* A claimed board is gone: offer a release for every key the report reader
\* still has down, as far as the channel takes them, and end.
DeviceLost(b) ==
    /\ b \in Claimed \ plugged
    /\ pc[b] = "wait"
    /\ LET held == Cardinality(phys[b])
       IN  events' = IF events + held > EventCap THEN EventCap ELSE events + held
    /\ ReleaseInjected({b})
    /\ Leave(b)

-----------------------------------------------------------------------------
(* The environment. *)

\* The supervisor's messages reach every thread: the composite backend fans
\* each one out, and each thread drains its own channel in its own time.
Send(m) ==
    /\ \A t \in Threads : pc[t] # "done" => Len(ctl[t]) < CtlBound
    /\ ctl' = [t \in Threads |-> IF pc[t] = "done" THEN <<>> ELSE Append(ctl[t], m)]
    /\ UNCHANGED <<latch, events, consumer, pc, pend, control, dog,
                   injected, decision, world, osDown>>

\* EscapeHandle::arm, at the start of a session.
Arm ==
    /\ "arm" \in Incidents
    /\ latch /\ latch' = FALSE /\ wasOff' = TRUE
    /\ UNCHANGED <<events, consumer, ctl, pc, pend, control, dog, injected,
                   snap, known, pass, world, osDown>>

\* The engine takes an event.
Consume ==
    /\ consumer /\ events > 0
    /\ events' = events - 1
    /\ UNCHANGED <<latch, consumer, ctl, pc, pend, control, dog, injected,
                   decision, world, osDown>>

\* The engine drops its end of the event channel.
HangUp ==
    /\ "hangup" \in Incidents
    /\ consumer /\ consumer' = FALSE
    /\ UNCHANGED <<latch, events, ctl, pc, pend, control, dog, injected,
                   decision, world, osDown>>

\* A board leaves or returns.  Of a claimed board its report reader keeps the
\* keys that were down, and the board does not come back to the same thread.
Unplug(b) ==
    /\ "unplug" \in Incidents /\ b \in plugged
    /\ plugged' = plugged \ {b}
    /\ phys' = [phys EXCEPT ![b] = IF b \in Claimed THEN @ ELSE {}]
    /\ UNCHANGED <<latch, events, consumer, ctl, pc, pend, control, dog,
                   injected, decision, refusing, osDown>>

Replug(b) ==
    /\ b \in Tapped \ plugged
    /\ plugged' = plugged \cup {b}
    /\ UNCHANGED <<latch, events, consumer, ctl, pc, pend, control, dog,
                   injected, decision, refusing, phys, osDown>>

Refuse ==
    /\ "refuse" \in Incidents /\ refusing' = ~refusing
    /\ UNCHANGED <<latch, events, consumer, ctl, pc, pend, control, dog,
                   injected, decision, plugged, phys, osDown>>

\* Once the filter is gone Windows reads an Interception board directly.
Direct(b, k, down) ==
    /\ b \in Tapped /\ pc[Tap] = "done" /\ b \in plugged
    /\ down \/ k \in phys[b]
    /\ LET s == [board |-> b, key |-> k, down |-> down]
       IN  /\ phys' = [phys EXCEPT ![b] = After(@, s)]
           /\ osDown' = [osDown EXCEPT ![b] = After(@, s)]
    /\ UNCHANGED <<latch, events, consumer, ctl, pc, pend, control, dog,
                   injected, decision, plugged, refusing>>

-----------------------------------------------------------------------------
ThreadStep(t) ==
    \/ SetCaptured(t) \/ SetPassthrough(t) \/ Wait(t) \/ Idle(t)
    \/ (\E g \in {"None", "Left", "Stop"} : Detect(t, g)) \/ StoreLatch(t)
    \/ (t = Tap /\ (Load \/ Publish)) \/ Decide(t)
    \/ Shutdown(t) \/ ChannelClosed(t)

Typing ==
    \E b \in Boards, k \in Keys, down \in BOOLEAN :
        Receive(b, k, down) \/ Direct(b, k, down)

Environment ==
    \/ \E m \in CtlMessages : Send(m)
    \/ Arm \/ Consume \/ HangUp \/ Refuse
    \/ \E b \in Boards : Unplug(b) \/ Replug(b)

Next ==
    \/ \E t \in Threads : ThreadStep(t) \/ Panic(t)
    \/ Rescan
    \/ \E b \in Claimed : DeviceLost(b)
    \/ Typing
    \/ Environment

Spec == Init /\ [][Next]_vars

\* Every thread keeps running: a wait times out after WAIT_TIMEOUT_MS, and no
\* step blocks (try_recv, try_send, atomics).  Nothing is assumed of the
\* person, the supervisor or the engine.
FairSpec == Spec /\ \A t \in Threads : WF_vars(ThreadStep(t))

\* And of the person, that typing stops now and again for as long as a wait takes to
\* time out: then PRESENCE_RESCAN_MS runs out for an idle thread again and again.
PausingSpec == FairSpec /\ SF_vars(Rescan)

-----------------------------------------------------------------------------
PCs == {"drain", "republish", "wait", "learn", "observe", "free", "bind", "load",
        "publish", "decide", "done"}

Decisions == [pass : BOOLEAN, captured : [Tapped -> Takes]]

\* A thread that has received a stroke holds one of its own boards' strokes.
StrokeInHand ==
    \A t \in Threads : pc[t] \notin {"drain", "republish", "wait", "done"} =>
        pend[t] \in Strokes /\ Owner(pend[t].board) = t

TypeOK ==
    /\ latch \in BOOLEAN
    /\ events \in 0..EventCap /\ consumer \in BOOLEAN
    /\ ctl \in [Threads -> Seq(CtlMessages)]
    /\ pc \in [Threads -> PCs]
    /\ pend \in [Threads -> Strokes \cup {<<>>}]
    /\ ctlPass \in [Threads -> BOOLEAN] /\ wdPass \in [Threads -> BOOLEAN]
    /\ failing \in [Threads -> BOOLEAN] /\ tripped \in [Threads -> BOOLEAN]
    /\ take \in [Boards -> Takes]
    /\ injected \in [Boards -> SUBSET Keys]
    /\ snap \in Decisions
    /\ known \in SUBSET Tapped
    /\ pass \in BOOLEAN /\ wasOff \in BOOLEAN
    /\ plugged \in SUBSET Boards
    /\ refusing \in BOOLEAN
    /\ phys \in [Boards -> SUBSET Keys]
    /\ osDown \in [Boards -> SUBSET Keys]
    /\ StrokeInHand

\* Thread t decides the stroke in its hand in this step and goes on.
Decides(t) == pc[t] = "decide" /\ pc'[t] = "drain"

\* The stroke that thread t decides in this step reaches Windows.
Typed(t) == osDown'[pend[t].board] = After(osDown[pend[t].board], pend[t])

\* winusb/mod.rs, may_reach_windows: a gesture made on any board frees a
\* claimed board at its very next stroke, with no message from anyone.
LatchFreesClaimedBoards ==
    [][\A b \in Claimed : Decides(b) /\ latch /\ ~refusing => Typed(b)]_vars

\* escape.rs: "a supervisor that keeps sending SetCaptured can never re-arm
\* blocking behind an escape's back".  An escape that stands when the Interception
\* thread takes up a message, a stroke or a rescan, or that it makes itself, is not
\* undone by what it publishes then, whichever thread made it and however its load
\* of the latch and its store of the decision fall between the steps of the others.
EscapeIsNotUndone ==
    [][snap.pass /\ ~snap'.pass => wasOff]_vars

\* The same without the ghost, as the comment has it: a gesture of another thread
\* between the load and the store is lost on the decision that is then published.
EscapeIsNeverUndone ==
    [][snap.pass /\ ~snap'.pass => ~latch]_vars

\* Lost on that decision, or made while the Interception thread waited, but not for
\* good: an escape that stays in force is heard, and stays heard.
EscapeIsHeard == <>[]latch => <>[]snap.pass

\* While the Interception thread suppresses anything, neither the supervisor's
\* SetPassthrough nor a stall of the engine stands: the published decision is
\* never behind the thread's own two sources.
SnapshotKeepsUp ==
    ~snap.pass => ~ctlPass[Tap] /\ ~wdPass[Tap]

\* A thread that may be swallowing keys always has a watchdog that can still
\* trip: it is one-shot, and re-arming it is tied to re-enabling capture.
CapturingIsGuarded ==
    \A t \in Threads : wdPass[t] <=> tripped[t]

\* The Interception thread and its kin never go on suppressing behind the back of
\* what should have freed the boards: a stall of the engine, with the watchdog that
\* notices it ready, and the supervisor's SetPassthrough.
NeverLeftCaptured == SnapshotKeepsUp /\ CapturingIsGuarded

\* What a claimed board left down in Windows with nobody tracking it.
Stranded(b) == osDown[b] \ injected[b]

\* Whatever ends or changes a WinUSB thread - a new take, shutdown, a dead
\* engine, an unplugged board, a panic - every key it typed down is let go,
\* unless Windows is refusing injection at that moment.
NothingStranded ==
    [][\A b \in Claimed : refusing \/ Stranded(b)' \subseteq Stranded(b)]_vars

\* A thread that was told to shut down ends, and its boards are free.
ShutdownEnds ==
    \A t \in Threads :
        (\E i \in 1..Len(ctl[t]) : ctl[t][i].op = "Shutdown") ~> pc[t] = "done"

\* escape.rs, EscapeHandle::passthrough: "LeftCtrl x5 on any one board has to
\* free them all", arm: the threads "read the latch per stroke".
LatchFreesTappedBoards ==
    [][Decides(Tap) /\ latch => Typed(Tap)]_vars

\* typethrough.rs and set_take: "a key typed down a moment ago never gets its
\* release injected and Windows believes it held forever".  Between strokes,
\* what a WinUSB thread holds down in Windows is held down on the board.
NoKeyHeldForever ==
    \A b \in Claimed : pc[b] = "drain" /\ ~refusing => injected[b] \subseteq phys[b]
=============================================================================
