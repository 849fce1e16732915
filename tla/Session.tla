------------------------------ MODULE Session ------------------------------
(* The supervisor of an emulation session (ksx-backend/src/run/             *)
(* supervisor.rs) beside the capture thread it controls.  The capture       *)
(* thread acts on gestures by itself and only counts them; the supervisor   *)
(* polls health, counters and presence every 50 ms, mirrors what it finds   *)
(* and sends the capture state it wants down a control channel.  Under the  *)
(* daemon the handles of health and escapes outlive a session, so each      *)
(* session reads them against a baseline.  The strokes themselves are in    *)
(* Capture.tla, the engine and the pads in Pipeline.tla.                    *)
EXTENDS Integers, Sequences

CONSTANTS Boards,       \* the keyboards bound to a slot: plan.captureable
          Captures,     \* plan.block_keyboards.captures()
          MaxSessions, MaxToggles, MaxStops,   \* bounds of a behaviour
          InboxBound    \* hotplug waits for room: a bound on the channel

ASSUME SessionAssumption ==
    /\ Captures \in BOOLEAN
    /\ MaxSessions \in Nat /\ MaxToggles \in Nat /\ MaxStops \in Nat
    /\ InboxBound \in Nat

VARIABLES
    latch, toggles, stops,  \* EscapeHandle: the latch and two counters
    tripped,                \* HealthHandle: watchdog_tripped, never cleared
    worker,                 \* the session's capture thread: "off" or "on"
    inbox,                  \* CaptureCtl messages not received yet
    armed,                  \* the boards it was last told to capture
    wdPass,                 \* its own watchdog_passthrough
    attached, published,    \* boards on the machine; as last published
    step,                   \* where the supervisor is, see Steps
    blocking, present,      \* its view: blocking wanted, boards seen
    seen,                   \* the baseline: [toggles, stops, tripped]
    sessions,               \* sessions started
    ownTrip                 \* ghost: the watchdog tripped in this session

handles == <<latch, toggles, stops, tripped>>
thread  == <<worker, inbox, armed, wdPass>>
world   == <<attached, published>>
view    == <<blocking, present, seen, sessions>>
sessionVars == <<handles, thread, world, step, view, ownTrip>>

Loop  == {"health", "escapes", "presence", "watch"}
Steps == Loop \cup {"off", "armed", "pads", "leave", "release", "join"}

\* SetCaptured(set), SetPassthrough and Shutdown
Capture(set) == [op |-> "capture", set |-> set]
Passthrough  == [op |-> "passthrough", set |-> {}]
Shutdown     == [op |-> "shutdown", set |-> {}]
Messages     == [op : {"capture", "passthrough", "shutdown"}, set : SUBSET Boards]

\* the boards whose strokes do not reach Windows
Suppressed == IF worker = "off" \/ latch \/ wdPass THEN {} ELSE armed

\* apply_capture: only boards that are bound and present are ever captured
Wanted(block, boards) ==
    IF block /\ boards # {} THEN Capture(boards) ELSE Passthrough

\* a thread that is gone takes no message
Sent(messages) == IF worker = "on" THEN inbox \o messages ELSE inbox

SessionInit ==
    /\ latch = FALSE /\ toggles = 0 /\ stops = 0 /\ tripped = FALSE
    /\ worker = "off" /\ inbox = << >> /\ armed = {} /\ wdPass = FALSE
    /\ attached \in SUBSET Boards /\ published = attached
    /\ step = "off" /\ blocking = FALSE /\ present = {} /\ sessions = 0
    /\ seen = [toggles |-> 0, stops |-> 0, tripped |-> FALSE]
    /\ ownTrip = FALSE

-----------------------------------------------------------------------------
(* The capture side *)

\* LeftCtrl x5 flips the latch at once; Ctrl+Alt+Del only ever sets it
Toggle ==
    /\ toggles < MaxToggles
    /\ latch' = ~latch /\ toggles' = toggles + 1
    /\ UNCHANGED <<stops, tripped, thread, world, step, view, ownTrip>>

EmergencyStop ==
    /\ stops < MaxStops
    /\ latch' = TRUE /\ stops' = stops + 1
    /\ UNCHANGED <<toggles, tripped, thread, world, step, view, ownTrip>>

\* the engine stalls: the thread frees its boards and says so
Trip ==
    /\ worker = "on" /\ ~wdPass
    /\ wdPass' = TRUE /\ tripped' = TRUE /\ ownTrip' = TRUE
    /\ UNCHANGED <<latch, toggles, stops, worker, inbox, armed, world, step, view>>

\* a capture message re-arms the watchdog, but never clears the latch
Receive ==
    /\ worker = "on" /\ inbox # << >>
    /\ inbox' = Tail(inbox)
    /\ armed' = Head(inbox).set
    /\ wdPass' = (wdPass /\ Head(inbox).op = "passthrough")
    /\ worker' = IF Head(inbox).op = "shutdown" THEN "off" ELSE "on"
    /\ UNCHANGED <<handles, world, step, view, ownTrip>>

\* it may end by itself: a claimed board is gone, a panic
CaptureDies ==
    /\ worker = "on" /\ worker' = "off"
    /\ armed' = {} /\ wdPass' = FALSE /\ inbox' = << >>
    /\ UNCHANGED <<handles, world, step, view, ownTrip>>

Hotplug(b) ==
    /\ attached' = IF b \in attached THEN attached \ {b} ELSE attached \cup {b}
    /\ UNCHANGED <<handles, thread, published, step, view, ownTrip>>

Rescan ==
    /\ published' = attached
    /\ UNCHANGED <<handles, thread, attached, step, view, ownTrip>>

-----------------------------------------------------------------------------
(* The supervisor, and before it the daemon's control loop *)

Begins == step = "off" /\ sessions < MaxSessions
             /\ step' = "armed" /\ sessions' = sessions + 1

\* muting the panel and arming the latch are one event
Arm ==
    /\ Begins /\ latch' = FALSE
    /\ UNCHANGED <<toggles, stops, tripped, thread, world, blocking, present,
                   seen, ownTrip>>

\* a reload, or an edit that bounces the session, mutes and does not arm
Restart ==
    /\ Begins
    /\ UNCHANGED <<handles, thread, world, blocking, present, seen, ownTrip>>

\* the escape baseline comes first, the pads take their time
Baseline ==
    /\ step = "armed" /\ step' = "pads"
    /\ seen' = [seen EXCEPT !.toggles = toggles, !.stops = stops]
    /\ present' = attached
    /\ UNCHANGED <<handles, thread, world, blocking, sessions, ownTrip>>

PadsFail ==
    /\ step = "pads" /\ step' = "off"
    /\ UNCHANGED <<handles, thread, world, view, ownTrip>>

\* the health baseline, a capture thread in passthrough, then blocking; and
\* if the game cannot be launched, straight to the teardown
Begin ==
    /\ step = "pads" /\ step' \in {"health", "release"}
    /\ seen' = [seen EXCEPT !.tripped = tripped]
    /\ worker' = "on" /\ armed' = {} /\ wdPass' = FALSE
    /\ blocking' = Captures /\ inbox' = <<Wanted(Captures, present)>>
    /\ ownTrip' = FALSE
    /\ UNCHANGED <<handles, world, present, sessions>>

StopAsked ==
    /\ step = "health" /\ step' = "leave"
    /\ UNCHANGED <<handles, thread, world, view, ownTrip>>

CheckHealth ==
    /\ step = "health"
    /\ step' = IF tripped /\ ~seen.tripped THEN "leave" ELSE "escapes"
    /\ UNCHANGED <<handles, thread, world, view, ownTrip>>

\* one message for each gesture not seen yet, in turn: the last one counts
Mirrored(n) ==
    [i \in 1..n |-> Wanted(IF i % 2 = 1 THEN ~blocking ELSE blocking, present)]

MirrorEscapes ==
    /\ step = "escapes"
    /\ LET n == toggles - seen.toggles
       IN  /\ inbox' = Sent(Mirrored(n))
           /\ blocking' = (blocking # (n % 2 = 1))
    /\ seen' = [seen EXCEPT !.toggles = toggles, !.stops = stops]
    /\ step' = IF stops > seen.stops THEN "leave" ELSE "presence"
    /\ UNCHANGED <<handles, worker, armed, wdPass, world, present, sessions, ownTrip>>

\* Mutant of MirrorPresence: a change is noted and not applied.
NotePresence ==
    /\ step = "presence" /\ step' = "watch" /\ present' = published
    /\ UNCHANGED <<handles, thread, world, blocking, seen, sessions, ownTrip>>

\* Mutant of MirrorPresence: a removal is not looked for.
MirrorArrivals ==
    /\ step = "presence" /\ step' = "watch"
    /\ present' = present \cup published /\ Len(inbox) < InboxBound
    /\ inbox' = IF published \subseteq present THEN inbox
              ELSE Sent(<<Wanted(blocking, present \cup published)>>)
    /\ UNCHANGED <<handles, worker, armed, wdPass, world, blocking, seen,
                   sessions, ownTrip>>

MirrorPresence ==
    /\ step = "presence" /\ step' = "watch"
    /\ IF published = present THEN UNCHANGED <<inbox, present>>
       ELSE /\ Len(inbox) < InboxBound
            /\ present' = published
            /\ inbox' = Sent(<<Wanted(blocking, published)>>)
    /\ UNCHANGED <<handles, worker, armed, wdPass, world, blocking, seen,
                   sessions, ownTrip>>

\* a dead worker, the game's exit or a message ends it; else the next round
Watch ==
    /\ step = "watch"
    /\ \/ step' = "leave"
       \/ worker = "on" /\ step' = "health"
    /\ UNCHANGED <<handles, thread, world, view, ownTrip>>

\* gestures since the last poll are counted, never applied
Leave ==
    /\ step = "leave" /\ step' = "release"
    /\ blocking' = (blocking # ((toggles - seen.toggles) % 2 = 1))
    /\ seen' = [seen EXCEPT !.toggles = toggles]
    /\ UNCHANGED <<handles, thread, world, present, sessions, ownTrip>>

LetGo ==
    /\ step = "release" /\ step' = "join"
    /\ inbox' = Sent(<<Passthrough, Shutdown>>)
    /\ UNCHANGED <<handles, worker, armed, wdPass, world, view, ownTrip>>

Join ==
    /\ step = "join" /\ worker = "off" /\ step' = "off"
    /\ UNCHANGED <<handles, thread, world, view, ownTrip>>

-----------------------------------------------------------------------------
Supervise == \/ CheckHealth \/ MirrorEscapes \/ MirrorPresence \/ Watch
             \/ Leave \/ LetGo \/ Join

SessionNext == \/ Toggle \/ EmergencyStop \/ Trip \/ Receive \/ CaptureDies \/ Rescan
        \/ \E b \in Boards : Hotplug(b)
        \/ Arm \/ Restart \/ Baseline \/ PadsFail \/ Begin \/ StopAsked \/ Supervise

SessionSpec == SessionInit /\ [][SessionNext]_sessionVars

\* The two threads run and the capture thread's idle path rescans; gestures,
\* stalls, hotplug and starts are nobody's duty.
FairSessionSpec ==
    /\ SessionSpec
    /\ WF_sessionVars(Supervise) /\ WF_sessionVars(Receive) /\ WF_sessionVars(Rescan)

-----------------------------------------------------------------------------
SessionTypeOK ==
    /\ latch \in BOOLEAN /\ toggles \in Nat /\ stops \in Nat /\ tripped \in BOOLEAN
    /\ worker \in {"off", "on"} /\ inbox \in Seq(Messages)
    /\ armed \subseteq Boards /\ wdPass \in BOOLEAN
    /\ attached \subseteq Boards /\ published \subseteq Boards
    /\ step \in Steps /\ blocking \in BOOLEAN /\ present \subseteq Boards
    /\ seen \in [toggles : Nat, stops : Nat, tripped : BOOLEAN]
    /\ sessions \in Nat /\ ownTrip \in BOOLEAN

\* The newest capture state asked for is what the supervisor's view calls for:
\* when the channel is empty the thread captures the bound boards the
\* supervisor believes present, and none when an escape turned blocking off,
\* whatever hotplug and gestures fell between two polls (apply_capture,
\* mirror_escapes).
CaptureFollowsView ==
    step \in Loop /\ worker = "on" =>
       LET asked == IF inbox = << >> THEN armed ELSE inbox[Len(inbox)].set
       IN  asked = Wanted(blocking, present).set

\* A keyboard is suppressed only while a session is up: not while the pads
\* plug, and not once its capture thread is joined.
FreeOutsideSessions == step \in {"off", "armed", "pads"} => Suppressed = {}

\* A trip or an emergency stop that the baseline does not already hold ends
\* the session, whatever else is going on (supervise).
TroubleEndsSession ==
    step \in Loop /\ (stops > seen.stops \/ (tripped /\ ~seen.tripped)) ~> step \notin Loop

\* A board that stays away, or stays, is noticed or the session ends.
HotplugIsSeen ==
    \A b \in Boards : step \in Loop /\ (b \in attached) # (b \in present)
        ~> step \notin Loop \/ (b \in attached) = (b \in present)

\* NOTHING IS OVERLOOKED, a trip, a stop, a plug or an unplug.
NothingIsOverlooked == TroubleEndsSession /\ HotplugIsSeen

\* "A stall is an event in one pipeline; the next session deserves to be
\* judged on its own" (health.rs): a trip in a session ends that session.
TripEndsItsSession == step \in Loop /\ ownTrip ~> step \notin Loop
=============================================================================
