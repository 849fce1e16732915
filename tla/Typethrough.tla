---------------------------- MODULE Typethrough ----------------------------
(***************************************************************************)
(* The daemon's claimed-panel keyboard (ksx-backend/src/daemon/            *)
(* typethrough.rs with ksx-platform/src/inject.rs).  Windows does not see  *)
(* a claimed board, so one thread, the pump, types what emulation does not *)
(* own.  It selects between two queues: the events of the capture threads  *)
(* and the commands of the daemon's other threads.  A command changes who  *)
(* owns which key; the caller waits for an acknowledgement, but only for a *)
(* while.  The escape latch is read live, once per event or command.       *)
(***************************************************************************)
EXTENDS Integers, Sequences

CONSTANTS
    Devices,        \* the boards of the panel, one capture thread each
    Keys,           \* keys that can be typed
    Splits,         \* per-device takes a session may ask for
    Clients,        \* threads that command the pump
    EventCap,       \* capacity of the event channel (1024 in ksx)
    CmdBound,       \* bound on commands waiting
    Incidents       \* what may go wrong, see KnownIncidents

ASSUME SplitsAssumption == Splits \subseteq [Devices -> SUBSET Keys]
ASSUME PumpAssumption == EventCap \in Nat /\ CmdBound \in Nat

\* SendInput is refused, the event channel overflows, a board is unplugged.
KnownIncidents == {"refuse", "overflow", "unplug"}
ASSUME IncidentsAssumption == Incidents \subseteq KnownIncidents

-----------------------------------------------------------------------------
(* Owned: who owns which key of the panel. *)

Nobody == [kind |-> "none", keys |-> [d \in Devices |-> {}]]
Whole == [kind |-> "whole", keys |-> [d \in Devices |-> Keys]]
PerDevice(takes) == [kind |-> "split", keys |-> takes]

Modes == {Nobody, Whole} \cup {PerDevice(takes) : takes \in Splits}

Owns(mode, d, k) == k \in mode.keys[d]

Strokes == [dev : Devices, key : Keys, down : BOOLEAN]

\* Own stands for Emulating (Whole), Typing (Nobody) and Owning (PerDevice).
Ops == {"Own", "Attach", "Detach", "Observe", "Unobserve", "Shutdown"}
Messages == [op : Ops, mode : Modes, from : Clients]

VARIABLES
    \* the pump
    running,        \* the thread has not left its loop
    owned,          \* what was asked for
    effective,      \* what was in force at the last decision
    session,        \* channel of the attached session: none, open, closed
    observer,       \* channel of a learn: none, open, closed
    emulating,      \* Typethrough.emulating
    held,           \* Typethrough.held: typed down and not up again
    \* the queues
    events,         \* capture threads -> pump
    orders,       \* clients -> pump
    waiting,        \* clients still waiting for an acknowledgement
    \* the world
    latch,          \* the escape latch
    boards,         \* per board: its capture thread is up, leaving, or gone
    phys,           \* per board: keys physically held
    refusing,       \* SendInput is refused
    osDown,         \* keys Windows believes held because of the pump
    \* ghosts
    seen,           \* per board: keys down by the events the pump has taken
    lost,           \* keys whose injected release was refused
    sure            \* the mode a caller knows to be in force, if any

pump == <<owned, effective, session, observer, emulating, held>>
windows == <<osDown, lost>>
pumpVars == <<running, owned, effective, session, observer, emulating, held, events,
          orders, waiting, latch, boards, phys, refusing, osDown, seen, lost, sure>>

Unknown == [kind |-> "unknown", keys |-> [d \in Devices |-> {}]]

After(keys, k, down) == IF down THEN keys \cup {k} ELSE keys \ {k}

PumpInit ==
    /\ running = TRUE /\ owned = Nobody /\ effective = Nobody
    /\ session = "none" /\ observer = "none"
    /\ emulating = FALSE /\ held = {}
    /\ events = <<>> /\ orders = <<>> /\ waiting = {}
    /\ latch = FALSE /\ boards = [d \in Devices |-> "up"]
    /\ phys = [d \in Devices |-> {}]
    /\ refusing = FALSE /\ osDown = {}
    /\ seen = [d \in Devices |-> {}] /\ lost = {} /\ sure = Nobody

-----------------------------------------------------------------------------
(* The decision. *)

\* Mutant of Decided: a split is rounded down to nothing.
DecidedWithoutSplit(own, observing) ==
    IF latch THEN Nobody ELSE IF observing \/ own = Whole THEN Whole ELSE Nobody

\* An escape wins over a learn, a learn over the session.
Decided(own, observing) ==
    IF latch THEN Nobody ELSE IF observing THEN Whole ELSE own

\* Mutant of LetsGo: keys are released only when emulation takes all.
LetsGoOnMute(now) == now = Whole /\ ~emulating

\* apply(): entering emulation, or any change of who owns which key, lets go
\* of everything held.
LetsGo(now) == (now = Whole /\ ~emulating) \/ now # effective

\* release_all(): the keys Windows and the pump still hold afterwards, and the
\* keys whose release it lost.  A refused release is not retried.
HeldAfter(now) == IF LetsGo(now) THEN {} ELSE held
DownAfter(now) == IF LetsGo(now) /\ ~refusing THEN osDown \ held ELSE osDown
LostAfter(now) ==
    IF ~LetsGo(now) THEN lost ELSE IF refusing THEN lost \cup held ELSE lost \ held

Apply(now) ==
    /\ effective' = now /\ emulating' = (now = Whole)
    /\ held' = HeldAfter(now) /\ osDown' = DownAfter(now) /\ lost' = LostAfter(now)

-----------------------------------------------------------------------------
(* Commands. *)

OwnQueued(queue) == \E i \in 1..Len(queue) : queue[i].op = "Own"

\* The acknowledgement reaches its caller unless that call has been given up:
\* each call has a channel of its own, so only a client's last call counts.
Acknowledged(queue) ==
    LET m == Head(queue) IN
    m.from \in waiting /\ \A i \in 2..Len(queue) : queue[i].from # m.from

Take(op) == running /\ orders # <<>> /\ Head(orders).op = op

Acknowledge ==
    /\ orders' = Tail(orders)
    /\ waiting' = IF Acknowledged(orders)
                  THEN waiting \ {Head(orders).from} ELSE waiting
    /\ UNCHANGED <<running, events, latch, boards, phys, refusing, seen>>

\* Emulating, Typing, Owning.
SetOwned ==
    /\ Take("Own")
    /\ owned' = Head(orders).mode
    /\ Apply(Decided(owned', observer # "none"))
    /\ sure' = IF Acknowledged(orders) /\ ~OwnQueued(Tail(orders))
               THEN owned' ELSE sure
    /\ Acknowledge
    /\ UNCHANGED <<session, observer>>

SetSession ==
    /\ Take("Attach") \/ Take("Detach")
    /\ session' = IF Head(orders).op = "Attach" THEN "open" ELSE "none"
    /\ Apply(Decided(owned, observer # "none"))
    /\ Acknowledge
    /\ UNCHANGED <<owned, observer, sure>>

SetObserver ==
    /\ Take("Observe") \/ Take("Unobserve")
    /\ observer' = IF Head(orders).op = "Observe" THEN "open" ELSE "none"
    /\ Apply(Decided(owned, observer' # "none"))
    /\ Acknowledge
    /\ UNCHANGED <<owned, session, sure>>

\* Typethrough is dropped: all that it holds is released.
Dropped ==
    /\ held' = {}
    /\ osDown' = IF refusing THEN osDown ELSE osDown \ held
    /\ lost' = IF refusing THEN lost \cup held ELSE lost \ held

\* The thread leaves its loop and drops its Typethrough.  Whoever waits for an acknowledgement finds the channel closed.
Exit ==
    /\ running' = FALSE /\ Dropped
    /\ orders' = <<>> /\ waiting' = {} /\ events' = <<>>
    /\ sure' = Unknown
    /\ UNCHANGED <<owned, effective, session, observer, emulating, latch, boards,
                   phys, refusing, seen>>

Stop == Take("Shutdown") /\ Exit

CaptureGone ==
    /\ running /\ events = <<>> /\ \A d \in Devices : boards[d] = "gone"
    /\ Exit

Command == SetOwned \/ SetSession \/ SetObserver \/ Stop

-----------------------------------------------------------------------------
(* One event of a capture thread. *)

\* A channel whose receiver is gone is noticed by the forward, and dropped.
Forwarded(channel) == IF channel = "closed" THEN "none" ELSE channel

\* A press is typed when nobody owns the key; a release only when its press
\* was, for an orphan release could cancel another keyboard's held key.
Event ==
    LET e == Head(events)
        now == Decided(owned, Forwarded(observer) # "none")
        types == ~Owns(now, e.dev, e.key) /\ (e.down \/ e.key \in HeldAfter(now))
        done == types /\ ~refusing
    IN  /\ running /\ events # <<>>
        /\ events' = Tail(events)
        /\ session' = Forwarded(session) /\ observer' = Forwarded(observer)
        /\ effective' = now /\ emulating' = (now = Whole)
        /\ held' = IF done \/ (types /\ ~e.down)
                   THEN After(HeldAfter(now), e.key, e.down) ELSE HeldAfter(now)
        /\ osDown' = IF done THEN After(DownAfter(now), e.key, e.down) ELSE DownAfter(now)
        /\ lost' = IF done THEN LostAfter(now) \ {e.key}
                   ELSE IF types /\ ~e.down THEN LostAfter(now) \cup {e.key}
                   ELSE LostAfter(now)
        /\ seen' = [seen EXCEPT ![e.dev] = After(@, e.key, e.down)]
        /\ UNCHANGED <<running, owned, orders, waiting, latch, boards, phys,
                       refusing, sure>>

-----------------------------------------------------------------------------
(* Callers, capture threads and the world. *)

\* TypethroughCtl::send.  With the pump gone a call returns at once.
Call(c, op, mode) ==
    /\ running /\ c \notin waiting /\ Len(orders) < CmdBound
    /\ op # "Own" => mode = Nobody
    /\ orders' = Append(orders, [op |-> op, mode |-> mode, from |-> c])
    /\ waiting' = waiting \cup {c}
    /\ sure' = IF op = "Own" THEN Unknown ELSE sure
    /\ UNCHANGED <<running, pump, events, latch, boards, phys, refusing, seen, windows>>

\* ACK_TIMEOUT: the caller goes on, its command stays queued.
StopWaiting(c) ==
    /\ c \in waiting /\ waiting' = waiting \ {c}
    /\ UNCHANGED <<running, pump, events, orders, latch, boards, phys,
                   refusing, seen, windows, sure>>

HasRoom == Len(events) < EventCap

\* A capture thread offers an event, and drops it when the channel is full.
Offer(d, k, down) ==
    /\ events' = IF HasRoom
                 THEN Append(events, [dev |-> d, key |-> k, down |-> down]) ELSE events
    /\ HasRoom \/ "overflow" \in Incidents
    /\ phys' = [phys EXCEPT ![d] = After(@, k, down)]

Stroke(d, k, down) ==
    /\ running /\ boards[d] = "up"
    /\ down \/ k \in phys[d]
    /\ Offer(d, k, down)
    /\ UNCHANGED <<running, pump, orders, waiting, latch, boards, refusing,
                   seen, windows, sure>>

\* An unplugged board's thread offers a release for each key still down,
\* then ends.
Unplug(d) ==
    /\ "unplug" \in Incidents /\ boards[d] = "up"
    /\ boards' = [boards EXCEPT ![d] = "leaving"]
    /\ UNCHANGED <<running, pump, events, orders, waiting, latch, phys,
                   refusing, seen, windows, sure>>

Leaving(d) ==
    /\ running /\ boards[d] = "leaving"
    /\ IF phys[d] = {}
       THEN boards' = [boards EXCEPT ![d] = "gone"] /\ UNCHANGED <<events, phys>>
       ELSE (\E k \in phys[d] : Offer(d, k, FALSE)) /\ UNCHANGED boards
    /\ UNCHANGED <<running, pump, orders, waiting, latch, refusing, seen,
                   windows, sure>>

\* A session or a learn drops its end of the channel.
HangUp ==
    /\ \/ session = "open" /\ session' = "closed" /\ UNCHANGED observer
       \/ observer = "open" /\ observer' = "closed" /\ UNCHANGED session
    /\ UNCHANGED <<running, owned, effective, emulating, held, events, orders,
                   waiting, latch, boards, phys, refusing, seen, windows, sure>>

\* A gesture on any board, or the daemon arming a session, moves the latch.
Latch ==
    /\ latch' = ~latch
    /\ UNCHANGED <<running, pump, events, orders, waiting, boards, phys,
                   refusing, seen, windows, sure>>

Refuse ==
    /\ "refuse" \in Incidents /\ refusing' = ~refusing
    /\ UNCHANGED <<running, pump, events, orders, waiting, latch, boards, phys,
                   seen, windows, sure>>

PumpNext ==
    \/ Command \/ Event \/ CaptureGone
    \/ \E c \in Clients : StopWaiting(c) \/ \E op \in Ops, mode \in Modes : Call(c, op, mode)
    \/ \E d \in Devices :
          \/ Unplug(d) \/ Leaving(d)
          \/ \E k \in Keys, down \in BOOLEAN : Stroke(d, k, down)
    \/ HangUp \/ Latch \/ Refuse

PumpSpec == PumpInit /\ [][PumpNext]_pumpVars

\* The pump never blocks, and select! picks at random between two ready
\* queues, so neither queue is passed over for ever.  A capture thread that
\* is leaving does leave.
FairPumpSpec ==
    /\ PumpSpec
    /\ WF_pumpVars(Command) /\ WF_pumpVars(Event) /\ WF_pumpVars(CaptureGone)
    /\ \A d \in Devices : WF_pumpVars(Leaving(d))

-----------------------------------------------------------------------------
Channels == {"none", "open", "closed"}

PumpTypeOK ==
    /\ running \in BOOLEAN /\ owned \in Modes /\ effective \in Modes
    /\ session \in Channels /\ observer \in Channels
    /\ emulating \in BOOLEAN /\ held \in SUBSET Keys
    /\ events \in Seq(Strokes) /\ Len(events) <= EventCap
    /\ orders \in Seq(Messages) /\ waiting \in SUBSET Clients
    /\ latch \in BOOLEAN /\ boards \in [Devices -> {"up", "leaving", "gone"}]
    /\ phys \in [Devices -> SUBSET Keys] /\ refusing \in BOOLEAN
    /\ osDown \in SUBSET Keys
    /\ seen \in [Devices -> SUBSET Keys] /\ lost \in SUBSET Keys
    /\ sure \in Modes \cup {Unknown}

\* "A key typed down a moment ago never gets its release injected and Windows
\* believes it held forever": whatever mode changes, learns and escapes come
\* in between, Windows holds no key that every board has let go of, by the
\* events the pump has taken, unless Windows itself refused the release.
NoStuckKey ==
    running => osDown \subseteq lost \cup UNION {seen[d] : d \in Devices}

\* However the pump ends, Windows holds nothing it typed.
ExitLetsGo == ~running => osDown \subseteq lost

\* A press of k on board d is taken by the pump in this step.
Pressed(d, k) ==
    running /\ events # <<>> /\ events' = Tail(events) /\ Head(events).down
        /\ Head(events).dev = d /\ Head(events).key = k /\ running'

\* The call returned and nobody has asked for another mode since: from then on
\* no press of an owned key is typed, whatever was queued at the time.  Only
\* an escape may free it.  (Message: "the ack is not ceremony".)
AcknowledgedModeHolds ==
    [][\A d \in Devices, k \in Keys :
         Pressed(d, k) /\ ~latch /\ Owns(sure, d, k) => held' \subseteq held]_pumpVars

\* The latch frees the panel at the very next press, also from a learn that
\* still listens and from a session that still owns the board.
LatchFreesPanel ==
    [][\A d \in Devices, k \in Keys :
         Pressed(d, k) /\ latch /\ ~refusing => k \in held' /\ k \in osDown']_pumpVars

\* The pump believes k held on a board and no event that says more is coming: the
\* full channel dropped the release.
Unheard(k) ==
    \E d \in Devices : k \in seen[d] /\ \A i \in DOMAIN events : events[i].key # k

\* Once a key stays up on every board, Windows is told so in the end, although
\* commands, learns and gestures go on without a pause: unless the full channel
\* dropped that very release or Windows refused it.
ReleasesReachWindows ==
    \A k \in Keys :
        <>[](\A d \in Devices : k \notin phys[d])
            => <>[](k \in osDown => k \in lost \/ Unheard(k))

=============================================================================
