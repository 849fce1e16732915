----------------------------- MODULE Pipeline ------------------------------
(* One emulation session behind the capture threads                         *)
(* (ksx-backend/src/run/supervisor.rs): the engine thread turns key events  *)
(* into pad states and forwards them through DeltaTx, which never blocks;   *)
(* the output thread owns the pads, plugs them, applies the states and      *)
(* unplugs them; the supervisor starts the three in order, watches them and *)
(* tears them down in order.  The engine is kept to what holds a control    *)
(* down: the keys of a device, and a macro that a key starts and a deadline *)
(* ends; a pad state is the set of its holders.  What the supervisor does   *)
(* with escapes and hotplug is in Session.tla.                              *)
EXTENDS Integers, Sequences, FiniteSets, Functions

CONSTANTS Devices,     \* the bound keyboards; each is one key here
          Slots,       \* slot numbers 1..n, in plug order
          Feeds,       \* Feeds[d]: the slots device d drives
          MacroSlots,  \* the slots on which a key also starts a macro
          Capacity,    \* DELTA_CHANNEL_CAPACITY
          KeyCap,      \* EVENT_CHANNEL_CAPACITY
          CtlBound     \* bound on the supervisor's unread engine commands

ASSUME PipelineAssumption ==
    /\ Slots = 1..Cardinality(Slots) /\ IsFiniteSet(Slots) /\ Slots # {}
    /\ Feeds \in [Devices -> SUBSET Slots]
    /\ MacroSlots \subseteq Slots
    /\ Capacity \in Nat \ {0} /\ KeyCap \in Nat \ {0} /\ CtlBound \in Nat \ {0}
    /\ "macro" \notin Devices

VARIABLES keys,      \* key events on their way to the engine
          capture,   \* "idle", "on" (keyboards captured) or "off" (joined)
          ctl,       \* EngineCtl commands not received yet
          engine,    \* "idle", "on" or "done"
          held,      \* the devices whose key the engine believes is down
          playing,   \* the slots on which a macro is playing
          link,      \* DeltaTx: [pending |-> ..., wire |-> ...]
          output,    \* the output thread's stage, see Stages
          plugged,   \* the pads that are plugged in
          pad,       \* the state each pad shows
          refused,   \* pads whose driver refused the last neutral update
          sup        \* the supervisor's stage, see Supervision

vars == <<keys, capture, ctl, engine, held, playing, link,
          output, plugged, pad, refused, sup>>
front == <<keys, capture, ctl>>
core  == <<engine, held, playing, link>>
back  == <<output, plugged, pad, refused>>

States  == SUBSET (Devices \cup {"macro"})
Neutral == {}
OutMsg  == [slot : Slots, state : States]
Links   == {l \in [pending : Seq(OutMsg), wire : Seq(OutMsg)] : Len(l.wire) <= Capacity}
Commands == [op : {"release"}, dev : Devices] \cup [op : {"swap", "cancel", "stop"}]
Stages == {"plugging", "refused", "on", "failed", "closing", "unplugging",
           "done", "dead"}
Supervision == {"starting", "running", "stopping", "joining", "ending", "done"}

\* the engine's state of slot s: who holds its controls
StateOf(h, p) ==
    [s \in Slots |-> {d \in h : s \in Feeds[d]}
                        \cup (IF s \in p THEN {"macro"} ELSE {})]

-----------------------------------------------------------------------------
(* DeltaTx *)

\* Mutant of Flush: a full channel makes room by dropping its oldest state.
FlushDropsOldest(l) ==
    IF l.pending = << >> THEN l
    ELSE [pending |-> Tail(l.pending),
          wire    |-> Append(IF Len(l.wire) = Capacity THEN Tail(l.wire) ELSE l.wire,
                             Head(l.pending))]

Flush(l) ==
    LET room == Capacity - Len(l.wire)
        n    == IF room < Len(l.pending) THEN room ELSE Len(l.pending)
    IN  [pending |-> SubSeq(l.pending, n + 1, Len(l.pending)),
         wire    |-> l.wire \o SubSeq(l.pending, 1, n)]

Waiting(l) == {l.pending[i].slot : i \in DOMAIN l.pending}

\* a newer state replaces the pending one of its slot, in its place
Coalesce(l, moved, after) ==
    [i \in DOMAIN l.pending |->
       IF l.pending[i].slot \in moved
       THEN [l.pending[i] EXCEPT !.state = after[l.pending[i].slot]]
       ELSE l.pending[i]]

\* send every delta of a batch (the slots whose state moved, in whatever
\* order the slots were built); a batch with none does not even flush
Send(l, before, after) ==
    LET moved == {s \in Slots : before[s] # after[s]}
        fresh == moved \ Waiting(l)
    IN  IF moved = {} THEN {l} ELSE
        { Flush([wire    |-> l.wire,
                 pending |-> Coalesce(l, moved, after)
                               \o [i \in DOMAIN q |-> [slot |-> q[i], state |-> after[q[i]]]]]) :
          q \in Bijection(1..Cardinality(fresh), fresh) }

-----------------------------------------------------------------------------
Init ==
    /\ keys = << >> /\ capture = "idle" /\ ctl = << >>
    /\ engine = "idle" /\ held = {} /\ playing = {}
    /\ link = [pending |-> << >>, wire |-> << >>]
    /\ output = "plugging" /\ plugged = {} /\ refused = {}
    /\ pad = [s \in Slots |-> Neutral]
    /\ sup = "starting"

(* The capture thread: a key moved or repeated; a full channel loses it. *)
Key(d) ==
    /\ capture = "on" /\ engine = "on" /\ Len(keys) < KeyCap
    /\ \E down \in BOOLEAN : keys' = Append(keys, [dev |-> d, down |-> down])
    /\ UNCHANGED <<capture, ctl, core, back, sup>>

CaptureEnds ==
    /\ capture = "on" /\ capture' = "off"
    /\ UNCHANGED <<keys, ctl, core, back, sup>>

(* The engine thread *)
EngineRuns == engine = "on" /\ UNCHANGED <<capture, back, sup>>

\* its end drops the engine, the receivers it owns and what was still
\* pending; what is on the wire goes on to the output
EngineEnds(wire) ==
    /\ engine' = "done" /\ keys' = << >> /\ ctl' = << >>
    /\ held' = {} /\ playing' = {}
    /\ link' = [pending |-> << >>, wire |-> wire]

\* the engine goes on with keys ks and commands cs to read, h held, p playing
\* and link l: unless it was sending to an output thread that is gone
Forward(l, h, p, ks, cs) ==
    IF output = "dead" /\ l # link
    THEN EngineEnds(<< >>)                                     \* OutputGone
    ELSE /\ UNCHANGED engine
         /\ keys' = ks /\ ctl' = cs /\ held' = h /\ playing' = p /\ link' = l

\* a wake handles one thing, then ticks: deadlines that are due end macros
Wake(h, p, ks, cs) ==
    \E due \in SUBSET p, l1 \in Send(link, StateOf(held, playing), StateOf(h, p)) :
    \E l2 \in Send(l1, StateOf(h, p), StateOf(h, p \ due)) :
       Forward(l2, h, p \ due, ks, cs)

EngineKey ==
    /\ EngineRuns /\ keys # << >>
    /\ LET d == Head(keys).dev
       IN  IF Head(keys).down
           THEN Wake(held \cup {d},
                     IF d \in held THEN playing
                     ELSE playing \cup (Feeds[d] \cap MacroSlots), Tail(keys), ctl)
           ELSE Wake(held \ {d}, playing, Tail(keys), ctl)

\* the channel is closed and drained: capture is gone
EngineHangsUp ==
    /\ EngineRuns /\ capture = "off" /\ keys = << >>
    /\ EngineEnds(link.wire)

Release(d) == Wake(held \ {d}, playing \ Feeds[d], keys, Tail(ctl))
Swap       == Wake({}, {}, keys, Tail(ctl))
Cancel     == Wake(held, {}, keys, Tail(ctl))

EngineCommand ==
    /\ EngineRuns /\ ctl # << >>
    /\ \/ Head(ctl).op = "release" /\ Release(Head(ctl).dev)
       \/ Head(ctl).op = "swap" /\ Swap
       \/ Head(ctl).op = "cancel" /\ Cancel

\* macros are cancelled, what fits is sent, the rest is lost with the thread
EngineStops ==
    /\ EngineRuns /\ ctl # << >> /\ Head(ctl).op = "stop"
    /\ \E l \in Send(link, StateOf(held, playing), StateOf(held, {})) :
          EngineEnds(IF output = "dead" THEN << >> ELSE l.wire)

\* nothing came in time: flush, then tick
Idle(due) ==
    /\ EngineRuns
    /\ \E l \in Send(Flush(link), StateOf(held, playing), StateOf(held, playing \ due)) :
          Forward(l, held, playing \ due, keys, ctl)

EngineIdle == \E due \in SUBSET playing : Idle(due)

EnginePanics == EngineRuns /\ EngineEnds(link.wire)

-----------------------------------------------------------------------------
(* The output thread *)
NextPad == Cardinality(plugged) + 1

Plug ==
    /\ output = "plugging"
    /\ IF plugged = Slots
       THEN output' = "on" /\ UNCHANGED plugged                  \* PadsReady
       ELSE \/ plugged' = plugged \cup {NextPad} /\ UNCHANGED output
            \/ plugged' = {} /\ output' = "refused"              \* PlugFailed
    /\ UNCHANGED <<front, core, pad, refused, sup>>

Deliver ==
    /\ output \in {"on", "failed"} /\ link.wire # << >>
    /\ link' = [link EXCEPT !.wire = Tail(@)]
    /\ \/ /\ output = "on"
          /\ pad' = [pad EXCEPT ![Head(link.wire).slot] = Head(link.wire).state]
          /\ UNCHANGED output
       \/ output' = "failed" /\ UNCHANGED pad    \* refused now, or before
    /\ UNCHANGED <<front, engine, held, playing, plugged, refused, sup>>

ServiceFails ==
    /\ output = "on" /\ output' = "failed"
    /\ UNCHANGED <<front, core, plugged, pad, refused, sup>>

OutputStops ==
    /\ output \in {"on", "failed"} /\ sup = "ending"
    /\ output' = "closing" /\ link' = [link EXCEPT !.wire = << >>]
    /\ UNCHANGED <<front, engine, held, playing, plugged, pad, refused, sup>>

\* Mutant of Neutralise: the pads are unplugged as they are.
SkipNeutral ==
    /\ output = "closing" /\ output' = "unplugging"
    /\ UNCHANGED <<front, core, plugged, pad, refused, sup>>

\* every pad is sent neutral first; a refusal is ignored
Neutralise ==
    /\ output = "closing" /\ output' = "unplugging"
    /\ \E r \in SUBSET Slots :
          /\ refused' = r
          /\ pad' = [s \in Slots |-> IF s \in r THEN pad[s] ELSE Neutral]
    /\ UNCHANGED <<front, core, plugged, sup>>

Unplug ==
    /\ output = "unplugging"
    /\ IF plugged = {}
       THEN output' = "done" /\ UNCHANGED plugged
       ELSE /\ plugged' = {s \in plugged : \E t \in plugged : t < s}
            /\ UNCHANGED output
    /\ UNCHANGED <<front, core, pad, refused, sup>>

\* the backend goes with the thread, and the pads with the backend
OutputPanics ==
    /\ output \in {"plugging", "on", "failed"}
    /\ output' = "dead" /\ plugged' = {}
    /\ link' = [link EXCEPT !.wire = << >>]
    /\ UNCHANGED <<front, engine, held, playing, pad, refused, sup>>

-----------------------------------------------------------------------------
(* The supervisor *)
OutputFinished == output \in {"refused", "done", "dead"}

\* pads first, then capture, the engine, and blocking
StartSession ==
    /\ sup = "starting" /\ output \in {"on", "failed"}
    /\ sup' = "running" /\ capture' = "on" /\ engine' = "on"
    /\ UNCHANGED <<keys, ctl, held, playing, link, back>>

\* refused, dead, or the plug deadline passed
GiveUp ==
    /\ sup = "starting" /\ sup' = "ending"
    /\ UNCHANGED <<front, core, back>>

Command(c) ==
    /\ sup = "running" /\ engine = "on" /\ Len(ctl) < CtlBound /\ c.op # "stop"
    /\ ctl' = Append(ctl, c)
    /\ UNCHANGED <<keys, capture, core, back, sup>>

\* Ctrl+C, an escape, the event limit, the game's exit: at any time
EndSession ==
    /\ sup = "running" /\ sup' = "stopping"
    /\ UNCHANGED <<front, core, back>>

WorkerDead == capture = "off" \/ engine = "done" \/ OutputFinished \/ output = "failed"

\* Mutant of EndBroken: only the death of capture is looked for.
EndWithoutCapture == capture = "off" /\ EndSession

EndBroken == WorkerDead /\ EndSession

\* uncapture and join capture, then stop the engine
Uncapture ==
    /\ sup = "stopping" /\ sup' = "joining"
    /\ capture' = "off"
    /\ ctl' = IF engine = "on" THEN Append(ctl, [op |-> "stop"]) ELSE ctl
    /\ UNCHANGED <<keys, core, back>>

\* the engine is joined, then the output thread is told to stop
EngineJoined ==
    /\ sup = "joining" /\ engine = "done" /\ sup' = "ending"
    /\ UNCHANGED <<front, core, back>>

OutputJoined ==
    /\ sup = "ending" /\ OutputFinished /\ sup' = "done"
    /\ UNCHANGED <<front, core, back>>

-----------------------------------------------------------------------------
EngineStep == EngineKey \/ EngineHangsUp \/ EngineCommand \/ EngineStops \/ EngineIdle
OutputStep == Plug \/ OutputStops \/ Neutralise \/ Unplug
Teardown   == EndBroken \/ Uncapture \/ EngineJoined \/ OutputJoined
Starting   == StartSession \/ GiveUp

Environment ==
    \/ \E d \in Devices : Key(d)
    \/ \E c \in Commands : Command(c)
    \/ CaptureEnds \/ EnginePanics \/ ServiceFails \/ OutputPanics \/ EndSession

Finished == sup = "done" /\ UNCHANGED vars

Next == \/ EngineStep \/ OutputStep \/ Deliver
        \/ Starting \/ Teardown \/ Environment \/ Finished

Spec == Init /\ [][Next]_vars

(* Each thread runs, and crossbeam's select! takes a ready branch at random, *)
(* so a branch that stays ready is taken; and again and again the engine is  *)
(* idle with no deadline due: a keyboard sends an event in tens of           *)
(* milliseconds, and with a state pending the engine waits one.  A plug call returns or is refused.   *)
(* No player, command or crash is fair, and no property needs a command      *)
(* other than the teardown to be read.                                       *)
Fairness ==
    /\ WF_vars(EngineKey \/ EngineHangsUp) /\ WF_vars(Idle({}))
    /\ WF_vars(Deliver) /\ WF_vars(OutputStep)
    /\ WF_vars(Starting \/ Teardown)

FairSpec == Spec /\ Fairness

-----------------------------------------------------------------------------
TypeOK ==
    /\ keys \in Seq([dev : Devices, down : BOOLEAN])
    /\ capture \in {"idle", "on", "off"}
    /\ ctl \in Seq(Commands)
    /\ engine \in {"idle", "on", "done"}
    /\ held \subseteq Devices /\ playing \subseteq Slots
    /\ link \in Links
    /\ output \in Stages /\ plugged \subseteq Slots /\ refused \subseteq Slots
    /\ pad \in [Slots -> States]
    /\ sup \in Supervision

\* DeltaTx keeps at most one state per slot, and it is the engine's own.
PendingIsCurrent ==
    /\ \A i \in DOMAIN link.pending :
          link.pending[i].state = StateOf(held, playing)[link.pending[i].slot]
    /\ \A i, j \in DOMAIN link.pending :
          link.pending[i].slot = link.pending[j].slot => i = j

\* the last state on the wire for s is v; the pad itself shows it if none is
ArrivesLast(s, v) ==
    \/ \E i \in DOMAIN link.wire :
          /\ link.wire[i] = [slot |-> s, state |-> v]
          /\ \A j \in DOMAIN link.wire : j > i => link.wire[j].slot # s
    \/ /\ \A i \in DOMAIN link.wire : link.wire[i].slot # s
       /\ pad[s] = v

\* However long the driver stalls and whatever is coalesced, the newest state
\* of every slot is pending, or last on the wire, or on the pad: no button is
\* left down because its release was superseded or arrived out of order
\* (DeltaTx::send and flush).
NewestIsNeverLost ==
    engine = "on" /\ output = "on" =>
      /\ PendingIsCurrent
      /\ \A s \in Slots \ Waiting(link) : ArrivesLast(s, StateOf(held, playing)[s])

\* Uncapture, THEN unplug (the teardown contract): while the keyboards are
\* captured every pad is plugged, a refusing driver included, unless the
\* output thread itself panicked.
PadsOutliveCapture ==
    capture = "on" /\ output # "dead" => plugged = Slots

\* A session that is over has no pad left, and none was unplugged with a
\* control held unless its driver refused the neutral update or its thread
\* died.
NothingIsLeftHeld ==
    sup = "done" => /\ plugged = {}
                    /\ output = "done" => \A s \in Slots \ refused : pad[s] = Neutral

\* A dead worker ends the session, and a session that is ending ends: no
\* thread waits for another for ever.
SessionEnds == (sup = "running" /\ WorkerDead) \/ sup \in {"stopping", "joining", "ending"}
                  ~> sup = "done"

-----------------------------------------------------------------------------
\* the places of w that hold a state for slot s, in order
Places(w, s) ==
    LET P == {i \in DOMAIN w : w[i].slot = s}
    IN  CHOOSE f \in Bijection(1..Cardinality(P), P) :
           \A i, j \in DOMAIN f : i < j => f[i] < f[j]

\* those states, oldest first
StatesFor(w, s) == LET at == Places(w, s) IN [k \in DOMAIN at |-> w[at[k]].state]

\* the states for slot s that no pad has shown yet
Ahead(s) == IF output \in {"plugging", "on"}
            THEN StatesFor(link.wire \o link.pending, s)
            ELSE << >>

Register == INSTANCE PadRegister WITH
    shown <- pad, ahead <- [s \in Slots |-> Ahead(s)],
    live  <- engine # "done" /\ output \in {"plugging", "on"}

\* The pipeline is the register PadRegister.tla describes.
IsARegister == Register!Spec
=============================================================================
