------------------------------ MODULE HidHost ------------------------------
(***************************************************************************)
(* The conversation between ksx and the HIDMaestro host, the elevated      *)
(* sibling process that owns the rich virtual pads                         *)
(* (src/crates/ksx-hidmaestro, src/crates/ksx-output/src/hidmaestro.rs,    *)
(* src/tools/hidmaestro-sdk-host).                                         *)
(*                                                                         *)
(* The client is the output thread with its backend, the HostClient and    *)
(* the pipe transport: one thread that makes one request at a time and     *)
(* waits for its answer, up to a deadline.  Any failure closes the         *)
(* conversation for good.  The host reads a request, carries it out        *)
(* against the SDK, which may take longer than the client waits, and       *)
(* answers; between requests it looks at the lease of every pad.           *)
(*                                                                         *)
(* One unit of time is CLIENT_LEASE_REFRESH_INTERVAL, one second.  Request *)
(* ids and state sequence numbers are left out: with one request in flight *)
(* and no request after a failure they agree by construction.              *)
(***************************************************************************)
EXTENDS Integers, FiniteSets, Functions

CONSTANTS
    MaxSlot,        \* bound: the session's slots are 1 .. MaxSlot
    Limit,          \* HOST_CONTROLLER_LIMIT, TotalCap: pads live at once
    Lease,          \* CLIENT_LEASE_TIMEOUT, in units
    Patience,       \* CREATE_, DESTROY_ and SHUTDOWN_TIMEOUT, in units
    States, Neutral,
    Nothing

Slots == 1 .. MaxSlot
Ids == 1 .. Limit

Requests == {"create", "submit", "destroy", "shutdown"}
Frames == [kind : Requests \cup {"created", "applied", "destroyed", "bye", "fault", "expire"},
           ctrl : Ids \cup {0}, state : States]
Calls == [kind : Requests, slot : Slots \cup {0}, state : States]

ASSUME LimitsAssumption == MaxSlot \in Nat \ {0} /\ Limit \in Nat \ {0}
ASSUME TimesAssumption == Lease \in Nat \ {0} /\ Patience \in Nat
ASSUME StatesAssumption == Neutral \in States
ASSUME NothingAssumption == Nothing \notin Frames \cup Calls

VARIABLES
    \* the client
    stage,          \* where output_thread is
    todo,           \* the slots of the pass under way: plug, renewal, neutral, unplug
    pads,           \* HidMaestroBackend.pads, per slot
    issued,         \* HostClient.issued_controllers
    conn,           \* none, open, closed: HostClient with its transport
    call, left,     \* the request in flight, and what is left of its deadline
    \* the pipe
    wire,           \* the frame written and not read
    \* the host
    host,           \* where SdkHostSession.RunAsync is
    job,            \* the frame in Dispatch
    live,           \* SdkHostSession._live
    \* the world
    devices,        \* the controllers Windows sees
    \* history
    lapsed,         \* controllers whose lease ran out
    silence         \* units since a request was read or waited for

client == <<stage, todo, pads, issued, conn, call, left>>
hostside == <<host, job, live, devices, lapsed>>
vars == <<stage, todo, pads, issued, conn, call, left, wire, host, job, live,
          devices, lapsed, silence>>

-----------------------------------------------------------------------------
Frame(kind, ctrl, state) == [kind |-> kind, ctrl |-> ctrl, state |-> state]

\* f with v at x, and the lowest of a set of numbers, if there is one
Put(f, x, v) == [y \in DOMAIN f \cup {x} |-> IF y = x THEN v ELSE f[y]]
Lowest(set) == {n \in set : \A m \in set : n <= m}

IsRequest(f) == f # Nothing /\ f.kind \in Requests
Answered == wire # Nothing /\ ~IsRequest(wire)

Runs == stage \notin {"hung", "dead"}
Free == Runs /\ call = Nothing
HostGone == host \in {"gone", "killed"}

Init ==
    /\ stage = "plugging" /\ todo \in {1 .. n : n \in 1 .. MaxSlot}
    /\ pads = <<>> /\ issued = {}
    /\ conn = "none" /\ call = Nothing /\ left = 0
    /\ wire = Nothing
    /\ host = "none" /\ job = Nothing /\ live = <<>>
    /\ devices = {} /\ lapsed = {} /\ silence = 0

-----------------------------------------------------------------------------
(* The client. *)

\* HidMaestroBackend::client: the host is launched, admitted and greeted at the
\* first plug.  Nothing is live yet, so this is one step.  It may be refused.
Connect ==
    /\ Free /\ stage = "plugging" /\ conn = "none"
    /\ \/ conn' = "open" /\ host' = "serving" /\ UNCHANGED <<stage, todo>>
       \/ stage' = "unplug" /\ todo' = {} /\ UNCHANGED <<conn, host>>
    /\ UNCHANGED <<pads, issued, call, left, wire, job, live, devices, lapsed, silence>>

\* HostClient::request: one frame goes out, and the thread waits for its answer.
Request(kind, s, ctrl, state, deadline) ==
    /\ conn = "open"
    /\ call' = [kind |-> kind, slot |-> s, state |-> state]
    /\ wire' = Frame(kind, ctrl, state)
    /\ left' = deadline
    /\ UNCHANGED <<pads, issued, conn, hostside, silence>>

\* SUBMIT_TIMEOUT is a quarter of a unit: no unit may pass.
Submit(s, state) == Request("submit", s, pads[s].ctrl, state, 0)

\* plug_persona, slot by slot.  The limit is looked at before the host is asked,
\* as a refusal of the host would close the conversation.
Plug ==
    /\ Free /\ stage = "plugging" /\ conn # "none" /\ todo # {}
    /\ IF Cardinality(DOMAIN pads) >= Limit
       THEN /\ stage' = "unplug" /\ todo' = DOMAIN pads
            /\ UNCHANGED <<pads, issued, conn, call, left, wire, hostside, silence>>
       ELSE /\ \E s \in Lowest(todo) : Request("create", s, 0, Neutral, Patience)
            /\ UNCHANGED <<stage, todo>>

\* Every pad is there: the supervisor is told, if it is still there.
PadsReady ==
    /\ Free /\ stage = "plugging" /\ conn # "none" /\ todo = {}
    /\ \/ stage' = "running" /\ UNCHANGED todo
       \/ stage' = "unplug" /\ todo' = DOMAIN pads
    /\ UNCHANGED <<pads, issued, conn, call, left, wire, hostside, silence>>

\* A delta of the engine.
Update(s, state) ==
    /\ Free /\ stage = "running" /\ todo = {} /\ s \in DOMAIN pads
    /\ Submit(s, state)
    /\ UNCHANGED <<stage, todo>>

\* HidMaestroBackend::service finds pads not submitted for a unit, and submits
\* their state again, one after the other.
Service ==
    /\ Free /\ stage = "running" /\ todo = {}
    /\ todo' = {s \in DOMAIN pads : pads[s].due}
    /\ UNCHANGED <<stage, pads, issued, conn, call, left, wire, hostside, silence>>

Renew ==
    /\ Free /\ stage = "running" /\ todo # {}
    /\ \E s \in Lowest(todo) : Submit(s, pads[s].state)
    /\ UNCHANGED <<stage, todo>>

\* OutputCtl::Stop: neutral on every pad first, then unplug in slot order.
Stop ==
    /\ Free /\ stage \in {"running", "failed"} /\ todo = {}
    /\ stage' = "neutral" /\ todo' = DOMAIN pads
    /\ UNCHANGED <<pads, issued, conn, call, left, wire, hostside, silence>>

Neutralise ==
    /\ Free /\ stage = "neutral" /\ todo # {}
    /\ \E s \in Lowest(todo) : Submit(s, Neutral)
    /\ UNCHANGED <<stage, todo>>

BeginUnplug ==
    /\ Free /\ stage = "neutral" /\ todo = {}
    /\ stage' = "unplug" /\ todo' = DOMAIN pads
    /\ UNCHANGED <<pads, issued, conn, call, left, wire, hostside, silence>>

Unplug ==
    /\ Free /\ stage = "unplug" /\ todo # {}
    /\ \E s \in Lowest(todo) : Request("destroy", s, pads[s].ctrl, Neutral, Patience)
    /\ UNCHANGED <<stage, todo>>

\* On a closed conversation what is left of the teardown fails at once, and is ignored.
Skip ==
    /\ Free /\ stage \in {"neutral", "unplug"} /\ todo # {} /\ conn = "closed"
    /\ todo' = {}
    /\ UNCHANGED <<stage, pads, issued, conn, call, left, wire, hostside, silence>>

\* Drop of the backend: a shutdown, if the conversation is open.
Drop ==
    /\ Free /\ stage = "unplug" /\ todo = {}
    /\ IF conn = "open"
       THEN Request("shutdown", 0, 0, Neutral, Patience) /\ UNCHANGED <<stage, todo>>
       ELSE /\ stage' = "over"
            /\ UNCHANGED <<todo, pads, issued, conn, call, left, wire, hostside, silence>>

\* HostClient::poison, and what output_thread makes of the error: a plug that
\* fails undoes the others, a running session reports and waits for its stop,
\* a teardown goes on.
Poisoned ==
    /\ conn' = "closed" /\ call' = Nothing
    /\ stage' = CASE stage = "plugging" -> "unplug"
                  [] stage = "running" -> "failed"
                  [] call # Nothing /\ call.kind = "shutdown" -> "over"
                  [] OTHER -> stage
    /\ todo' = CASE stage = "plugging" -> DOMAIN pads
                 [] stage = "running" -> {}
                 [] OTHER -> todo \ {call.slot}
    /\ UNCHANGED <<pads, issued, left>>

\* The pads once the answer to the request in flight is taken.
Taken ==
    CASE call.kind = "create" ->
            Put(pads, call.slot, [ctrl |-> wire.ctrl, state |-> Neutral, due |-> FALSE])
      [] call.kind = "submit" ->
            [pads EXCEPT ![call.slot] = [@ EXCEPT !.state = call.state, !.due = FALSE]]
      [] call.kind = "destroy" -> Restrict(pads, DOMAIN pads \ {call.slot})
      [] OTHER -> <<>>

Accept ==
    /\ stage' = IF call.kind = "shutdown" THEN "over" ELSE stage
    /\ conn' = IF call.kind = "shutdown" THEN "closed" ELSE conn
    /\ todo' = todo \ {call.slot}
    /\ call' = Nothing
    /\ pads' = Taken
    /\ issued' = IF call.kind = "create" THEN issued \cup {wire.ctrl} ELSE issued
    /\ UNCHANGED left

\* Mutant of Sound: an id the host gives out a second time is taken.
SoundAnyId == wire.kind # "fault"

\* A fault closes the conversation, and so does a controller id seen before.
Sound == wire.kind # "fault" /\ (wire.kind = "created" => wire.ctrl \notin issued)

Take ==
    /\ Runs /\ call # Nothing /\ Answered
    /\ wire' = Nothing
    /\ IF Sound THEN Accept ELSE Poisoned
    /\ UNCHANGED <<hostside, silence>>

\* The deadline passes first.
Timeout ==
    /\ Runs /\ call # Nothing /\ ~Answered /\ left = 0
    /\ Poisoned
    /\ UNCHANGED <<wire, hostside, silence>>

\* The pipe is broken.  Without a request service() finds out, by the events it polls.
Broken ==
    /\ Runs /\ conn = "open" /\ HostGone /\ ~Answered
    /\ call # Nothing \/ (stage = "running" /\ todo = {})
    /\ Poisoned
    /\ UNCHANGED <<wire, hostside, silence>>

\* The daemon dies, and its end of the pipe closes.
Die ==
    /\ Runs /\ stage # "over" /\ conn = "open"
    /\ stage' = "dead" /\ conn' = "closed" /\ call' = Nothing
    /\ UNCHANGED <<todo, pads, issued, left, wire, hostside, silence>>

\* The output thread hangs with the pipe open.
Hang ==
    /\ Runs /\ stage # "over" /\ conn = "open"
    /\ stage' = "hung"
    /\ UNCHANGED <<todo, pads, issued, conn, call, left, wire, hostside, silence>>

-----------------------------------------------------------------------------
(* The host. *)

Read ==
    /\ host = "serving" /\ IsRequest(wire)
    /\ host' = "busy" /\ job' = wire /\ wire' = Nothing
    /\ silence' = 0
    /\ UNCHANGED <<client, live, devices, lapsed>>

\* Mutant of Restarted: only the pad that was submitted to is renewed.
RestartedOne(pool) ==
    [c \in DOMAIN pool |->
        IF job.kind = "submit" /\ c = job.ctrl THEN [pool[c] EXCEPT !.idle = 0] ELSE pool[c]]

\* The time the host spends in its own work does not count against the client.
Restarted(pool) == [c \in DOMAIN pool |-> [pool[c] EXCEPT !.idle = 0]]

\* Dispatch is over: leases restart, the answer goes out.  After a fault or a
\* Bye, and where the client has gone, the session ends.
Reply(kind, ctrl, pool) ==
    /\ job' = Nothing
    /\ live' = Restarted(pool)
    /\ wire' = IF conn = "closed" THEN wire ELSE Frame(kind, ctrl, Neutral)
    /\ host' = IF conn = "closed" \/ kind \in {"fault", "bye"} THEN "ending" ELSE "serving"
    /\ UNCHANGED <<client, lapsed, silence>>

\* NextControllerId: the lowest id no live pad has, if there is room at all.
NextId == IF Cardinality(DOMAIN live) < Limit THEN Lowest(Ids \ DOMAIN live) ELSE {}

Create ==
    /\ host = "busy" /\ job.kind = "create"
    /\ \E id \in NextId :
          /\ Reply("created", id, Put(live, id, [state |-> Neutral, idle |-> 0]))
          /\ devices' = devices \cup {id}

Apply ==
    /\ host = "busy" /\ job.kind = "submit" /\ job.ctrl \in DOMAIN live
    /\ Reply("applied", job.ctrl, [live EXCEPT ![job.ctrl].state = job.state])
    /\ UNCHANGED devices

Destroy ==
    /\ host = "busy" /\ job.kind = "destroy" /\ job.ctrl \in DOMAIN live
    /\ Reply("destroyed", job.ctrl, Restrict(live, DOMAIN live \ {job.ctrl}))
    /\ devices' = devices \ {job.ctrl}

Shutdown ==
    /\ host = "busy" /\ job.kind = "shutdown"
    /\ Reply("bye", 0, <<>>)
    /\ devices' = {}

\* The SDK refuses, or the controller is not live: a fault.  A controller whose
\* Dispose failed is out of _live all the same, and one that was made but took no
\* first state never gets into it.
Refuse ==
    /\ host = "busy" /\ job.kind \in {"create", "submit", "destroy"}
    /\ Reply("fault", 0, IF job.kind = "destroy" THEN Restrict(live, DOMAIN live \ {job.ctrl}) ELSE live)
    /\ \/ UNCHANGED devices
       \/ job.kind = "create" /\ \E id \in NextId : devices' = devices \cup {id}

\* The republication of a timer tick is refused by the SDK: the session ends.
Republish ==
    /\ host = "serving" /\ live # <<>>
    /\ host' = "ending"
    /\ UNCHANGED <<client, wire, job, live, devices, lapsed, silence>>

\* A timer tick finds leases that have run out: those pads are made neutral and
\* destroyed.  Leases are stamped one after the other, so a tick may fall between two.
Expire(gone) ==
    /\ host = "serving" /\ gone # {}
    /\ \A c \in gone : live[c].idle >= Lease
    /\ host' = "busy" /\ job' = Frame("expire", 0, Neutral)
    /\ live' = Restrict(live, DOMAIN live \ gone)
    /\ lapsed' = lapsed \cup gone
    /\ UNCHANGED <<client, wire, devices, silence>>

\* The expired pads are gone, or the SDK refused and the session ends.
Expired ==
    /\ host = "busy" /\ job.kind = "expire"
    /\ job' = Nothing
    /\ live' = Restarted(live)
    /\ \/ host' = "serving" /\ devices' = DOMAIN live
       \/ host' = "ending" /\ UNCHANGED devices
    /\ UNCHANGED <<client, wire, lapsed, silence>>

\* Mutant of EndOfFile: the host goes on with the pads it has.
EndOfFileIgnored == FALSE /\ UNCHANGED vars

\* ReadFrameAsync returns null: the client has closed its end.
EndOfFile ==
    /\ host = "serving" /\ conn = "closed"
    /\ host' = "ending"
    /\ UNCHANGED <<client, wire, job, live, devices, lapsed, silence>>

\* Dispose: every pad left is destroyed, then the SDK context with what it holds.
Dispose ==
    /\ host = "ending"
    /\ host' = "gone" /\ live' = <<>> /\ devices' = {}
    /\ wire' = IF IsRequest(wire) THEN Nothing ELSE wire
    /\ UNCHANGED <<client, job, lapsed, silence>>

\* The host process is killed.  Its devices are up to Windows.
Killed ==
    /\ host \in {"serving", "busy", "ending"}
    /\ host' = "killed" /\ live' = <<>> /\ job' = Nothing
    /\ wire' = IF IsRequest(wire) THEN Nothing ELSE wire
    /\ UNCHANGED <<client, devices, lapsed, silence>>

-----------------------------------------------------------------------------
(* Time.  A unit does not pass while the idle host has something to do (its *)
(* loop turns every 16 ms) or while a deadline of the client is due.        *)

Up(n) == IF n < Lease THEN n + 1 ELSE n

Tick ==
    /\ host = "serving" => /\ ~IsRequest(wire) /\ conn # "closed"
                           /\ \A c \in DOMAIN live : live[c].idle < Lease
    /\ Runs /\ call # Nothing /\ ~Answered => left > 0
    /\ live' = [c \in DOMAIN live |-> [live[c] EXCEPT !.idle = Up(@)]]
    /\ pads' = [s \in DOMAIN pads |-> [pads[s] EXCEPT !.due = TRUE]]
    /\ left' = IF left > 0 THEN left - 1 ELSE 0
    /\ silence' = IF Runs /\ call # Nothing /\ ~Answered THEN 0 ELSE Up(silence)
    /\ UNCHANGED <<stage, todo, issued, conn, call, wire, host, job, devices, lapsed>>

-----------------------------------------------------------------------------
Client ==
    \/ Connect \/ Plug \/ PadsReady \/ Service \/ Renew \/ Neutralise
    \/ BeginUnplug \/ Unplug \/ Skip \/ Drop \/ Take \/ Timeout \/ Broken

Host ==
    \/ Read \/ Create \/ Apply \/ Destroy \/ Shutdown \/ Refuse
    \/ \E gone \in SUBSET DOMAIN live : Expire(gone)
    \/ Expired \/ EndOfFile \/ Dispose

Next ==
    \/ Client \/ Host \/ Tick \/ Stop \/ Die \/ Hang \/ Republish \/ Killed
    \/ \E s \in Slots, state \in States : Update(s, state)

\* The host's loop and the client's thread go on, and time passes.
Spec == Init /\ [][Next]_vars /\ WF_vars(Client) /\ WF_vars(Host) /\ WF_vars(Tick)

-----------------------------------------------------------------------------
(* Properties *)

TypeOK ==
    /\ stage \in {"plugging", "running", "failed", "neutral", "unplug", "over", "hung", "dead"}
    /\ todo \subseteq Slots /\ DOMAIN pads \subseteq Slots
    /\ \A s \in DOMAIN pads : pads[s] \in [ctrl : Ids, state : States, due : BOOLEAN]
    /\ issued \subseteq Ids /\ conn \in {"none", "open", "closed"}
    /\ call \in Calls \cup {Nothing}
    /\ left \in 0 .. Patience /\ wire \in Frames \cup {Nothing} /\ job \in Frames \cup {Nothing}
    /\ host \in {"none", "serving", "busy", "ending", "gone", "killed"}
    /\ DOMAIN live \subseteq Ids
    /\ \A c \in DOMAIN live : live[c] \in [state : States, idle : 0 .. Lease]
    /\ devices \subseteq Ids /\ lapsed \subseteq Ids /\ silence \in 0 .. Lease

\* Between two requests of an open conversation the two sides agree: every handle
\* has a controller of its own, the controllers without a handle are none, the
\* handles without a controller are those whose lease ran out, and every pad shows
\* what its own handle was last told.  (HostClient::create refuses an id it has
\* seen, as the host gives out the id of a pad that is gone again.)
PadsMatchHandles ==
    conn = "open" /\ call = Nothing /\ host \in {"serving", "busy"} =>
        /\ \A s, t \in DOMAIN pads : pads[s].ctrl = pads[t].ctrl => s = t
        /\ DOMAIN live = {pads[s].ctrl : s \in DOMAIN pads} \ lapsed
        /\ \A s \in DOMAIN pads : pads[s].ctrl \in DOMAIN live =>
               live[pads[s].ctrl].state = pads[s].state

\* The two sides agree, in a well-typed state.
Agreement == TypeOK /\ PadsMatchHandles

\* A lease runs out only if the client was silent for all of it: not while it
\* waits for an answer, however long the host takes to make or remove a pad.
OnlySilenceCostsAPad == [][lapsed' # lapsed => silence >= Lease]_vars

\* A client that is dead, hung or has closed the conversation leaves no pad behind,
\* not even the one whose creation it did not wait for, unless the host was killed.
NoPadOutlivesItsClient ==
    (stage \in {"dead", "hung"} \/ conn = "closed") ~> (devices = {} \/ host = "killed")
=============================================================================
