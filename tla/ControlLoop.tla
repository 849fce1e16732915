---------------------------- MODULE ControlLoop ----------------------------
(* The daemon's control loop (ksx-backend/src/daemon/mod.rs) and the two    *)
(* kinds of actor around it.  One thread owns the live session: it takes    *)
(* commands off a channel, starts, stops, replaces, hot-swaps and reaps the *)
(* session thread, mutes and frees the claimed panel, and publishes what it *)
(* did in a shared state.  Clients (daemon/pipe.rs) enqueue a command and   *)
(* poll that state for a verdict; the tray and stdin only enqueue.  Beside  *)
(* it an encoder programmer, another process, takes the machine lease that  *)
(* start() takes too.  What a session does while it runs is in Session.tla  *)
(* and Pipeline.tla, what the programmer writes in PanelProgramming.tla.    *)
EXTENDS Naturals, Sequences

CONSTANTS Clients,      \* connections served: the pipe serves one at a time
          Verbs,        \* the verbs of a run, a subset of AllVerbs
          Tray,         \* the commands the tray sends, a subset of its menu
          None,         \* no session, no staged setup
          Slots,        \* slot counts of the sessions
          Games,        \* games.toml profiles a Start may name
          MaxSaves,     \* bound: saves of the config
          MaxEdits,     \* bound: edits of the draft
          MaxApplies,   \* bound: apply commands, so apply generations
          QueueBound    \* bound: commands in the (unbounded) channel

AllVerbs == {"start", "resume", "play", "stop", "reload", "map", "assign", "apply", "quit"}
Keep == "keep"          \* a Start that names no profile

ASSUME ControlAssumption ==
    /\ Verbs \subseteq AllVerbs
    /\ Tray \subseteq {"start", "stop", "reload", "quit"}
    /\ None \notin Nat /\ None \notin {"setup", "up", "teardown", "done"}
    /\ Keep \notin Games /\ Games # {} /\ Slots \subseteq Nat /\ Slots # {}
    /\ MaxSaves \in Nat /\ MaxEdits \in Nat /\ MaxApplies \in Nat /\ QueueBound \in Nat

VARIABLES
    pc, cmd,            \* the loop: where it is, the command in hand
    thread, stop,       \* the session thread of LiveSession, its stop flag
    outcome,            \* what joining it will report: "ok" or "bad"
    plan,               \* the plan the session runs on
    staged, game,       \* the factory: staged override, profile (published)
    run, origin, apply, \* DaemonState
    muted,              \* the claimed panel: emulating, it does not type
    lease, prog,        \* the machine lease; the programmer's step
    pending,            \* a transaction marker waits for recovery
    disk, draft,        \* versions: config.toml, DaemonState::staged
    queue,              \* commands sent, not received
    client,             \* the clients
    began,              \* ghost: since its request, a session began
    promised            \* ghost: the newest save that a session owes a client

session == <<thread, stop, outcome, plan>>
factory == <<staged, game>>
state   == <<run, origin, apply>>
machine == <<lease, prog, pending>>
files   == <<disk, draft, promised>>
vars == <<pc, cmd, session, factory, state, muted, machine, files, queue,
          client, began>>

Versions == 0 .. MaxSaves + MaxEdits
Plan(src, ver) == [src |-> src, ver |-> ver]
Plans    == [src : {"config", "staged"}, ver : Versions]
Specs    == Versions \cup {None}          \* a staged spec, or none

\* a command; spec and game are None and Keep where it carries none
Command(op, spec, title) == [op |-> op, spec |-> spec, game |-> title]
Ops == {"start", "play", "stop", "reload", "bind", "swap", "quit"}
Commands == [op : Ops, spec : Specs, game : Games \cup {Keep}]

\* the command in hand, with what its handler keeps: the plan an apply resolved,
\* the profile a start may have to put back
Idle == [op |-> None, want |-> Plan("config", 0), spec |-> None, game |-> Keep]
InHand == [op : Ops \cup {None}, want : Plans, spec : Specs,
           game : Games \cup {Keep}]

Threads == {None, "setup", "up", "teardown", "done"}

\* RunState; the count tells one running session from another, when it differs
Run(word, n) == [word |-> word, slots |-> n]
Stopped == Run("stopped", 0)
Starting == Run("starting", 0)
Quitting == Run("quitting", 0)
Failed == Run("failed", 0)
Runs == {Stopped, Starting, Quitting, Failed} \cup {Run("running", n) : n \in Slots}
Active(r) == r.word \in {"running", "starting"}

NextReport(ok) == [gen |-> apply.gen + 1, ok |-> ok]

Resting == [at |-> "idle", op |-> None, base |-> Stopped, gen |-> 0, saw |-> FALSE]

Init ==
    /\ pc = "recv" /\ cmd = Idle
    /\ thread = None /\ stop = FALSE /\ outcome = "ok"
    /\ plan = Plan("config", 0)
    /\ staged = None /\ game \in Games
    /\ run = Stopped /\ origin = "unknown" /\ apply = [gen |-> 0, ok |-> TRUE]
    /\ muted = FALSE
    /\ lease = "free" /\ prog = "idle" /\ pending \in BOOLEAN
    /\ disk = 0 /\ draft = 0 /\ promised = 0
    /\ queue = << >>
    /\ client = [c \in Clients |-> Resting] /\ began = {}

-----------------------------------------------------------------------------
(* The control loop *)

\* point_at_staged, on a factory that takes the override
PointAt(spec) ==
    /\ staged' = spec
    /\ origin' = IF spec = None THEN "config" ELSE "staged"

\* SessionFactory::resolve_plan: the override wins over the file
Resolved == IF staged # None THEN Plan("staged", staged) ELSE Plan("config", disk)

\* joining the session thread: reap publishes its verdict
Join ==
    /\ thread = "done"
    /\ thread' = None /\ stop' = FALSE /\ outcome' = "ok" /\ plan' = Plan("config", 0)
    /\ run' = IF outcome = "ok" THEN Stopped ELSE Failed
    /\ UNCHANGED <<origin, apply>>

\* the head of the loop: a session that ended by itself
ReapFinished ==
    /\ pc = "recv" /\ Join
    /\ pc' = "free"
    /\ UNCHANGED <<cmd, factory, muted, machine, files, queue, client, began>>

FreePanel ==
    /\ pc = "free"
    /\ muted' = FALSE /\ pc' = "recv" /\ cmd' = Idle
    /\ UNCHANGED <<session, factory, state, machine, files, queue, client, began>>

\* a command that needs the session gone asks it to stop, or goes on at once
StopThen(next) ==
    IF thread # None THEN stop' = TRUE /\ pc' = "reap"
                     ELSE stop' = stop /\ pc' = next

Take(op) ==
    /\ pc = "recv" /\ queue # << >> /\ Head(queue).op = op
    /\ queue' = Tail(queue)
    /\ UNCHANGED <<thread, outcome, plan, run, muted, machine, disk, draft, client, began>>

Hold(want) == [op |-> Head(queue).op, want |-> want, spec |-> Head(queue).spec, game |-> game]

\* "already running": the command is dropped
TakeStart ==
    /\ Take("start") /\ stop' = stop /\ apply' = apply /\ promised' = promised
    /\ IF thread # None
       THEN pc' = "recv" /\ cmd' = Idle /\ UNCHANGED <<factory, origin>>
       ELSE /\ PointAt(None)
            /\ game' = IF Head(queue).game = Keep THEN game ELSE Head(queue).game
            /\ pc' = "begin" /\ cmd' = Hold(Idle.want)

\* a running session is replaced: stopped and joined before its successor
TakePlay ==
    /\ Take("play") /\ PointAt(Head(queue).spec)
    /\ StopThen("begin") /\ cmd' = Hold(Idle.want)
    /\ UNCHANGED <<game, apply, promised>>

TakeReload ==
    /\ Take("reload") /\ PointAt(None)
    /\ StopThen("begin") /\ cmd' = Hold(Idle.want)
    /\ UNCHANGED <<game, apply, promised>>

TakeStop ==
    /\ Take("stop") /\ StopThen("recv")
    /\ cmd' = IF thread # None THEN Hold(Idle.want) ELSE Idle
    /\ UNCHANGED <<factory, origin, apply, promised>>

\* a channel whose senders are all gone ends the loop exactly as "quit" does
TakeQuit ==
    /\ Take("quit") /\ StopThen("exit") /\ cmd' = Hold(Idle.want)
    /\ UNCHANGED <<factory, origin, apply, promised>>

\* A command that makes the running session what is on disk is sent, or about to be.
Applying == {"bind", "reload"}
ApplyIsComing ==
    \/ \E i \in DOMAIN queue : queue[i].op \in Applying
    \/ \E c \in Clients : client[c].at = "asked" /\ client[c].op \in Applying

\* ApplyBindings and ApplyStaged: a plan to swap in, or a report of why not.  A
\* session told to be out of date owes nothing but what is still to be applied.
TakeApply(op) ==
    /\ Take(op)
    /\ \/ /\ thread # None /\ pc' = "door" /\ apply' = apply /\ promised' = promised
          /\ cmd' = Hold(IF op = "bind" THEN Resolved ELSE Plan("staged", Head(queue).spec))
       \/ /\ pc' = "recv" /\ cmd' = Idle
          /\ apply' = NextReport(thread = None /\ op = "bind")
          /\ promised' = IF op = "bind" /\ thread # None /\ ~ApplyIsComing'
                         THEN 0 ELSE promised
    /\ UNCHANGED <<stop, factory, origin>>

Reap ==
    /\ pc = "reap" /\ Join
    /\ pc' = CASE cmd.op = "stop" -> "free" [] cmd.op = "quit" -> "exit"
               [] OTHER -> "begin"
    /\ UNCHANGED <<cmd, factory, muted, machine, files, queue, client, began>>

Exit ==
    /\ pc = "exit"
    /\ muted' = FALSE /\ run' = Quitting /\ pc' = "gone"
    /\ UNCHANGED <<cmd, session, factory, origin, apply, machine, files,
                   queue, client, began>>

\* the panel is muted (Session.tla has the latch this may arm), then start() takes
\* the lease without waiting: a programmer or a marker left behind refuses it
Begin ==
    /\ pc = "begin" /\ muted' = TRUE
    /\ IF lease = "free" /\ ~pending
       THEN lease' = "start" /\ run' = Starting /\ pc' = "make"
       ELSE /\ lease' = lease /\ pc' = "undo"
            /\ run' = Failed
    /\ UNCHANGED <<cmd, session, factory, origin, apply, prog, pending, files,
                   queue, client, began>>

\* Mutant of Make: a bounce starts the plan it was handed, not a fresh one.
MakeInHand ==
    /\ pc = "make"
    /\ thread' = "setup" /\ stop' = FALSE
    /\ plan' = IF cmd.op = "bind" THEN cmd.want ELSE Resolved
    /\ \E n \in Slots : run' = Run("running", n)
    /\ apply' = IF cmd.op = "bind" THEN NextReport(TRUE) ELSE apply
    /\ lease' = "free" /\ pc' = "recv" /\ cmd' = Idle
    /\ began' = began \cup {c \in Clients : client[c].at # "idle"}
    /\ UNCHANGED <<outcome, factory, origin, muted, prog, pending, files, queue, client>>

Make ==
    /\ pc = "make"
    /\ thread' = "setup" /\ stop' = FALSE /\ plan' = Resolved
    /\ \E n \in Slots : run' = Run("running", n)
    /\ apply' = IF cmd.op = "bind" THEN NextReport(TRUE) ELSE apply
    /\ lease' = "free" /\ pc' = "recv" /\ cmd' = Idle
    /\ began' = began \cup {c \in Clients : client[c].at # "idle"}
    /\ UNCHANGED <<outcome, factory, origin, muted, prog, pending, files, queue, client>>

MakeFails ==
    /\ pc = "make"
    /\ run' = Failed
    /\ lease' = "free" /\ pc' = "undo"
    /\ UNCHANGED <<cmd, session, factory, origin, apply, muted, prog, pending,
                   files, queue, client, began>>

\* Mutant of Undo: only a failed Start gives the panel back.
UndoStart ==
    /\ pc = "undo" /\ muted' = (muted /\ cmd.op # "start")
    /\ game' = IF cmd.op = "start" THEN cmd.game ELSE game
    /\ IF cmd.op = "play" THEN PointAt(None) ELSE UNCHANGED <<staged, origin>>
    /\ apply' = IF cmd.op = "bind" THEN NextReport(FALSE) ELSE apply
    /\ pc' = "recv" /\ cmd' = Idle
    /\ UNCHANGED <<session, run, machine, files, queue, client, began>>

\* nothing started: the panel is given back, and what the command pointed at
Undo ==
    /\ pc = "undo" /\ muted' = FALSE
    /\ game' = IF cmd.op = "start" THEN cmd.game ELSE game
    /\ IF cmd.op = "play" THEN PointAt(None) ELSE UNCHANGED <<staged, origin>>
    /\ apply' = IF cmd.op = "bind" THEN NextReport(FALSE) ELSE apply
    /\ pc' = "recv" /\ cmd' = Idle
    /\ UNCHANGED <<session, run, machine, files, queue, client, began>>

\* HotSwap::apply: tables to an engine that is there, or was when asked
Swap ==
    /\ pc = "door" /\ thread \in {"up", "teardown"}
    /\ plan' = cmd.want /\ apply' = NextReport(TRUE)
    /\ IF cmd.op = "swap" THEN PointAt(cmd.spec) ELSE UNCHANGED <<staged, origin>>
    /\ pc' = "recv" /\ cmd' = Idle
    /\ UNCHANGED <<thread, stop, outcome, game, run, muted, machine, files,
                   queue, client, began>>

\* the draft is refused, the saved bindings restart the session
Bounce ==
    IF cmd.op = "swap"
    THEN pc' = "recv" /\ cmd' = Idle /\ apply' = NextReport(FALSE) /\ stop' = stop
    ELSE pc' = "reap" /\ cmd' = cmd /\ apply' = apply /\ stop' = TRUE

Structural ==
    /\ pc = "door" /\ thread \in {"up", "teardown"} /\ Bounce
    /\ UNCHANGED <<thread, outcome, plan, factory, run, origin, muted, machine,
                   files, queue, client, began>>

\* no door within SWAP_HANDLE_GRACE, or an engine that is gone
NoDoor ==
    /\ pc = "door" /\ thread # "up" /\ Bounce
    /\ UNCHANGED <<thread, outcome, plan, factory, run, origin, muted, machine,
                   files, queue, client, began>>

Loop ==
    \/ ReapFinished \/ FreePanel \/ Reap \/ Exit
    \/ TakeStart \/ TakePlay \/ TakeReload \/ TakeStop \/ TakeQuit
    \/ \E op \in {"bind", "swap"} : TakeApply(op)
    \/ Begin \/ Make \/ MakeFails \/ Undo
    \/ Swap \/ Structural \/ NoDoor

-----------------------------------------------------------------------------
(* The session thread *)

Stage(from, to, result) ==
    /\ thread = from /\ thread' = to /\ outcome' = result
    /\ UNCHANGED <<pc, cmd, stop, plan, factory, state, muted, machine, files,
                   queue, client, began>>

\* the pads are up, the swap door is open; or the session is refused
Plugged    == Stage("setup", "up", "ok")
SetupFails == Stage("setup", "done", "bad")

\* Mutant of Stops: the flag is only looked at before the pads are up.
StopsEarly == stop /\ Stage("setup", "teardown", "ok")

\* asked to stop
Stops == stop /\ Stage("up", "teardown", "ok")
\* by itself: the game exits, a driver fails, Ctrl+Alt+Del
EndsAlone == \E r \in {"ok", "bad"} : Stage("up", "teardown", r)

TornDown == Stage("teardown", "done", outcome)

Session == Plugged \/ SetupFails \/ Stops \/ EndsAlone \/ TornDown

-----------------------------------------------------------------------------
(* The encoder programmer *)

Programmer(from, to) ==
    /\ prog = from /\ prog' = to
    /\ UNCHANGED <<pc, cmd, session, factory, state, muted, files, queue, client, began>>

\* Mutant of Acquire: the programmer does not wait for a start to end.
AcquireAnyway == lease' = "prog" /\ pending' = pending /\ Programmer("idle", "holds")

Acquire == lease = "free" /\ lease' = "prog" /\ pending' = pending /\ Programmer("idle", "holds")

\* the session gate, asked over the pipe, and then packet zero
CheckStopped == ~Active(run) /\ Programmer("holds", "checked") /\ UNCHANGED <<lease, pending>>
Write == Programmer("checked", "writes") /\ lease' = lease /\ pending' = TRUE

\* refused, verified or interrupted; a marker may be left, or be reconciled
Release ==
    /\ \E p \in {"holds", "checked", "writes"} : Programmer(p, "idle")
    /\ lease' = "free" /\ pending' \in {pending, FALSE}

Encoder == Acquire \/ CheckStopped \/ Write \/ Release

-----------------------------------------------------------------------------
(* Clients, the tray and stdin *)

Client(c, next) ==
    /\ client' = [client EXCEPT ![c] = next]
    /\ UNCHANGED <<pc, cmd, session, factory, state, muted, machine>>

StartOps == {"start", "play", "reload"}     \* answered by await_start

\* the bound on generations: applies reported, sent or in hand
ApplyRoom == apply.gen + Len(queue) + (IF pc = "recv" THEN 0 ELSE 1) < MaxApplies

\* the command a verb sends; resume puts back what was stopped
Wants(verb) ==
    CASE verb = "map" -> "bind" [] verb = "assign" -> "reload" [] verb = "apply" -> "swap"
      [] verb = "resume" -> (IF origin = "staged" THEN "play" ELSE "start")
      [] OTHER -> verb

\* the verbs that write first, and apply what they wrote if asked to
Writing == {"map", "assign"}

\* the snapshot a verb decides on
Ask(c, verb) ==
    /\ client[c].at = IF verb \in Writing THEN "saved" ELSE "idle"
    /\ verb \in {"start", "resume"} => ~Active(run)
    /\ verb \in Writing \cup {"stop", "apply"} => Active(run)
    /\ verb \in {"map", "apply"} => ApplyRoom
    /\ verb = "resume" => origin # "unknown"
    /\ \E op \in {Wants(verb)} :
         Client(c, [at |-> "asked", op |-> op, saw |-> FALSE,
                    base |-> IF op \in StartOps THEN run ELSE Stopped,
                    gen |-> IF op \in {"bind", "swap"} THEN apply.gen ELSE 0])
    /\ began' = began \ {c}
    /\ promised' = IF verb \in Writing THEN disk ELSE promised
    /\ UNCHANGED <<disk, draft, queue>>

Enqueue(command) == Len(queue) < QueueBound /\ queue' = Append(queue, command)

Send(c) ==
    /\ client[c].at = "asked" /\ pc # "gone"
    /\ \E title \in Games \cup {Keep} :
         /\ title # Keep => client[c].op = "start"
         /\ Enqueue(Command(client[c].op,
                            IF client[c].op \in {"play", "swap"} THEN draft ELSE None, title))
    /\ Client(c, [client[c] EXCEPT !.at = "wait"])
    /\ UNCHANGED <<files, began>>

\* map and slot-assign write the config first
Save(c) ==
    /\ client[c].at = "idle" /\ disk < MaxSaves
    /\ disk' = disk + 1 /\ Client(c, [Resting EXCEPT !.at = "saved"])
    /\ UNCHANGED <<draft, promised, queue, began>>

EditDraft(c) ==
    /\ client[c].at = "idle" /\ draft < MaxEdits
    /\ draft' = draft + 1 /\ Client(c, Resting)
    /\ UNCHANGED <<disk, promised, queue, began>>

\* Mutant of Moved: whatever the state says now is taken for the answer.
MovedAnyway(c) == client[c].saw \/ run # Starting

\* what await_start, await_stop, await_apply and the shutdown handshake see
Moved(c) == client[c].saw \/ run # client[c].base
Verdict(c, word) ==
    CASE word = "running" -> client[c].op \in StartOps /\ run.word = "running" /\ Moved(c)
      [] word = "failed"  -> client[c].op \in StartOps /\ run.word = "failed" /\ Moved(c)
      [] word = "ended"   -> client[c].op \in StartOps /\ run = Stopped /\ client[c].saw
      [] word = "stopped" -> client[c].op = "stop" /\ run.word \in {"stopped", "failed"}
      [] word = "applied" -> client[c].op \in {"bind", "swap"} /\ apply.gen > client[c].gen
      [] word = "gone"    -> pc = "gone"
Verdicts == {"running", "failed", "ended", "stopped", "applied", "gone"}

Rest(c) == Client(c, Resting) /\ began' = began \ {c} /\ UNCHANGED <<disk, draft, queue>>

Answer(c, word) ==
    client[c].at = "wait" /\ Verdict(c, word) /\ Rest(c) /\ promised' = promised

SeeStarting(c) ==
    /\ client[c].at = "wait" /\ client[c].op \in StartOps /\ run = Starting /\ ~client[c].saw
    /\ Client(c, [client[c] EXCEPT !.saw = TRUE])
    /\ UNCHANGED <<files, queue, began>>

\* the settle budget is over; or the daemon is gone
GiveUp(c) ==
    /\ \/ client[c].at = "wait"
       \/ client[c].at = "asked" /\ pc = "gone"
    /\ Rest(c) /\ promised' = promised

\* a save that sends nothing: "the next session start reads it", or, beside a
\* session and without "reload" in the request, "`reload` to apply now"
LeaveSaved(c) ==
    /\ client[c].at = "saved"
    /\ promised' = IF Active(run) THEN promised ELSE disk
    /\ Rest(c)

Serve(c) ==
    \/ \E verb \in Verbs : Ask(c, verb)
    \/ Send(c) \/ SeeStarting(c) \/ GiveUp(c) \/ LeaveSaved(c)
    \/ \E word \in Verdicts : Answer(c, word)
    \/ Verbs \cap Writing # {} /\ Save(c)
    \/ "play" \in Verbs /\ EditDraft(c)

\* the tray and stdin look at nothing and wait for nothing
TraySends(op) ==
    /\ pc # "gone" /\ Enqueue(Command(op, None, Keep))
    /\ UNCHANGED <<pc, cmd, session, factory, state, muted, machine, files, client, began>>

Next ==
    \/ Loop \/ Session \/ Encoder
    \/ \E c \in Clients : Serve(c)
    \/ \E op \in Tray : TraySends(op)

Spec == Init /\ [][Next]_vars

\* the loop runs; a session plugs its pads, obeys its stop flag and tears down
FairSpec ==
    /\ Spec /\ WF_vars(Loop)
    /\ WF_vars(Plugged \/ SetupFails) /\ WF_vars(Stops) /\ WF_vars(TornDown)

-----------------------------------------------------------------------------
(* Properties *)

PCs == {"recv", "free", "reap", "begin", "make", "undo", "door", "exit", "gone"}

TypeOK ==
    /\ pc \in PCs /\ cmd \in InHand
    /\ thread \in Threads /\ stop \in BOOLEAN /\ outcome \in {"ok", "bad"} /\ plan \in Plans
    /\ staged \in Specs /\ game \in Games
    /\ run \in Runs /\ origin \in {"unknown", "config", "staged"}
    /\ apply \in [gen : Nat, ok : BOOLEAN]
    /\ muted \in BOOLEAN
    /\ lease \in {"free", "start", "prog"} /\ pending \in BOOLEAN
    /\ prog \in {"idle", "holds", "checked", "writes"}
    /\ disk \in Versions /\ draft \in Versions /\ promised \in Versions
    /\ queue \in Seq(Commands)
    /\ client \in [Clients -> [at : {"idle", "saved", "asked", "wait"}, op : Ops \cup {None},
                               base : Runs, gen : Nat, saw : BOOLEAN]]
    /\ began \subseteq Clients

\* The panel is dead exactly while a session owns it: no way out of a command, and
\* no session that ends by itself, leaves it muted with nothing behind it, and the
\* state that everybody polls says "running" exactly then.
PanelFollowsSession ==
    /\ pc \in {"recv", "door"} => (muted <=> thread # None)
    /\ pc \in {"recv", "door", "reap"} => (run.word = "running" <=> thread # None)
    /\ pc = "gone" => ~muted /\ thread = None

\* Sessions never overlap: a session is made only when its predecessor was joined,
\* and its panel is muted by then.
OneSession == pc \in {"begin", "make", "undo", "exit", "free"} => thread = None

\* The encoder is never written while a session is there or being made, whatever
\* of both was asked for first (the lease and the session gate at packet zero).
NeverProgramsWhilePlaying ==
    prog \in {"checked", "writes"} => thread = None /\ pc # "make" /\ lease = "prog"

\* Between commands the state tells what the live session was built from, and the
\* factory points at it, so that a resume or a bounce puts back what was playing.
OriginIsTrue ==
    pc = "recv" /\ thread # None =>
        /\ origin = plan.src
        /\ staged = IF plan.src = "staged" THEN plan.ver ELSE None

\* No edit is forgotten: a session from the config runs the newest save whose client
\* was promised it ("reload" with the save, or "the next session start reads it"),
\* unless a report says not or a command that applies it is still to come.  Saves
\* that leave a session on its old plan by the client's choice promise nothing.
NoEditIsForgotten ==
    pc = "recv" /\ thread # None /\ origin = "config" =>
        promised <= plan.ver \/ ApplyIsComing

\* A client is told "running" only of a session that began after it asked, and
\* "stopped" only when no session is left.
AnswersAreTrue ==
    [][\A c \in Clients : /\ Answer(c, "running") => c \in began
                          /\ Answer(c, "stopped") => thread = None]_vars

\* A Quit, whatever is going on, ends with nothing running and the panel free.
QuitLeavesNothing ==
    (\E i \in DOMAIN queue : queue[i].op = "quit") ~>
        (pc = "gone" /\ thread = None /\ ~muted)

\* What the comment on apply_bindings says: a session without a swap door is left
\* alone.  It is restarted, even when an escape or the game has just ended it.
OnlyStructureBounces == [][pc = "door" /\ pc' = "reap" => thread = "up"]_vars
=============================================================================
