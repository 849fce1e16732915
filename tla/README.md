# A verification project for ksx

ksx turns keyboards (arcade panels above all) into virtual game controllers on
Windows. It takes keystrokes away from Windows while a game runs and must give
them back in every other situation: when a person makes the escape gesture,
when the engine stalls, when a driver refuses, when a thread panics, when the
session ends. Beside that path it changes things that outlive a session: the
Windows driver of a keyboard, and the key chart in the EEPROM of an encoder.
This directory models these parts of ksx in TLA+, checks them with TLC on small
instances, and proves most of their safety properties with TLAPS for every value
of the constants. Paths below are relative to
`src/crates/` unless they begin with `src/`.

- [The system](#the-system): components, state, interactions, what is hard
- [The modules](#the-modules): what models what
- [The runs](#the-runs): what is checked, bounds, fairness
- [What is proved](#what-is-proved)
- [Disagreements with the code's own word](#disagreements-with-the-codes-own-word)
- [What is not modelled](#what-is-not-modelled), and [the plan](#the-plan)

## The system

### How a keystroke travels

```
 keyboards ──> capture thread(s) ──(channel, 1024, try_send)──> engine thread
                 │    ▲      │                                       │
        re-send/ │    │ctl   └─> escape detector ─> latch            │ DeltaTx
        inject   ▼    │                              (shared)        ▼ (channel, 1024)
              Windows │                                          output thread ─> pads
                      │                                              ▲
                      └──────────── supervisor (polls 50 ms) ────────┘
                                        ▲
                              daemon control loop  <── control pipe, tray, autostart
                                        │
                              panel + typethrough pump  <── learn-key, input test
```

While no session runs, the boards claimed with WinUSB (Windows cannot see them)
are typed by the *typethrough pump*; when a session starts the pump is muted and
hands its keys to the session.

### Components

| Component | Sources | State | Operations | What makes it correct |
|---|---|---|---|---|
| Escape detector | `ksx-core/src/escape.rs` | held modifiers per board, four counters | observe, forget_device | a gesture is never missed or invented; keys of two boards never add up to the stop |
| Capture decision and threads | `ksx-capture/src/{interception,winusb/mod,composite,decision,guard}.rs` | control channel, passthrough flags, takes, published snapshot, injected keys | drain control, receive, decide, rescan, leave | the latch frees all boards; a message of the supervisor does not undo it; no key is left down when a thread ends |
| Escape latch | `ksx-capture/src/escape.rs` | relaxed atomic flag, three counters | observe, arm, snapshot | any thread's gesture frees every board |
| Stall watchdog | `ksx-capture/src/watchdog.rs` | failing since, tripped | on_send_ok, on_send_failed, re-arm | a thread that swallows keys can always still trip |
| Capture health, presence | `ksx-capture/src/{health,presence}.rs` | flags and counters; set of boards | baseline, since, publish | a session judges its own events only |
| Typethrough pump | `ksx-backend/src/daemon/typethrough.rs`, `ksx-platform/src/inject.rs` | owned, effective, session, observer, held keys | Emulating/Typing/Owning, Attach/Detach, Observe/Unobserve, event, Shutdown | no key stuck in Windows; an acknowledged mode holds; the latch wins |
| Panel | `ksx-backend/src/daemon/panel.rs` | claims, taps | set_emulating, set_owning, observe, session_backend | the panel is always given back to typing |
| Learn-key, input test | `ksx-backend/src/daemon/{learn,input_test,observe}.rs` | generation, phase, worker threads | start, cancel, worker steps | a test never shares the panel; verdicts belong to the generation shown |
| Engine thread, DeltaTx | `ksx-backend/src/run/supervisor.rs` | pending states, channels | key, command, idle, end | the newest pad state is never lost or overtaken |
| Output thread | same | pads plugged, their state | plug, deliver, fail, neutralise, unplug | pads outlive capture; nothing is left held |
| Supervisor | same | baselines, blocking, boards present | start, poll, mirror, teardown | view and capture agree; trouble ends the session; the end frees the keyboards |
| Engine | `ksx-core/src/{engine,macros,socd,pad}.rs` | keys down, holders, runs, deadlines, pad | handle_at, tick, cancel_macros, release_device, swap_tables | a control is on exactly while something holds it; nothing runs for ever |
| Daemon control loop | `ksx-backend/src/daemon/mod.rs` | session, factory, published state, panel mute | start, play, reload, stop, apply, bounce, reap, quit | the panel is muted exactly while a session owns it; no save whose client was promised it is forgotten |
| Control pipe | `ksx-backend/src/daemon/pipe.rs`, `ksx-platform/src/local_pipe.rs` | clients, their waits | one request at a time | what a client is told happened after it asked |
| Live feed | `ksx-backend/src/feed.rs`, `daemon/live*.rs` | lossy queues | publish, poll | the pipeline is never slowed |
| WinUSB driver transaction | `ksx-platform/src/winusb_transaction.rs`, `ksx-winusb-helper` | receipts on disk; driver store, certificates | prepare, release, repair, sweep, cleanup, release-all | nothing on the machine that the receipts do not account for |
| HIDMaestro host | `ksx-hidmaestro/src/*`, `ksx-output/src/hidmaestro.rs`, `src/tools/hidmaestro-sdk-host` | the client's handles and the ids it has seen; the host's live pads with their leases; one pipe | create, submit, destroy, shutdown, renew, expire | the two sides agree on every pad; a slow host costs nobody a pad; no pad outlives its client |
| Games | `ksx-games/src/*` | process tree | track | the session ends once, when the game is gone |
| Configuration | `ksx-config/src/*`, `ksx-core/src/{preset,stage,selector,persona,transport,blocking}.rs` | files, staged setup | load, validate, replace | a file is replaced atomically |
| Panel programming | `ksx-backend/src/panel_programming*`, `panel_observations.rs` | chart on the board; backups, marker, trial, receipt on disk | chart, program, restore | a chart nobody has read is marked; the way back is kept |
| Screens, launcher, installers | `ksx-studio`, `ksx-cabinet`, `ksx-app`, `ksx-launcher`, `src/packaging` | — | — | no state of the input path |
| Vendored and tooling | `vigem-client`, `src/third_party`, `src/tools`, `ksx-fuzz` | — | — | not part of the program's own logic |

### What is hard

- **Interleaving.** Several capture threads, a supervisor that polls, an engine,
  an output thread and a pump share a latch, bounded channels, health counters
  and command queues. The latch is loaded and stored in two steps; a thread acts
  on a snapshot it published earlier; a command and a queued event are taken in
  random order by `select!`; a caller gives up on an acknowledgement whose
  command is still queued.
- **Failure.** SendInput is refused on the secure desktop; the driver refuses an
  update or the neutral update at the end; any worker may panic; a board may
  be unplugged with keys down; a channel may be full.
- **Ordering and lifetime.** Pads are plugged before keyboards are captured and
  unplugged after they are free; daemon-lifetime handles are read against
  session baselines; a learn may be superseded while its cleanup is under way;
  a session may end by itself while a command about it is queued.
- **Death between two steps.** The driver transaction and the panel writer change
  something outside the process in many steps, with a record on disk before or
  after each; the process may die, the command may fail or ask for a reboot, the
  cable may be pulled at any of them.
- **Two processes and a clock.** The rich pads live in an elevated sibling process.
  Making one takes seconds, a renewal is due every second, a lease lasts five: what
  either side believes is compared with what the other has done meanwhile.
- **Incremental state.** The engine never recomputes the pad: it rescans the
  holders an event may have moved, with deadlines and late wakes in between.

The hazards, each with the line where it bites and the properties that watch it,
are listed in `PROJECT.json`. Five more are known that no property covers: a full
event channel drops a key's release (`ksx-capture/src/winusb/mod.rs:613`; the
watchdog and the teardown's neutral update end it), `ReleaseDevice` may overtake
queued presses (`supervisor.rs:1755`), a pad report read while another process
writes it (`ksx-hidmaestro/src/seqlock.rs:147`), a board that is unplugged and
replugged within a rescan (`supervisor.rs:1278`), and a launcher that exits before
its game is seen (`ksx-games/src/tracker.rs:272`).

## The modules

| Module | Models | Composes or refines |
|---|---|---|
| `EscapeDetector` | `escape.rs`: the three gestures over keys, boards that leave and return | |
| `Capture` | one WinUSB thread per claimed board, one Interception thread, the shared latch, the watchdog, the event channel | abstracts the detector to "this stroke completes a gesture" |
| `Typethrough` | the pump, its callers, the claim's capture threads | |
| `Observers` | learn-key and input-test workers around the pump's one observer slot | abstracts the pump to its slot |
| `Pipeline` | engine thread, DeltaTx, output thread, supervisor start and teardown | refines `PadRegister` |
| `PadRegister` | what the pads promise the engine: each pad moves only forward through the states asked for, the newest is never lost and is shown | abstract specification |
| `Session` | the supervisor's poll beside one capture thread over several sessions: gestures, trips, hotplug, baselines | abstracts `Capture` to what a thread does with messages |
| `Engine` | one slot of the translation engine: holders, chords, opposing keys, macros, turbos, latches, deadlines | what `Pipeline` reduces to "a board or a macro holds the slot" |
| `ControlLoop` | the daemon's loop, the session thread's life, the clients of the pipe with their waits, the tray, an encoder programmer in another process | abstracts a session to setup, up, teardown, done; has the lease that `PanelProgramming` runs under |
| `PanelProgramming` | one encoder, its chart, the four durable records, the operations and their deaths | one operation at a time, as the lease of `ControlLoop` enforces |
| `DriverTransaction` | the elevated helper, its journal, the driver store, certificates and boards | refines `ClaimLedger` |
| `ClaimLedger` | what the helper promises of the machine: on record before it is there, trusted while installed | abstract specification |
| `HidHost` | the output thread with the HIDMaestro backend, its client and transport; the SDK host in its own process; time | what `Pipeline` reduces to a driver that may refuse |
| `*_proofs` | theorems about the module they name; `Supervisor_proofs` about `Pipeline` and `Session`, `Capture_proofs` also about `EscapeDetector`, `Panel_proofs` about `Observers` and `Typethrough` | |
| `MC*` | instances for TLC | |

### EscapeDetector

`mods` and `count` are the detector's fields; `Observe` is `observe`, whose
order matters (the combo is looked at first, then the counters). `Forget` is
`forget_device`. `pressed`, `attached` and `stale` are the world; `trace` is the
history, on which the reference definition of a sequence (`Completes`) is written
independently of the counters. The code's counters are u32
and never saturate: a LeftControl held down would have to repeat 2^32 times
without another key to overflow one, so they are naturals here.

### Capture

A thread's loop is `drain` (control channel) → `wait` → `observe` → `free`/`bind`
(the store of a gesture) → `decide` → `drain`, and `done`. `Decision` is the
Interception thread's published snapshot; a WinUSB thread has none and reads the
latch live (`may_reach_windows`). The Interception thread calls `publish()` with a
passthrough it loads first, and the decision is stored at the end of the call, so
each of its calls is two steps: `SetCaptured` and `Rescan` (then `republish`), a
board learned in `Receive` (`learn`), and `Load` after a gesture of its own
(`publish`) put what they load in `pass`; `Publish` stores it. A call with the
literal `true` loads nothing and is one step (`PassAll`).
`ReachesWindows` is `should_resend` for both, `Type` what follows in Windows,
`Drop` and `Rearm` the watchdog. Every way out is an action: `Shutdown`,
`ChannelClosed`, `Panic`, `DeviceLost`; all pass through `Leave`. The latch's
load and store are separate too (`Detect`, `StoreLatch`), so two threads' gestures,
and the decision of one of them, interleave as the relaxed atomic lets them.
`wasOff` is a ghost: the latch was off at some moment since the thread took up
the message, stroke or rescan in its hand, or since it last set the latch itself.
An escape that stands all that time is not undone (`EscapeIsNotUndone`); one that
another thread makes between load and store is missed by that decision
(`CaptureLateStore`, below) and heard by a later one (`EscapeIsHeard`). `Incidents` switches the
environment's misbehaviour per run; the proofs hold for every choice.

### Typethrough

`Command` and `Event` are the two arms of the pump's `select!`. `Decided` is
`decide`, `Apply` is `apply` with `release_all`, `Exit` every way of leaving the
loop. A caller's bounded wait is `Call` … `StopWaiting`: the command stays queued.
`sure` is a ghost: the mode a caller was told is in force, until anyone asks
for another; `seen` and `lost` are ghosts for what the pump has been told and
what Windows refused.

### Observers

Each request of the pipe is an action with the pipe's own gates
(`LearnReleased`, `TestReleased`); each worker goes through `Stages`; the pump
is its command queue and one anonymous slot. `Play` flips a running session at
any time, as the tray and autostart do without asking the pipe.

### Pipeline

`Send`/`Flush` are `DeltaTx::send`/`flush`: coalesce in place, append, fill the
channel, keep the rest. `Wake` is one turn of the engine loop: one thing is
handled, its deltas are sent, then the tick ends the macros that are due and
sends again. The engine's data are reduced to what *holds* a slot (the board
whose key is down, a macro), so a pad state is a set of holders; what the holders
do to the controls is `Engine`. The order in which a batch builds its slots is left open
(any bijection). `Deliver`, `ServiceFails`, `OutputStops`, `Neutralise`, `Unplug`
and `OutputPanics` are the output thread; `StartSession`, `GiveUp`, `EndSession`,
`EndBroken`, `Uncapture`, `EngineJoined`, `OutputJoined` are `supervise` with its
teardown contract. `Finished` is the one state in which the system stops.

### Session

The supervisor's loop is four steps (`health`, `escapes`, `presence`, `watch`) in
the order of the code, then `leave`, `release`, `join`. `Mirrored(n)` is the n
messages of `mirror_escapes`, `Wanted` is `apply_capture`. `Arm` and `Restart`
are the daemon's two ways of starting a session, with and without arming the
latch. `seen` is the pair of baselines. `ownTrip` is a ghost.

### Engine

`tables` is what `EngineTables::build` makes of a preset, `slot` the `SlotRuntime`: the
holders held, the pad, the runs of macros, turbos and latches, and the deadlines. A holder is a key, a chord, a step of a
macro, a turbo endpoint or a latch (`EngineTables::build`). `Handle` is
`handle_at`: the key sets, the chords (`Active`, `ByChords`), the opposing sides
(`Driving`, `Winner`, `Consumed`), the macros a key starts, aborts or interrupts,
then the turbos and latches that the result feeds, then `Applied` (`apply_scan`)
over the holders that may have moved. A slot without such transforms takes the
plain path (`Plain`). `Tick` takes everything that is due; `Elapse` lets time
pass, and `MaxLate` bounds how late the thread may wake. Deadlines are relative to
now. A control is digital, or the axis `X` with a deflection; where the code's
answer depends on the order in which equal demands are met, the model leaves it
open. The slots of an engine share nothing but the list of deadlines, so one slot
stands for all.

### ControlLoop

`pc` is the loop's place between two visible effects: `recv`, `reap`, `begin`
(mute, lease), `make`, `undo` (a start that failed gives the panel back), `door`
(the hot-swap handle), `exit`. `Take…` are the arms of `control_loop_with`;
`thread`, `stop` and `outcome` the `LiveSession`; `staged`, `game` and `origin`
the factory and what is published of it; `apply` the report of the last apply. A
session that ends by itself (`EndsAlone`) waits to be reaped. A client sends and then
polls the shared state for its verdict (`Moved`, `Verdict`), or gives up.
`Programmer`, `Acquire`, `CheckStopped` and `Write` are an encoder write in
another process, which takes the lease that `start` takes. `began` is a ghost: a
session began since this client asked.

A save (`map`, `slot-assign`) writes the config and then looks at the published
state. With a session and `"reload": true` it asks for what it wrote to be applied
(`Ask`); without a session it tells the client that the next start reads it, and
with one, but without `reload`, that a session is running on the old plan
(`LeaveSaved`; `pipe.rs:2056`, `:1989`). The ghost `promised` is the newest save of
the first two kinds. The third sends nothing and promises nothing: the session
stays on its plan by the client's choice, which is why `NoEditIsForgotten` speaks of
`promised` and not of `disk`. A report that an apply failed takes the promise back.

### PanelProgramming

`Program`, `Restore` and `Chart` are the three operations up to what they refuse;
`Save`, `Begin`, `Packet`, `Verify`, `RecordTrial`, `EndTrial`, `ClearTrial` and
`Resolve` the write; `Backed`, `Reconstruct` and `Reconcile` what a chart read does
about an interrupted write. `Fail` may end any of them anywhere, which stands for
an error return and for the death of the process: every record is renamed into
place, so there is nothing between two steps. A saved backup may hold nothing
readable; that is why the code opens it again. A chart is an array of packets; a
trial ("one terminal") is a chart that differs in one packet. `Foreign` is another
vendor's tool, which the exclusive handle keeps out while a write holds the board
open. Assumed: a backup that was once verified stays readable.

### DriverTransaction

The helper's program counter walks through `prepare_with`,
`rollback_installed`, `release_with`, `cleanup_with`, the stale-claim repair and
release-all. `Persist` is `atomic_write`, whose failure may leave a temporary file
that refuses later writes and readers. `Try` and `Run` are an internal step and a
`pnputil` command, which may fail, ask for a reboot, or do nothing and answer
anything; `Crash` is the death of the helper. Plug and Play is modelled from how
the code uses it: a package takes every enumerated board of its hardware id, a
removed device comes back with the next scan, published names (`oemNN.inf`) are
used again. A receipt is never `None`, the empty place of the journal. Assumed: the named mutex keeps helpers apart; a `pnputil` whose helper
died ends before the next helper starts.

### HidHost

`stage` and `todo` are where `output_thread` is, `pads` the backend's handles,
`issued` the ids the client has seen, `conn` the conversation, which any failure
closes for good (`Poisoned` is `poison` with what the thread makes of the error).
`Request` writes a frame, `Take` is the answer, `Timeout` the deadline. The host's
loop is `Read`, one action per case of `Dispatch` with `Reply`, `Expire` and
`Expired` for leases that ran out, `EndOfFile` and `Dispose` for its end. A frame is
carried out while time passes: `Tick` may come between `Read` and the reply, also
after the client has given up. `silence` and `lapsed` are ghosts. The two limits on
pads (eight, and four that sit on XInput) are one `Limit`; the sixteen ids a
conversation may see are not reached. Any frame that the host reads stamps the
leases of all pads anew: `docs/HIDMAESTRO-STATE.md`, which says that it wins over
what differs from it, describes it so, and the host does it; the comments at
`ksx-hidmaestro/src/host.rs:19` and `:73` and the reference server in that file's
tests (`:2514`) still describe a lease that only the pad's own Submit renews. Assumed of the SDK: disposing its context
takes away whatever it made.

## The runs

| Run | Instance | States | Shows |
|---|---|---|---|
| `escape_detector` | 2 boards, threshold 2, 5 key events, one board away at a time | 2.7 M | sequences fire exactly when the history says so, the stop is physical |
| `capture_two_threads` | 1 claimed + 1 Interception board that come and go, sessions that arm the latch anew, one key | 5.3 M | nobody goes on suppressing behind the published decision or a spent watchdog; an escape that stands is not undone |
| `capture_claimed_board` | 1 claimed board with unplugging, refusal, dead engine, panic, a take of bound keys | 0.62 M | nothing is left down by any way of ending or re-tasking; Shutdown ends the thread |
| `typethrough_pump` | 1 board, a client, refused injection, full channel, unplug | 0.39 M | no stuck key, acknowledged modes hold, releases reach Windows in the end |
| `observers` | 2 learns and a test, acknowledgements that may be missed | 0.28 M | the test is alone, hits are current, the panel comes back, learns settle |
| `pipeline` | 1 board driving 2 pads, a macro on the first, both channels of size 1 | 80 k | nothing left held, the session ends, refinement of `PadRegister` |
| `session` | 1 board, 2 sessions, 2 gestures, 1 stop, trips and hotplug without bound | 0.13 M | capture follows the view, nothing is overlooked: trouble ends the session, hotplug is seen |
| `engine` | 3 keys, a mouse button, 6 presets, wakes up to 2 late | 10 k | the pad is current, bookkeeping, who came last decides, steps are seen, exits let go, runs end |
| `control_loop` | 1 connection with 7 verbs, the tray that quits, the programmer, 2 saves with or without `reload`, 1 edit, 1 apply | 1.6 M | panel and state follow the session, programming excludes play, no promised save forgotten, answers are true, quit leaves nothing |
| `panel_programming` | 2 packets of 2 values, 5 backups | 3.8 M | the unread is marked, the way back is kept, the writer is proved |
| `driver_transaction` | 2 identical boards, 2 transactions, 2 published names, 1 spare keyboard, 2 faults | 1.7 M (up to symmetry) | refinement of `ClaimLedger`, the journal's invariants, only its own package, cleanup leaves nothing, every end is on record |
| `hid_host` | sessions of 1 to 3 pads on a host of 2, leases of 2 units, deadlines of 3 | 88 k | the two sides agree, only silence costs a pad, no pad outlives its client |

`CaptureEscape.cfg` (module `MCCapture`, 1.2 M states) is kept beside these runs: it
holds of the same two boards, always plugged, that an escape that stays in force is
heard by the Interception thread in the end and stays heard (`EscapeIsHeard`); it is
what is left of the promise that `CaptureTapStale` and `CaptureLateStore` show broken
for a time.

### Bounds, and why they are enough

- *Boards.* The interaction between threads is pairwise (one sets the latch,
  another decides), so one claimed and one Interception board show it; Capture's
  properties speak of one board at a time. In `Session` boards only enter as a
  set that is compared as a whole: a board that is there or is not shows every
  comparison; a run with two boards (3.2 million states, safety only) passes too.
- *Keys.* `LCtrl` is the one key that can end a sequence gesture and is itself a
  bound key, so one key covers gesture and typing. `typethrough_pump` has one
  board; that one board's release cancels no press of another that types the same
  key was checked with two (safety only), and the theorems hold for any number.
- *Channels.* Capacity 1 (0 for the event channel of `capture_two_threads`: every
  event is dropped) makes "full" and "empty" one step apart, which is where
  coalescing, dropping and the watchdog act. `Pipeline` was also run with
  capacity 2 (safety only, 290 000 states), and the theorems hold for any.
- *Threshold 2 and 5 events.* A sequence of two taps takes four events; a fifth
  breaks it in the middle or continues after it. The proofs take any threshold.
  `OneAway` (a state constraint) keeps two boards from being away together: the
  detector's state of one board is independent of the other's.
- *Three keys and a mouse button* (`Engine`): two opposing keys, and one that
  pairs with either in a chord or triggers a macro; the button is the second
  device. Six presets bring together the transforms that meet on one control,
  the last one all of them at once. Steps and gaps last 1 to 3; a wake 2 late
  passes the end of the shortest step and of its successor.
- *Two saves, one edit, one apply* (`ControlLoop`): a save in flight while the one
  before it is applied, and a draft beside the config. The channel holds one
  command, so that clients and tray find it full; the theorems take any length.
- *Five backups* (`PanelProgramming`): a trial, its restore, a full chart and two
  more operations, any of them interrupted. Two packets make a mixture of old and
  new; two values let a chart agree with another in one packet and not in the
  other. `MaxPrior` = 2 stands for the code's limit on chains of repairs, which five
  backups reach.
- *Two faults* (`DriverTransaction`): a failure, and another in the handling of
  the first: every recovery path starts after one. Two transactions meet on one
  published name when the first is over.
- *Leases of two units, deadlines of three* (`HidHost`), where the code has five
  seconds and thirty: a request may outlast a lease, which is what the host's
  restarting of leases is for. Three slots on a host of two meet the limit; two pads
  are a pad and the other whose lease must not suffer.
- *Two sessions, two learns, one test.* The first sets a baseline or leaves a
  cleanup tail, the second meets it.
- `MaxToggles = 2` covers a single gesture and a pair that cancels out between
  two polls; `MaxStops = 1`, as a stop ends the session. `CtlBound`, `CmdBound`
  and `KeyCap` cap queues that the code leaves unbounded or at 1024; a sender
  waits for room in the model only where the code's sender is the environment.

### Fairness

- `Capture`: each thread keeps running (`WF` of `ThreadStep`): waits time out
  after `WAIT_TIMEOUT_MS`, nothing in the loop blocks. `CaptureEscape.cfg` adds that
  the idle rescan is not put off for ever (`SF` of `Rescan`): it needs a wait that
  times out `PRESENCE_RESCAN_MS` after the last one, which is to say a person who
  stops typing now and again. One who never does is `CaptureTapStale`.
- `Typethrough`: `select!` picks at random among ready arms, so neither an event
  nor a command that stays ready is passed over for ever; a leaving capture
  thread leaves.
- `Observers`: workers are bounded by timeouts; the pump takes commands.
- `Pipeline`: each thread runs. The engine's idle branch with nothing due is
  fair: it is reached after one millisecond without an event when a state is
  pending. A plug call returns or is refused. No keystroke, command, deadline or
  crash is fair.
- `Session`: supervisor, capture thread and its idle rescan run. Gestures,
  stalls, hotplug and starts are nobody's duty.
- `Engine`: time passes, and the thread takes what is due (it waits until the next
  deadline at the latest). Keys are nobody's duty: a trigger may be held for ever.
- `ControlLoop`: the loop runs; a session thread plugs its pads or fails, obeys its
  stop flag and tears down (that a session ends is `SessionEnds` of `Pipeline`).
- `HidHost`: the client's thread, the host's loop and time go on (an SDK call
  returns, late or with an error). Hangs and deaths are actions of their own.
- `PanelProgramming`, `DriverTransaction`: none; every operation may be abandoned
  at any step, and nothing resumes it but the next call.

## What is proved

TLAPS checks, for every value of the constants that satisfies the modules'
named assumptions (three proof modules extend two components each; those two share
no name and no variable, and no theorem there speaks of both):

| Module | Theorems | Argument |
|---|---|---|
| `Capture_proofs` | types, `SnapshotKeepsUp`, `CapturingIsGuarded` (together `NeverLeftCaptured`), `EscapeIsNotUndone`, `LatchFreesClaimedBoards`, `NothingStranded` | the type invariant includes that a deciding thread holds a stroke of one of its own boards; each action property follows step by step from it, with one lemma per shape of step |
| ... of `EscapeDetector` | types, `StopIsPhysical`, `SequencesMatchHistory`, `TapsAreNeverIgnored` | for a board that is not stale, the detector's modifiers are held keys; the four counters count the longest undisturbed stretch that ends now (`HistoryInv`), and a later start counts no more, so that stretch decides whether any completes |
| `Panel_proofs`, of `Observers` | types, `TestIsAlone`, `HitIsCurrent`, `PanelComesBack` | an active learn is counted while its worker lives, so the gates of the pipe see every worker; a hit's worker has reported and changes no more; whatever fills the slot, now or by a queued command, is followed by an Unobserve or comes of a worker that still owes one |
| ... of `Typethrough` | types, `NoStuckKey`, `ExitLetsGo`, `AcknowledgedModeHolds`, `LatchFreesPanel` | held keys are what Windows holds less what it refused; the mode in force at the last decision bounds what is held |
| `Supervisor_proofs`, of `Pipeline` | types, `NewestIsNeverLost`, `PadsOutliveCapture`, `NothingIsLeftHeld`, and that it implements `PadRegister!Safety` (`ImplementsRegister`) | `Carries(link, v)`: every slot not waiting has `v[s]` last on the wire or on the pad, waiting slots are unique and current. `FlushCarries`, `SendCarries` and `DeliverCarries` show that each operation of DeltaTx and the driver keeps it, for any capacity; the invariant adds the stages the threads may be in together (`Stage`) and that nothing has moved before the start (`Quiet`) |
| ... of `Session` | types, `CaptureFollowsView`, `FreeOutsideSessions` | inductive invariant: baseline not above the counter, no capture thread outside a session, and the last message asked for is the view's; the parity of `Mirrored(n)` is the arithmetic core |
| `Engine_proofs` | types and `TimersMatchRuns` and `NeutralAtRest` (together `Bookkeeping`), `PadIsCurrent`, `OrderDecides`, `StepsAreSeen`, `ExitsLetGo` | the pad is composed of what is recorded as held (`Composed`), the records of a scan's holders are accurate (`Accurate`), chords and sides are those of the keys down (`Settled`), no turbo runs without a source (`Driven`), a deadline leaves its step to be seen (`Lasting`), and who has the axis follows the presses (`Ordered`); see below |
| `ControlLoop_proofs` | types, `PanelFollowsSession`, `OneSession`, `NeverProgramsWhilePlaying`, `OriginIsTrue`, `NoEditIsForgotten`, `AnswersAreTrue` | what holds at each place of the loop (the session joined before `begin`, muted from there, the lease held in `make`); a plan in the loop's hand is of the newest save or its apply is queued; a client that could still be told "running" has asked before the session began |
| `PanelProgramming_proofs` | types, `UnseenIsMarked`, `PlayIsSettled`, `WayBackIsKept`, `RecordsStayValid`, `WriterIsProved` | backups only grow, so a record that names a valid one stays valid; during a write the marker's head is the job in hand, its last entry the first chart; a trial is recorded as verified only when its chart was seen |
| `HidHost_proofs` | `Agreement`, `OnlySilenceCostsAPad` | where the conversation may be on each side at each stage (`Phases`, `Passes`), one frame and one answer in flight at most (`OneInFlight`), ids given once (`Distinct`), what the client holds after what is still on its way equals what the host holds (`Sides`), and a lease is older than its silence only while the host is busy (`Leases`) |
| `DriverTransaction_proofs` | `JournalInv`, `ImplementsLedger`, `OnlyItsOwnPackage`, `CleanupLeavesNothing`, `EndsOnTheRecord` | which operation may be at which step (`Steps`), the receipt in hand announces what the one on disk does and names no other transaction's package (`Hand`), what each step has behind it (`Behind`), names are given once at a time and what is installed was announced (`Books`), what is left on the machine is what a cleanup has still to do (`Sweep`). `PersistKeeps` is what any write leaves of it; `Moves` says which steps touch packages, certificates and journal, so that each property looks at few steps |

Most of these are not inductive by themselves. `NewestIsNeverLost` says nothing
of the moment at which the engine starts, for which one needs that the link is
empty and every pad neutral until then, nor of the order of the wire, for which
one needs the whole of `Carries`. `PadsOutliveCapture` needs to know in which
stages the supervisor can be while capture is on. `PanelFollowsSession` needs
what is true at every other place of the loop, and `PanelComesBack` what the
queue still holds. `OnlyItsOwnPackage` needs that a package found by its id is the
only one of its published name, which `Known` and `Audit` put in the receipt and
nothing but a fresh `Add` could break; `ImplementsLedger` needs, for the one write
after which a command runs, that a package on the machine is announced on disk and
not only in the hand.

`PadIsCurrent` is the longest argument. The engine never looks at all holders: it
rescans those an event may have moved and resolves only the controls of those that
did move. So the invariant `Sound` speaks of the record `held` and not of the
holders themselves, and three facts carry it: a rescan leaves a composed pad
composed whatever it is given (`AppliedShape`); whatever moves a step, a turbo or a
latch marks its holder (`Moves`, from `PutShape` up to `TickedShape`); and a key or
a chord that an event can move is among those it rescans (`SyncedShape`), because
what chords and opposing sides consume lies within their keys (`ConsumedType`). A
mouse button is left out of `Accurate`: it moves by its own events only, which is
why one that a chord or a side uses can lose its hold. The recursion of `Active` is
never unfolded but for a slot with no key down (`NothingActive`): that the settled
chords are those of the keys down is all the argument needs of it. `OrderDecides`
says the same of a pair of keys as of the axis they fight for; `Ordered` is what
makes it inductive, for a press of another key must not decide again.

The refinement of `PadRegister` turns on what a queue holds for one slot. `StatesFor`
picks the slot's places on the queue in their order; that there is one such choice
(`ReadsExist`, by the shortest queue without one, and `ReadsUnique`, by the first
place two choices differ in) makes it a function of which three facts suffice: two
queues one behind the other hold what each holds, a queue with one message for the
slot holds that one, a queue with none holds nothing. With them a flush changes
nothing ahead of a pad (`FlushUnder`), a send replaces the slot's waiting state or
adds one behind (`SendUnder`, for which at most one state of a slot may wait, part of
`Carries`), a wake does that twice at most (`ReplacesTwice`), and an engine that
ends leaves a beginning of what was ahead or of its last send (`CutOff`).

Only model-checked: everything about liveness and fairness (`SessionEnds`,
`ShutdownEnds`, `EscapeIsHeard`, `ReleasesReachWindows`, `LearnSettles`, `NothingIsOverlooked`,
`NoPadOutlivesItsClient`, `RunsEnd`, `QuitLeavesNothing`), and of the refinement
`IsARegister` its liveness half, that a state asked for is shown. Its safety half is
the theorem `ImplementsRegister`.

## Disagreements with the code's own word

Configurations are kept beside the runs; TLC finds the named property of each
violated (`tlc -config X.cfg M`):

| Configuration, module | Property | What the code does |
|---|---|---|
| `CaptureTapStale`, `MCCapture` | `LatchFreesTappedBoards` | the Interception thread decides by its published snapshot (`interception.rs:570`), which only its own gestures, messages, watchdog and idle rescan refresh: after a gesture on a claimed board it goes on suppressing as long as its own boards keep being typed on, where `ksx-capture/src/escape.rs` wants one gesture to free them all |
| `CaptureLateStore`, `MCCapture` | `EscapeIsNeverUndone` | the Interception thread loads the latch (`interception.rs:426`, `:438`, `:469`, `:528`, `:559`) before it builds and stores the decision (`:622`): a gesture of a WinUSB thread between the two is undone on what is then published, until the next rescan, message or gesture of its own, where `escape.rs` says that a supervisor "can never re-arm blocking behind an escape's back" |
| `CaptureHeld`, `MCCapture` | `NoKeyHeldForever` | a gesture that turns the latch off leaves a key that was typed down while the board was free: its release is suppressed and Windows believes it held (`winusb/mod.rs:575`) |
| `ObserversSupersede`, `Observers` | `CurrentLearnHears` | `Unobserve` has no owner: the tap of a superseded learn, dropped late, takes away the slot of the learn that replaced it (`typethrough.rs:314`) |
| `SessionTrip`, `MCSession` | `TripEndsItsSession` | the watchdog flag is a latch that nothing clears: a trip in one session hides every later session's trip on the same handle (`health.rs:88`) |
| `EngineRepeat`, `MCEngine` | `AutorepeatIsNoPress` | the escape gesture clears a latch and forgets that its key is down, so the key's own autorepeat sets it again (`engine.rs:1279`), against docs/INPUT-TRANSFORMS.md on toggles |
| `ControlBounce`, `ControlLoop` | `OnlyStructureBounces` | a session whose swap handle does not appear in time, or that an escape or the game's exit has just ended, is restarted (`daemon/mod.rs:1157`), where the comment at :1061 leaves it running |
| `PanelRemedy`, `MCPanelProgramming` | `RemedyIsOpen` | after an interrupted trial write every refusal names the restore of its safety backup, which is refused until the trial is on record (`facade.rs:1338` against :1171); only a chart read gets out |
| `DriverLastKeyboard`, `MCDriverTransaction` | `LastKeyboardIsLeft` | `prepare_with` counts the other keyboards once, before the certificate is made; the second survey, taken "at the last point before pnputil", rechecks the target and not the spare (`winusb_transaction.rs:485`): a spare unplugged in between leaves the claim to take the machine's last keyboard, which `winusb.rs:36` says is refused |
| `DriverRepair`, `MCDriverTransaction` | `ReleasedIsGone` | repair takes an unplugged claimed board for a stale claim and writes "released" while its package stays installed (`winusb_transaction.rs:3387` against :3321) |

Observed while modelling, with no configuration of their own:

- A gesture between the daemon's `arm` (`daemon/mod.rs:850`) and the supervisor's
  baseline (`supervisor.rs:924`) is absorbed; latch and `blocking` stay inverted.
- `restart` (`daemon/mod.rs:1029`) mutes the panel without arming the latch, where
  `escape.rs:92` and `mod.rs:843` tie the two. Modelled as `Restart` in `Session`.
- With blocking off, gestures still flip `blocking` on and capture the boards
  (`supervisor.rs:1501`), against "Suppress nothing" in `ksx-core/src/blocking.rs:40`.
- A board unplugged and replugged within `PRESENCE_RESCAN_MS` never leaves the
  published set, so its held keys are not released; and one whose hardware id
  cannot be read at a rescan is forgotten until its next stroke.
- At teardown capture is joined before `EngineCtl::Stop` is sent, so the engine
  often ends through its closed event channel, without cancelling macros; the
  neutral update covers it.
- A learn's worker that panics never counts itself out (`learn.rs:209`); and a
  late hit overwrites "cancelled" (`learn.rs:204`), unlike the input test.
- A mouse button that is part of a chord or of an opposing pair loses its hold at
  the next keyboard event of its slot; an "any-input" interrupt does nothing while a
  turbo macro rests in its gap (`engine.rs:1104` against `macros.rs:312`).
- `await_apply` takes any later generation for its own after an earlier apply timed
  out (`pipe.rs:2031`); `await_start` may report the old session's failure during a
  replacement; the outcome of a session that Ctrl+Alt+Del ended and nobody has
  reaped counts as one to bounce.
- Another vendor's tool that puts the board back to the trial's base while the
  trial waits leaves the trial without a way on.
- In the driver transaction: a stray temporary file, or a directory whose first
  receipt was never written, makes the store unreadable for release, cleanup and
  repair (`winusb_transaction.rs:2237`), although it is said to survive crashes;
  receipts that are over keep their published name, which Windows uses again, so
  cleaning up an old one fails; release-all leaves its receipts active, and two
  active receipts of a board refuse its release; `cleanup_receipt` passes
  RecoveryRequired on without recording it (:1050), the case the comment on
  `rollback_installed` calls fixed there; a helper that dies between the deletion
  and the rescan lets repair say "released" without a rescan.

## What is not modelled

- *Bytes:* HID descriptors and reports, registry and XML parsing, preset syntax,
  wire formats. The difficulty is in the data; fuzz and fixture tests cover it.
- *Screens, installers, vendored code:* no state of the input path.
- *Clocks:* thresholds and timeouts are nondeterministic choices. That is sound
  for safety; where a time is needed for progress it is in the fairness.
- *Statistics, logging, latency reports.*
- In `Capture`: mouse strokes, batches of a wait, slot exhaustion. In
  `Typethrough`: opening and retrying a claim. In `Observers`: raw-input sources.
  In `Pipeline`: event limit, feedback. In `Engine`: several slots, disabled macros
  and slot-wide macro switches (nothing in the product calls them), `reset`. In
  `ControlLoop`: the game's launcher and tracker, read-only queries. In
  `PanelProgramming`: packet encoding, more than one board, a disk that corrupts a
  verified backup. In `DriverTransaction`: security descriptors, hash checks, the
  channel between helper and parent, the fields of a receipt that nothing reads
  for control.
- *The in-process lane of HIDMaestro (seqlock, rendezvous, keepalive), games tracker, router, live feed, configuration store, pipe
  admission:* small components with hazards of their own; see the plan.

By lines the models cover the input path, the control loop, the panel writer and
the driver transaction. Most of the repository's lines are screens, command lines,
reports, validation messages and tests, which keep no state to model.

## The plan

Built, in this order: detector, capture threads, pump, observers, pipeline with its
abstract register, session, engine, control loop, panel programming, driver
transaction with its ledger, HIDMaestro host. What is left:

1. `Engine` under `Pipeline`: the holders of the one as the pad states of the other.
2. `Seqlock` with rendezvous and keepalive: no torn report is read.
3. `GameTracker`: launcher and game exits and the grace period.
4. `Router` (pad handles), `LocalPipe` (admission), `ConfigStore` (atomic replace),
   `LiveFeed` (lossy queue).
5. `Capture` with `Session`: the strokes of a board that is unplugged and replugged
   within a rescan.
