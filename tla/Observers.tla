----------------------------- MODULE Observers -----------------------------
(***************************************************************************)
(* The two services that borrow the claimed panel's keystrokes while no    *)
(* session runs: learn-key (ksx-backend/src/daemon/learn.rs) and the       *)
(* simultaneous-input test (input_test.rs).  The control pipe starts and   *)
(* cancels them, one request at a time; each attempt is a worker thread    *)
(* that taps the panel (panel.rs, PanelTap), waits for keys (observe.rs),  *)
(* lets go of the tap and reports.  The panel has ONE observer slot, set   *)
(* and cleared by commands to the pump (typethrough.rs), and types what is *)
(* pressed while the slot is empty.  The board learned from and tested is  *)
(* a claimed panel board: a tap of any other board never goes to the pump. *)
(***************************************************************************)
EXTENDS Integers, Sequences, FiniteSets

CONSTANTS
    MaxLearns,      \* bound on learn-key requests
    MaxTests,       \* bound on input-test-start requests
    SlowPump        \* the pump may take longer than ACK_TIMEOUT

ASSUME BoundsAssumption == MaxLearns \in Nat /\ MaxTests \in Nat
ASSUME SlowPumpAssumption == SlowPump \in BOOLEAN

Learners == {"learn"} \X (1..MaxLearns)
Testers == {"test"} \X (1..MaxTests)
Workers == Learners \cup Testers
NoWorker == <<"none", 0>>

VARIABLES
    learnGen, learnPhase,   \* Learn.generation, Learn.phase
    learnActive,            \* LearnService.active_observers
    testGen, testPhase,     \* InputTest.generation, InputTest.phase
    testActive,             \* active_generation: 0, or the live generation
    stage,                  \* how far each worker thread has got
    cancel,                 \* per worker: its cancel flag
    outcome,                \* per worker: what its observation returned
    slot,                   \* the pump's observer
    commands,               \* Observe and Unobserve commands to the pump
    playing                 \* RunState is Starting or Running

learn == <<learnGen, learnPhase, learnActive>>
test == <<testGen, testPhase, testActive>>
vars == <<learnGen, learnPhase, learnActive, testGen, testPhase, testActive, stage,
          cancel, outcome, slot, commands, playing>>

LearnPhases == {"idle", "listening", "hit", "timeout", "cancelled", "failed"}
TestPhases == LearnPhases \ {"hit"}

\* unborn, spawned; tapping (waits for its Observe to be acknowledged);
\* listening; closing (has its answer); untapping (waits for its Unobserve);
\* reported; ended.
Stages == {"unborn", "spawned", "tapping", "listening", "closing", "untapping",
           "reported", "ended"}

Init ==
    /\ learnGen = 0 /\ learnPhase = "idle" /\ learnActive = 0
    /\ testGen = 0 /\ testPhase = "idle" /\ testActive = 0
    /\ stage = [w \in Workers |-> "unborn"]
    /\ cancel = [w \in Workers |-> FALSE]
    /\ outcome = [w \in Workers |-> "none"]
    /\ slot = NoWorker /\ commands = <<>> /\ playing = FALSE

-----------------------------------------------------------------------------
(* Requests on the control pipe, served one after the other. *)

\* Mutant of LearnReleased: a cancelled learn counts as gone at once.
LearnReleasedEarly == learnPhase # "listening"

\* wait_for_terminal_observer_release: the pipe waits a moment for the cleanup
\* tail of an attempt that is over, never for one that still listens.
LearnReleased == learnPhase # "listening" /\ learnActive = 0
TestReleased == testPhase # "listening" /\ testActive = 0

\* learn-key.  A second one supersedes the first: its flag is raised, and its
\* thread finds its generation stale.  A thread that cannot be spawned fails.
LearnKey ==
    LET new == <<"learn", learnGen + 1>> IN
    /\ ~playing /\ TestReleased /\ learnGen < MaxLearns
    /\ cancel' = [w \in Workers |-> cancel[w] \/ w = <<"learn", learnGen>>]
    /\ learnGen' = learnGen + 1
    /\ \/ /\ learnPhase' = "listening" /\ learnActive' = learnActive + 1
          /\ stage' = [stage EXCEPT ![new] = "spawned"]
       \/ /\ learnPhase' = "failed" /\ learnActive' = learnActive
          /\ stage' = [stage EXCEPT ![new] = "ended"]
    /\ UNCHANGED <<test, outcome, slot, commands, playing>>

\* learn-cancel, with the current generation or without one.
LearnCancel ==
    /\ learnGen > 0
    /\ cancel' = [cancel EXCEPT ![<<"learn", learnGen>>] = TRUE]
    /\ learnPhase' = IF learnPhase = "listening" THEN "cancelled" ELSE learnPhase
    /\ UNCHANGED <<learnGen, learnActive, test, stage, outcome, slot,
                   commands, playing>>

\* input-test-start.
TestStart ==
    LET new == <<"test", testGen + 1>> IN
    /\ ~playing /\ LearnReleased /\ TestReleased /\ testGen < MaxTests
    /\ testGen' = testGen + 1
    /\ \/ /\ testPhase' = "listening" /\ testActive' = testGen + 1
          /\ stage' = [stage EXCEPT ![new] = "spawned"]
       \/ /\ testPhase' = "failed" /\ testActive' = 0
          /\ stage' = [stage EXCEPT ![new] = "ended"]
    /\ UNCHANGED <<learn, cancel, outcome, slot, commands, playing>>

\* input-test-cancel.
TestCancel ==
    /\ testGen > 0
    /\ cancel' = [cancel EXCEPT ![<<"test", testGen>>] = TRUE]
    /\ testPhase' = IF testPhase = "listening" THEN "cancelled" ELSE testPhase
    /\ UNCHANGED <<testGen, testActive, learn, stage, outcome, slot,
                   commands, playing>>

\* The tray and autostart start and stop sessions without asking the pipe.
Play ==
    /\ playing' = ~playing
    /\ UNCHANGED <<learn, test, stage, cancel, outcome, slot, commands>>

-----------------------------------------------------------------------------
(* One worker thread. *)

Move(w, from, to) == stage[w] = from /\ stage' = [stage EXCEPT ![w] = to]

\* Sources::start taps the panel.  A test that finds a session running, or its
\* flag raised, before it has opened anything returns without a tap.
Tap(w) ==
    /\ Move(w, "spawned", "tapping")
    /\ commands' = Append(commands, [op |-> "Observe", who |-> w])
    /\ UNCHANGED <<learn, test, cancel, outcome, slot, playing>>

TurnBack(w) ==
    /\ w \in Testers /\ (playing \/ cancel[w])
    /\ Move(w, "spawned", "untapping")
    /\ outcome' = [outcome EXCEPT ![w] = IF cancel[w] THEN "none" ELSE "error"]
    /\ UNCHANGED <<learn, test, cancel, slot, commands, playing>>

\* A call to the pump returns when it is acknowledged, or after ACK_TIMEOUT.
Returned(w) == SlowPump \/ \A i \in 1..Len(commands) : commands[i].who # w

Listen(w) ==
    /\ Returned(w) /\ Move(w, "tapping", "listening")
    /\ UNCHANGED <<learn, test, cancel, outcome, slot, commands, playing>>

\* A learn ends with the first press: of the panel, or of an ordinary keyboard
\* heard through Raw Input.
Hear(w) ==
    /\ w \in Learners /\ Move(w, "listening", "closing")
    /\ outcome' = [outcome EXCEPT ![w] = "key"]
    /\ UNCHANGED <<learn, test, cancel, slot, commands, playing>>

\* Mutant of GiveUp: there is no deadline.
GiveUpOnCancel(w) ==
    /\ cancel[w] /\ Move(w, "listening", "closing")
    /\ outcome' = [outcome EXCEPT ![w] = "none"]
    /\ UNCHANGED <<learn, test, cancel, slot, commands, playing>>

\* The deadline passes, the flag is seen, or the source fails.  A test also
\* gives up, with an error, once a session owns input.
GiveUp(w) ==
    /\ Move(w, "listening", "closing")
    /\ outcome' \in {[outcome EXCEPT ![w] = "none"], [outcome EXCEPT ![w] = "error"]}
    /\ UNCHANGED <<learn, test, cancel, slot, commands, playing>>

\* Mutant of Untap: a failed observation leaves its tap behind.
UntapUnlessFailed(w) ==
    /\ Move(w, "closing", "untapping")
    /\ commands' = IF outcome[w] = "error" THEN commands
                   ELSE Append(commands, [op |-> "Unobserve", who |-> w])
    /\ UNCHANGED <<learn, test, cancel, outcome, slot, playing>>

\* Sources is dropped: first the channel, then the tap, which unobserves.
Untap(w) ==
    /\ Move(w, "closing", "untapping")
    /\ commands' = Append(commands, [op |-> "Unobserve", who |-> w])
    /\ UNCHANGED <<learn, test, cancel, outcome, slot, playing>>

\* A learn of the current generation reports whatever it found; a test only
\* while it still counts as listening.
Verdict(w) ==
    CASE outcome[w] = "key" -> "hit"
      [] outcome[w] = "error" -> "failed"
      [] OTHER -> IF cancel[w] THEN "cancelled" ELSE "timeout"

\* Mutant of LearnReports: a stale learn reports too.
LearnReportsAlways(w) == w \in Learners

LearnReports(w) == w = <<"learn", learnGen>>
TestReports(w) == w = <<"test", testGen>> /\ testPhase = "listening"

Report(w) ==
    /\ Returned(w) /\ Move(w, "untapping", "reported")
    /\ learnPhase' = IF LearnReports(w) THEN Verdict(w) ELSE learnPhase
    /\ testPhase' = IF TestReports(w) THEN Verdict(w) ELSE testPhase
    /\ UNCHANGED <<learnGen, learnActive, testGen, testActive, cancel, outcome,
                   slot, commands, playing>>

CountedOut(w) == IF w \in Learners THEN learnActive - 1 ELSE learnActive

End(w) ==
    /\ Move(w, "reported", "ended")
    /\ learnActive' = CountedOut(w)
    /\ testActive' = IF w = <<"test", testActive>> THEN 0 ELSE testActive
    /\ UNCHANGED <<learnGen, learnPhase, testGen, testPhase, cancel, outcome,
                   slot, commands, playing>>

-----------------------------------------------------------------------------
(* The pump, as far as its observer slot goes. *)

\* Unobserve empties the slot, whoever is in it.
TakeCommand ==
    /\ commands # <<>> /\ commands' = Tail(commands)
    /\ slot' = IF Head(commands).op = "Observe" THEN Head(commands).who ELSE NoWorker
    /\ UNCHANGED <<learn, test, stage, cancel, outcome, playing>>

\* The worker still holds the receiving end of its channel.
Receives(w) == w \in Workers /\ stage[w] \in {"tapping", "listening", "closing"}

\* A press of a panel key goes to the observer; one that hung up is dropped.
Press ==
    /\ slot # NoWorker
    /\ slot' = IF Receives(slot) THEN slot ELSE NoWorker
    /\ UNCHANGED <<learn, test, stage, cancel, outcome, commands, playing>>

\* What a worker does by itself; Hear is up to whoever presses keys.
WorkerStep(w) ==
    Tap(w) \/ TurnBack(w) \/ Listen(w) \/ GiveUp(w) \/ Untap(w) \/ Report(w) \/ End(w)

Next ==
    \/ LearnKey \/ LearnCancel \/ TestStart \/ TestCancel \/ Play
    \/ \E w \in Workers : WorkerStep(w) \/ Hear(w)
    \/ TakeCommand \/ Press

Spec == Init /\ [][Next]_vars

\* A worker waits no longer than its timeout, and the pump takes its commands.
\* Nothing is assumed of whoever asks, presses or plays.
FairSpec ==
    Spec /\ WF_vars(TakeCommand) /\ \A w \in Workers : WF_vars(WorkerStep(w))

-----------------------------------------------------------------------------
TypeOK ==
    /\ learnGen \in 0..MaxLearns /\ learnPhase \in LearnPhases
    /\ learnActive \in Nat
    /\ testGen \in 0..MaxTests /\ testPhase \in TestPhases /\ testActive \in 0..MaxTests
    /\ stage \in [Workers -> Stages]
    /\ cancel \in [Workers -> BOOLEAN]
    /\ outcome \in [Workers -> {"none", "key", "error"}]
    /\ \A w \in Testers : outcome[w] # "key"
    /\ slot \in Workers \cup {NoWorker}
    /\ commands \in Seq([op : {"Observe", "Unobserve"}, who : Workers])
    /\ playing \in BOOLEAN

\* The worker may hold a tap, a Raw Input window or a claim of its own.
Busy(w) == stage[w] \in {"spawned", "tapping", "listening", "closing", "untapping"}

\* A test never shares the panel, not even with the cleanup tail of a learn or
\* of another test (input_test.rs: "preventing Learn from opening a competing
\* observer in that gap").
TestIsAlone ==
    \A v, w \in Workers : Busy(v) /\ Busy(w) /\ v \in Testers => v = w

\* A stale worker's answer is never taken for the current one's: a hit shown is
\* the hit of the generation shown.
HitIsCurrent == learnPhase = "hit" => outcome[<<"learn", learnGen>>] = "key"

\* On every way out - hit, timeout, cancel, supersede, session start, failure -
\* the panel is given back to typing.
PanelComesBack ==
    (\A w \in Workers : stage[w] \in {"unborn", "reported", "ended"}) /\ commands = <<>>
        => slot = NoWorker

\* A generation that listens comes to an end, unless another one replaces it.
LearnSettles ==
    \A g \in 1..MaxLearns :
        learnGen = g /\ learnPhase = "listening"
            ~> learnGen # g \/ learnPhase # "listening"

\* typethrough.rs, observe: "stop typing until unobserve ... the key a user
\* presses to bind must land in the mapper".  While the current learn listens,
\* its tap acknowledged, the pump's keystrokes go to it.
CurrentLearnHears ==
    \A w \in Learners :
        w = <<"learn", learnGen>> /\ stage[w] = "listening" => slot = w
=============================================================================
