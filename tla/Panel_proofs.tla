--------------------------- MODULE Panel_proofs ---------------------------
(***************************************************************************)
(* Proofs about the two modules of the claimed panel: Observers, who may   *)
(* listen to it, for any number of learns and tests, and Typethrough, what *)
(* it types, for any boards, keys, splits, clients and channel sizes.  No  *)
(* theorem speaks of both.                                                 *)
(***************************************************************************)
EXTENDS Observers, Typethrough, FiniteSetTheorems, TLAPS

\* A worker thread that exists, its last bookkeeping step included.
Live(w) == stage[w] \notin {"unborn", "ended"}

LiveLearners == {w \in Learners : Live(w)}

\* No thread of a generation that was not asked for.
Fresh ==
    /\ \A n \in 1..MaxLearns : n > learnGen => stage[<<"learn", n>>] = "unborn"
    /\ \A n \in 1..MaxTests : n > testGen => stage[<<"test", n>>] = "unborn"

LearnersCounted == learnActive = Cardinality(LiveLearners)

OneTester == \A w \in Testers : Live(w) => w = <<"test", testActive>>

Apart == \A v \in Testers, w \in Learners : ~(Live(v) /\ Live(w))

Inv == TypeOK /\ Fresh /\ LearnersCounted /\ OneTester /\ Apart

\* There are finitely many learners, so their count is a number that says
\* whether there is one.
LEMMA LearnersFinite ==
    /\ IsFiniteSet(Learners) /\ IsFiniteSet(LiveLearners)
    /\ Cardinality(LiveLearners) \in Nat
    /\ Cardinality(LiveLearners) = 0 <=> LiveLearners = {}
<1>1. IsFiniteSet({"learn"}) /\ IsFiniteSet(1..MaxLearns)
  <2>1. IsFiniteSet({"learn"})
    BY FS_Singleton
  <2>2. MaxLearns \in Int /\ 1 \in Int
    BY BoundsAssumption
  <2> QED
    BY <2>1, <2>2, FS_Interval
<1>2. IsFiniteSet(Learners)
  BY <1>1, FS_Product DEF Learners
<1>3. IsFiniteSet(LiveLearners)
  BY <1>2, FS_Subset DEF LiveLearners
<1> QED
  BY <1>2, <1>3, FS_CardinalityType, FS_EmptySet

\* A learner is not a tester, and a worker of generation n is of its kind.
LEMMA WorkerKinds ==
    /\ Learners \cap Testers = {} /\ Workers = Learners \cup Testers
    /\ \A w \in Learners : \E n \in 1..MaxLearns : w = <<"learn", n>>
    /\ \A w \in Testers : \E n \in 1..MaxTests : w = <<"test", n>>
    /\ \A n \in 1..MaxLearns : <<"learn", n>> \in Learners
    /\ \A n \in 1..MaxTests : <<"test", n>> \in Testers
<1>1. /\ \A w \in Learners : w[1] = "learn" /\ w[2] \in 1..MaxLearns /\ w = <<w[1], w[2]>>
      /\ \A w \in Testers : w[1] = "test" /\ w[2] \in 1..MaxTests /\ w = <<w[1], w[2]>>
  BY DEF Learners, Testers
<1>2. Learners \cap Testers = {}
  BY <1>1
<1>3. /\ \A n \in 1..MaxLearns : <<"learn", n>> \in Learners
      /\ \A n \in 1..MaxTests : <<"test", n>> \in Testers
  BY DEF Learners, Testers
<1> QED
  BY <1>1, <1>2, <1>3 DEF Workers

\* The initial state is well typed and no worker lives.
LEMMA InitInv == Init => Inv
<1> SUFFICES ASSUME Init PROVE Inv
  OBVIOUS
<1>1. LiveLearners = {}
  BY WorkerKinds DEF Init, LiveLearners, Live
<1>2. LearnersCounted
  BY <1>1, FS_EmptySet DEF Init, LearnersCounted
<1>3. TypeOK
  <2>0. playing \in BOOLEAN /\ learnGen = 0 /\ testGen = 0 /\ testActive = 0 /\ learnActive = 0
    BY DEF Init
  <2>1. /\ learnGen \in 0..MaxLearns /\ testGen \in 0..MaxTests /\ testActive \in 0..MaxTests
        /\ learnActive \in Nat
    BY <2>0, BoundsAssumption
  <2>2. /\ stage \in [Workers -> Stages] /\ cancel \in [Workers -> BOOLEAN]
        /\ outcome \in [Workers -> {"none", "key", "error"}]
        /\ \A w \in Testers : outcome[w] # "key"
    BY WorkerKinds DEF Init, Stages
  <2>3. commands \in Seq([op : {"Observe", "Unobserve"}, who : Workers])
    BY DEF Init
  <2>4. learnPhase \in LearnPhases /\ testPhase \in TestPhases /\ slot \in Workers \cup {NoWorker}
    BY DEF Init, LearnPhases, TestPhases
  <2> QED
    BY <2>0, <2>1, <2>2, <2>3, <2>4 DEF TypeOK
<1>4. Fresh /\ OneTester /\ Apart
  BY WorkerKinds DEF Init, Fresh, OneTester, Apart, Live
<1> QED
  BY <1>2, <1>3, <1>4 DEF Inv

\* What a worker may do to its stage, as far as liveness goes.
WorkerMoves(w, to) ==
    /\ stage[w] \notin {"unborn", "ended"} /\ to \in Stages \ {"unborn", "ended"}
    /\ stage' = [stage EXCEPT ![w] = to]

\* A worker that lives on changes no count and no owner.
LEMMA LivesOn ==
    ASSUME Inv, NEW w \in Workers, NEW to, WorkerMoves(w, to),
           UNCHANGED <<learnGen, learnActive, testGen, testActive>>
    PROVE  Fresh' /\ LearnersCounted' /\ OneTester' /\ Apart'
<1>1. stage \in [Workers -> Stages]
  BY DEF Inv, TypeOK
<1>2. \A v \in Workers : Live(v)' <=> Live(v)
  BY <1>1 DEF WorkerMoves, Live
<1>3. LiveLearners' = LiveLearners
  BY <1>2, WorkerKinds DEF LiveLearners
<1>4. Fresh'
  BY <1>1, WorkerKinds DEF Inv, Fresh, WorkerMoves
<1> QED
  BY <1>2, <1>3, <1>4, WorkerKinds DEF Inv, LearnersCounted, OneTester, Apart

\* A queue of commands takes another one.
LEMMA Queued ==
    ASSUME TypeOK, NEW w \in Workers, NEW op \in {"Observe", "Unobserve"}
    PROVE  Append(commands, [op |-> op, who |-> w])
             \in Seq([op : {"Observe", "Unobserve"}, who : Workers])
  BY DEF TypeOK

\* Every step of a worker but the last.
LEMMA WorkerType ==
    ASSUME TypeOK, NEW w \in Workers,
           Tap(w) \/ TurnBack(w) \/ Listen(w) \/ Hear(w) \/ GiveUp(w) \/ Untap(w) \/ Report(w)
    PROVE  TypeOK'
<1> USE DEF TypeOK, Move, learn, test
<1>0. /\ stage \in [Workers -> Stages] /\ outcome \in [Workers -> {"none", "key", "error"}]
      /\ \A to \in Stages : [stage EXCEPT ![w] = to] \in [Workers -> Stages]
  OBVIOUS
<1>1. CASE Tap(w)
  BY <1>0, <1>1, Queued DEF Tap, Stages
<1>2. CASE TurnBack(w)
  BY <1>0, <1>2 DEF TurnBack, Stages
<1>3. CASE Listen(w)
  BY <1>0, <1>3 DEF Listen, Stages
<1>4. CASE Hear(w)
  <2>1. outcome' \in [Workers -> {"none", "key", "error"}] /\ stage' \in [Workers -> Stages]
    BY <1>0, <1>4 DEF Hear, Stages
  <2>2. \A v \in Testers : outcome'[v] # "key"
    BY <1>0, <1>4, WorkerKinds DEF Hear
  <2> QED
    BY <1>4, <2>1, <2>2 DEF Hear
<1>5. CASE GiveUp(w)
  <2>1. outcome' \in [Workers -> {"none", "key", "error"}] /\ stage' \in [Workers -> Stages]
    BY <1>0, <1>5 DEF GiveUp, Stages
  <2>2. \A v \in Testers : outcome'[v] # "key"
    BY <1>0, <1>5, WorkerKinds DEF GiveUp
  <2> QED
    BY <1>5, <2>1, <2>2 DEF GiveUp
<1>6. CASE Untap(w)
  BY <1>0, <1>6, Queued DEF Untap, Stages
<1>7. CASE Report(w)
  <2>1. Verdict(w) \in LearnPhases /\ (w \in Testers => Verdict(w) \in TestPhases)
    BY DEF Verdict, LearnPhases, TestPhases
  <2>2. w = <<"test", testGen>> => w \in Testers
    BY WorkerKinds
  <2>3. learnPhase' \in LearnPhases /\ testPhase' \in TestPhases
    BY <1>7, <2>1, <2>2 DEF Report, LearnReports, TestReports
  <2>4. stage' \in [Workers -> Stages]
    BY <1>0, <1>7 DEF Report, Stages
  <2> QED
    BY <1>7, <2>3, <2>4 DEF Report
<1> QED
  BY <1>1, <1>2, <1>3, <1>4, <1>5, <1>6, <1>7

\* They keep the whole invariant.
LEMMA WorkerKeeps ==
    ASSUME Inv, NEW w \in Workers,
           Tap(w) \/ TurnBack(w) \/ Listen(w) \/ Hear(w) \/ GiveUp(w) \/ Untap(w) \/ Report(w)
    PROVE  Inv'
<1>1. \E to \in Stages \ {"unborn", "ended"} : WorkerMoves(w, to)
  BY DEF Tap, TurnBack, Listen, Hear, GiveUp, Untap, Report, Move, WorkerMoves, Stages
<1>2. UNCHANGED <<learnGen, learnActive, testGen, testActive>>
  BY DEF Tap, TurnBack, Listen, Hear, GiveUp, Untap, Report, learn, test
<1> QED
  BY <1>1, <1>2, LivesOn, WorkerType DEF Inv

\* The last step of a worker: a learn is counted out, a test gives up its claim.
LEMMA EndKeeps ==
    ASSUME Inv, NEW w \in Workers, End(w)
    PROVE  Inv'
<1>0. /\ stage \in [Workers -> Stages] /\ stage[w] = "reported"
      /\ stage' = [stage EXCEPT ![w] = "ended"]
  BY DEF Inv, TypeOK, End, Move
<1>1. stage' \in [Workers -> Stages] /\ \A v \in Workers : Live(v)' <=> Live(v) /\ v # w
  BY <1>0 DEF Live, Stages
<1>2. Live(w)
  BY <1>0 DEF Live
<1>3. Fresh'
  <2>1. UNCHANGED <<learnGen, testGen>>
    BY DEF End, CountedOut
  <2> QED
    BY <1>0, <2>1, WorkerKinds DEF Inv, Fresh
<1>4. Apart'
  BY <1>1, WorkerKinds DEF Inv, Apart
<1>5. CASE w \in Learners
  <2>1. LiveLearners' = LiveLearners \ {w} /\ w \in LiveLearners
    BY <1>1, <1>2, <1>5, WorkerKinds DEF LiveLearners
  <2>2. Cardinality(LiveLearners') = Cardinality(LiveLearners) - 1
    BY <2>1, LearnersFinite, FS_RemoveElement
  <2>3. learnActive' = learnActive - 1
    BY <1>5 DEF End, CountedOut
  <2>4. LearnersCounted' /\ learnActive' \in Nat
    <3>1. Cardinality(LiveLearners) # 0
      BY <2>1, LearnersFinite
    <3> QED
      BY <2>2, <2>3, <3>1, LearnersFinite DEF Inv, LearnersCounted
  <2>5. testActive' = testActive
    BY <1>5, WorkerKinds DEF End, CountedOut
  <2>6. OneTester'
    BY <1>1, <2>5, WorkerKinds DEF Inv, OneTester
  <2> QED
    BY <1>1, <1>3, <1>4, <2>4, <2>5, <2>6 DEF Inv, TypeOK, End, CountedOut
<1>6. CASE w \in Testers
  <2>1. w = <<"test", testActive>>
    BY <1>2, <1>6 DEF Inv, OneTester
  <2>2. learnActive' = learnActive /\ testActive' = 0
    BY <1>6, <2>1, WorkerKinds DEF End, CountedOut
  <2>3. \A v \in Testers : ~Live(v)'
    BY <1>1, <1>6, <2>1, WorkerKinds DEF Inv, OneTester
  <2>4. LiveLearners' = LiveLearners
    BY <1>1, <1>6, WorkerKinds DEF LiveLearners
  <2>5. LearnersCounted'
    BY <2>2, <2>4 DEF Inv, LearnersCounted
  <2>6. testActive' \in 0..MaxTests
    BY <2>2, BoundsAssumption
  <2> QED
    BY <1>1, <1>3, <1>4, <2>2, <2>3, <2>5, <2>6 DEF Inv, TypeOK, End, CountedOut, OneTester
<1> QED
  BY <1>5, <1>6, WorkerKinds

\* Asking for a learn: no test lives, so the newcomer meets no test.
LEMMA LearnKeyKeeps ==
    ASSUME Inv, LearnKey
    PROVE  Inv'
<1> DEFINE new == <<"learn", learnGen + 1>>
<1>1. new \in Learners /\ new \in Workers /\ learnGen + 1 \in 1..MaxLearns
  <2>1. learnGen + 1 \in 1..MaxLearns
    BY BoundsAssumption DEF LearnKey, Inv, TypeOK
  <2> QED
    BY <2>1, WorkerKinds
<1>2. stage \in [Workers -> Stages] /\ stage[new] = "unborn"
  BY <1>1 DEF Inv, TypeOK, Fresh
<1>3. \A v \in Testers : ~Live(v)
  <2>1. testActive = 0
    BY DEF LearnKey, TestReleased
  <2> QED
    BY <2>1, WorkerKinds DEF Inv, OneTester
<1>4. PICK to \in {"spawned", "ended"} :
        /\ stage' = [stage EXCEPT ![new] = to]
        /\ learnActive' = learnActive + (IF to = "spawned" THEN 1 ELSE 0)
        /\ learnPhase' \in LearnPhases
  <2>1. learnActive \in Nat
    BY DEF Inv, TypeOK
  <2> QED
    BY <2>1 DEF LearnKey, LearnPhases
<1>5. stage' \in [Workers -> Stages]
  BY <1>1, <1>2, <1>4 DEF Stages
<1>6. \A v \in Workers : Live(v)' <=> (Live(v) \/ (v = new /\ to = "spawned"))
  BY <1>1, <1>2, <1>4 DEF Live
<1>7. LearnersCounted' /\ learnActive' \in Nat
  <2>1. CASE to = "spawned"
    <3>1. LiveLearners' = LiveLearners \cup {new} /\ new \notin LiveLearners
      BY <1>1, <1>2, <1>6, <2>1, WorkerKinds DEF LiveLearners, Live
    <3>2. Cardinality(LiveLearners') = Cardinality(LiveLearners) + 1
      BY <3>1, LearnersFinite, FS_AddElement
    <3> QED
      BY <1>4, <2>1, <3>2 DEF Inv, TypeOK, LearnersCounted
  <2>2. CASE to = "ended"
    <3>1. LiveLearners' = LiveLearners
      BY <1>6, <2>2, WorkerKinds DEF LiveLearners
    <3> QED
      BY <1>4, <2>2, <3>1 DEF Inv, TypeOK, LearnersCounted
  <2> QED
    BY <2>1, <2>2
<1>8. learnGen' = learnGen + 1 /\ UNCHANGED <<test, outcome, slot, commands, playing>>
  BY DEF LearnKey
<1>9. Fresh'
  <2>1. \A n \in 1..MaxLearns : n > learnGen' => stage'[<<"learn", n>>] = "unborn"
    BY <1>1, <1>2, <1>4, <1>8, WorkerKinds DEF Inv, Fresh, TypeOK
  <2>2. \A n \in 1..MaxTests : n > testGen' => stage'[<<"test", n>>] = "unborn"
    BY <1>1, <1>2, <1>4, <1>8, WorkerKinds DEF Inv, Fresh, test
  <2> QED
    BY <2>1, <2>2 DEF Fresh
<1>10. OneTester' /\ Apart'
  BY <1>1, <1>3, <1>6, WorkerKinds DEF OneTester, Apart
<1>11. cancel' \in [Workers -> BOOLEAN]
  BY DEF LearnKey, Inv, TypeOK
<1> QED
  BY <1>1, <1>4, <1>5, <1>7, <1>8, <1>9, <1>10, <1>11 DEF Inv, TypeOK, test

\* Asking for a test: nobody lives, so the newcomer is alone.
LEMMA TestStartKeeps ==
    ASSUME Inv, TestStart
    PROVE  Inv'
<1> DEFINE new == <<"test", testGen + 1>>
<1>1. new \in Testers /\ new \in Workers /\ testGen + 1 \in 1..MaxTests
  <2>1. testGen + 1 \in 1..MaxTests
    BY BoundsAssumption DEF TestStart, Inv, TypeOK
  <2> QED
    BY <2>1, WorkerKinds
<1>2. stage \in [Workers -> Stages] /\ stage[new] = "unborn"
  BY <1>1 DEF Inv, TypeOK, Fresh
<1>3. \A v \in Workers : ~Live(v)
  <2>1. testActive = 0 /\ learnActive = 0
    BY DEF TestStart, TestReleased, LearnReleased
  <2>2. LiveLearners = {}
    BY <2>1, LearnersFinite DEF Inv, LearnersCounted
  <2> QED
    BY <2>1, <2>2, WorkerKinds DEF Inv, OneTester, LiveLearners
<1>4. PICK to \in {"spawned", "ended"} :
        /\ stage' = [stage EXCEPT ![new] = to]
        /\ testActive' = (IF to = "spawned" THEN testGen + 1 ELSE 0)
        /\ testPhase' \in TestPhases
  BY DEF TestStart, TestPhases, LearnPhases
<1>5. stage' \in [Workers -> Stages]
  BY <1>1, <1>2, <1>4 DEF Stages
<1>6. \A v \in Workers : Live(v)' <=> (v = new /\ to = "spawned")
  BY <1>1, <1>2, <1>3, <1>4 DEF Live
<1>7. LiveLearners' = LiveLearners
  BY <1>1, <1>3, <1>6, WorkerKinds DEF LiveLearners
<1>8. testGen' = testGen + 1 /\ UNCHANGED <<learn, cancel, outcome, slot, commands, playing>>
  BY DEF TestStart
<1>9. LearnersCounted'
  BY <1>7, <1>8 DEF Inv, LearnersCounted, learn
<1>10. Fresh'
  <2>1. \A n \in 1..MaxTests : n > testGen' => stage'[<<"test", n>>] = "unborn"
    BY <1>1, <1>2, <1>4, <1>8, WorkerKinds DEF Inv, Fresh, TypeOK
  <2>2. \A n \in 1..MaxLearns : n > learnGen' => stage'[<<"learn", n>>] = "unborn"
    BY <1>1, <1>2, <1>4, <1>8, WorkerKinds DEF Inv, Fresh, learn
  <2> QED
    BY <2>1, <2>2 DEF Fresh
<1>11. OneTester' /\ Apart'
  BY <1>1, <1>4, <1>6, WorkerKinds DEF OneTester, Apart
<1>12. testActive' \in 0..MaxTests
  BY <1>1, <1>4, BoundsAssumption
<1> QED
  BY <1>1, <1>4, <1>5, <1>8, <1>9, <1>10, <1>11, <1>12 DEF Inv, TypeOK, learn

\* The head and the tail of a queue are of the queue's type.
LEMMA HeadAndTail ==
    ASSUME NEW C, NEW q \in Seq(C), q # <<>>
    PROVE  Head(q) \in C /\ Tail(q) \in Seq(C)
  OBVIOUS

\* The steps that leave every worker where it is.
LEMMA OthersKeep ==
    ASSUME Inv, LearnCancel \/ TestCancel \/ Play \/ TakeCommand \/ Press \/ UNCHANGED vars
    PROVE  Inv'
<1>1. UNCHANGED <<stage, learnGen, learnActive, testGen, testActive, outcome>>
  BY DEF LearnCancel, TestCancel, Play, TakeCommand, Press, vars, learn, test
<1>2. Fresh' /\ LearnersCounted' /\ OneTester' /\ Apart'
  BY <1>1 DEF Inv, Fresh, LearnersCounted, LiveLearners, OneTester, Apart, Live
<1>3. cancel' \in [Workers -> BOOLEAN] /\ learnPhase' \in LearnPhases /\ testPhase' \in TestPhases
  BY DEF LearnCancel, TestCancel, Play, TakeCommand, Press, vars, learn, test, Inv, TypeOK,
         LearnPhases, TestPhases
<1>4. commands' \in Seq([op : {"Observe", "Unobserve"}, who : Workers])
  <2>1. commands' = commands \/ (commands # <<>> /\ commands' = Tail(commands))
    BY DEF LearnCancel, TestCancel, Play, TakeCommand, Press, vars
  <2>2. commands \in Seq([op : {"Observe", "Unobserve"}, who : Workers])
    BY DEF Inv, TypeOK
  <2> QED
    BY <2>1, <2>2, HeadAndTail
<1>5. slot' \in Workers \cup {NoWorker}
  <2>1. commands # <<>> => Head(commands).who \in Workers
    <3>1. commands \in Seq([op : {"Observe", "Unobserve"}, who : Workers])
      BY DEF Inv, TypeOK
    <3>2. commands # <<>> => Head(commands) \in [op : {"Observe", "Unobserve"}, who : Workers]
      BY <3>1, HeadAndTail
    <3> QED
      BY <3>2
  <2>2. \/ slot' = slot \/ slot' = NoWorker
        \/ commands # <<>> /\ slot' = Head(commands).who
    BY DEF LearnCancel, TestCancel, Play, TakeCommand, Press, vars
  <2> QED
    BY <2>1, <2>2 DEF Inv, TypeOK
<1>6. playing' \in BOOLEAN
  BY DEF LearnCancel, TestCancel, Play, TakeCommand, Press, vars, Inv, TypeOK
<1> QED
  BY <1>1, <1>2, <1>3, <1>4, <1>5, <1>6 DEF Inv, TypeOK

\* The invariant is inductive.
LEMMA StepInv == Inv /\ [Next]_vars => Inv'
<1> SUFFICES ASSUME Inv, [Next]_vars PROVE Inv'
  OBVIOUS
<1>1. ASSUME NEW w \in Workers, WorkerStep(w) \/ Hear(w) PROVE Inv'
  BY <1>1, WorkerKeeps, EndKeeps DEF WorkerStep
<1> QED
  BY <1>1, LearnKeyKeeps, TestStartKeeps, OthersKeep DEF Next

\* Every variable of the module keeps its type.
THEOREM TypeCorrect == Spec => []TypeOK
<1>1. Inv => TypeOK
  BY DEF Inv
<1> QED
  BY InitInv, StepInv, <1>1, PTL DEF Spec

\* A test never shares the panel with a learn or another test, for any number
\* of requests and however long each cleanup takes.
THEOREM TestsAreAlone == Spec => []TestIsAlone
<1>1. Inv => TestIsAlone
  <2> SUFFICES ASSUME Inv, NEW v \in Workers, NEW w \in Workers,
                      Busy(v), Busy(w), v \in Testers
               PROVE  v = w
    BY DEF TestIsAlone
  <2>1. Live(v) /\ Live(w)
    BY DEF Busy, Live
  <2>2. w \in Testers
    BY <2>1, WorkerKinds DEF Inv, Apart
  <2> QED
    BY <2>1, <2>2 DEF Inv, OneTester
<1> QED
  BY InitInv, StepInv, <1>1, PTL DEF Spec

\* A worker whose own generation is shown as a hit has reported, so that nothing of it
\* can change any more.
HitStands ==
    learnPhase = "hit" =>
        /\ learnGen \in 1..MaxLearns
        /\ outcome[<<"learn", learnGen>>] = "key"
        /\ stage[<<"learn", learnGen>>] \in {"reported", "ended"}

\* Every step keeps it.
LEMMA StepHit ==
    ASSUME Inv, HitStands, [Next]_vars
    PROVE  HitStands'
<1> DEFINE cur == <<"learn", learnGen>>
<1>0. stage \in [Workers -> Stages] /\ outcome \in [Workers -> {"none", "key", "error"}]
  BY DEF Inv, TypeOK
<1>1. CASE LearnKey
  <2>1. learnPhase' # "hit"
    BY <1>1 DEF LearnKey
  <2> QED
    BY <2>1 DEF HitStands
<1>2. CASE TestStart
  <2>1. testGen + 1 \in 1..MaxTests
    BY <1>2, BoundsAssumption DEF TestStart, Inv, TypeOK
  <2>2. UNCHANGED <<learnGen, learnPhase, outcome>>
    BY <1>2 DEF TestStart, learn
  <2>3. \A n \in 1..MaxLearns : stage'[<<"learn", n>>] = stage[<<"learn", n>>]
    BY <1>0, <1>2, <2>1, WorkerKinds DEF TestStart
  <2> QED
    BY <2>2, <2>3 DEF HitStands
<1>3. CASE LearnCancel \/ TestCancel \/ Play \/ TakeCommand \/ Press \/ UNCHANGED vars
  <2>1. UNCHANGED <<learnGen, outcome, stage>> /\ (learnPhase' = "hit" => learnPhase = "hit")
    BY <1>3 DEF LearnCancel, TestCancel, Play, TakeCommand, Press, vars, learn, test
  <2> QED
    BY <2>1 DEF HitStands
<1>4. ASSUME NEW w \in Workers, WorkerStep(w) \/ Hear(w), ~Report(w)
      PROVE  HitStands'
  <2>1. UNCHANGED <<learnGen, learnPhase>>
    BY <1>4 DEF WorkerStep, Tap, TurnBack, Listen, GiveUp, Untap, End, Hear, learn
  <2>2. /\ \A v \in Workers \ {w} : stage'[v] = stage[v] /\ outcome'[v] = outcome[v]
        /\ stage[w] # "ended"
        /\ stage[w] = "reported" => stage'[w] = "ended" /\ outcome' = outcome
    BY <1>0, <1>4 DEF WorkerStep, Tap, TurnBack, Listen, GiveUp, Untap, End, Hear, Move
  <2> QED
    BY <2>1, <2>2, WorkerKinds DEF HitStands
<1>5. ASSUME NEW w \in Workers, Report(w)
      PROVE  HitStands'
  <2>1. UNCHANGED <<learnGen, outcome>> /\ stage[w] = "untapping"
        /\ stage' = [stage EXCEPT ![w] = "reported"]
    BY <1>5 DEF Report, Move
  <2>2. CASE w = cur
    <3>1. learnGen \in 1..MaxLearns /\ cur \in Workers
      BY <2>2, WorkerKinds
    <3>2. learnPhase' = "hit" => outcome[cur] = "key"
      BY <1>5, <2>2 DEF Report, LearnReports, Verdict
    <3> QED
      BY <1>0, <2>1, <2>2, <3>1, <3>2 DEF HitStands
  <2>3. CASE w # cur
    <3>1. learnPhase' = learnPhase
      BY <1>5, <2>3 DEF Report, LearnReports
    <3> QED
      BY <1>0, <2>1, <2>3, <3>1, WorkerKinds DEF HitStands
  <2> QED
    BY <2>2, <2>3
<1> QED
  BY <1>1, <1>2, <1>3, <1>4, <1>5 DEF Next

\* A stale thread's answer is never shown as the current learn's, for any number of
\* learns that supersede each other.
THEOREM HitsAreCurrent == Spec => []HitIsCurrent
<1>1. Init => HitStands
  BY DEF Init, HitStands
<1>2. Inv /\ HitStands /\ [Next]_vars => HitStands'
  BY StepHit
<1>3. HitStands => HitIsCurrent
  BY DEF HitStands, HitIsCurrent
<1> QED
  BY InitInv, StepInv, <1>1, <1>2, <1>3, PTL DEF Spec

\* The worker has tapped the panel, or is about to, and will still say Unobserve.
Owes(at, w) == at[w] \in {"tapping", "listening", "closing"}

UnobserveAfter(q, i) == \E j \in DOMAIN q : j > i /\ q[j].op = "Unobserve"

\* Whatever fills the slot, now or by a command in the queue, is followed by an
\* Unobserve or comes of a worker that owes one.
Returning ==
    /\ slot # NoWorker => UnobserveAfter(commands, 0) \/ Owes(stage, slot)
    /\ \A i \in DOMAIN commands :
           commands[i].op = "Observe" => UnobserveAfter(commands, i) \/ Owes(stage, commands[i].who)

Cmds == [op : {"Observe", "Unobserve"}, who : Workers]

\* A command more at the end of the queue.
LEMMA OneMore ==
    ASSUME Returning, commands \in Seq(Cmds), NEW m \in Cmds, slot' = slot,
           commands' = Append(commands, m),
           m.op = "Observe" => Owes(stage', m.who),
           m.op = "Unobserve" \/ \A v \in Workers : Owes(stage, v) => Owes(stage', v),
           slot \in Workers \cup {NoWorker}
    PROVE  Returning'
<1>1. /\ Len(commands) \in Nat /\ Len(commands') = Len(commands) + 1
      /\ \A i \in 1..Len(commands) : commands'[i] = commands[i] /\ commands[i] \in Cmds
      /\ commands'[Len(commands) + 1] = m
      /\ DOMAIN commands = 1..Len(commands) /\ DOMAIN commands' = 1..(Len(commands) + 1)
  OBVIOUS
<1>2. \A i \in Nat : UnobserveAfter(commands, i) => UnobserveAfter(commands', i)
  BY <1>1 DEF UnobserveAfter
<1>3. CASE m.op = "Unobserve"
  <2>1. \A i \in 0..Len(commands) : UnobserveAfter(commands', i)
    BY <1>1, <1>3 DEF UnobserveAfter
  <2>2. \A i \in DOMAIN commands' : commands'[i].op = "Observe" => i \in 1..Len(commands)
    BY <1>1, <1>3
  <2> QED
    BY <1>1, <2>1, <2>2 DEF Returning
<1>4. CASE m.op = "Observe"
  <2>1. \A v \in Workers : Owes(stage, v) => Owes(stage', v)
    BY <1>4
  <2>2. ASSUME NEW i \in DOMAIN commands', commands'[i].op = "Observe"
        PROVE  UnobserveAfter(commands', i) \/ Owes(stage', commands'[i].who)
    <3>1. CASE i = Len(commands) + 1
      BY <1>1, <1>4, <3>1
    <3>2. CASE i \in 1..Len(commands)
      <4>1. commands'[i] = commands[i] /\ commands[i].who \in Workers /\ i \in Nat
        BY <1>1, <3>2 DEF Cmds
      <4>2. UnobserveAfter(commands, i) \/ Owes(stage, commands[i].who)
        BY <1>1, <2>2, <3>2, <4>1 DEF Returning
      <4>3. Owes(stage, commands[i].who) => Owes(stage', commands[i].who)
        BY <2>1, <4>1 DEF Owes
      <4> QED
        BY <1>2, <4>1, <4>2, <4>3 DEF Owes
    <3> QED
      BY <1>1, <3>1, <3>2
  <2>3. slot' # NoWorker => UnobserveAfter(commands', 0) \/ Owes(stage', slot')
    <3>1. slot # NoWorker => UnobserveAfter(commands, 0) \/ Owes(stage, slot)
      BY DEF Returning
    <3>2. Owes(stage, slot) /\ slot # NoWorker => Owes(stage', slot)
      BY <2>1
    <3> QED
      BY <1>2, <3>1, <3>2 DEF Owes
  <2> QED
    BY <2>2, <2>3 DEF Returning
<1> QED
  BY <1>3, <1>4 DEF Cmds

\* A step that leaves slot and queue alone and makes nobody forget its debt.
LEMMA NoDebtForgotten ==
    ASSUME Returning, commands \in Seq(Cmds), slot \in Workers \cup {NoWorker},
           UNCHANGED commands, slot' = slot \/ slot' = NoWorker,
           \A v \in Workers : Owes(stage, v) => Owes(stage', v)
    PROVE  Returning'
<1>1. \A i \in DOMAIN commands : commands[i].who \in Workers
  <2>1. \A i \in DOMAIN commands : commands[i] \in Cmds
    OBVIOUS
  <2> QED
    BY <2>1 DEF Cmds
<1>2. \A i : UnobserveAfter(commands', i) <=> UnobserveAfter(commands, i)
  BY DEF UnobserveAfter
<1>3. \A i \in DOMAIN commands : Owes(stage, commands[i].who) => Owes(stage', commands'[i].who)
  BY <1>1 DEF Owes
<1>4. slot' # NoWorker /\ Owes(stage, slot) => Owes(stage', slot')
  BY DEF Owes
<1> QED
  BY <1>2, <1>3, <1>4 DEF Returning

\* The pump takes the first command.
LEMMA TakeReturns ==
    ASSUME Returning, commands \in Seq(Cmds), TakeCommand
    PROVE  Returning'
<1>1. /\ commands # <<>> /\ commands' = Tail(commands) /\ UNCHANGED stage
      /\ slot' = IF Head(commands).op = "Observe" THEN Head(commands).who ELSE NoWorker
  BY DEF TakeCommand
<1>2. /\ Len(commands) \in Nat \ {0} /\ DOMAIN commands = 1..Len(commands)
      /\ DOMAIN commands' = 1..(Len(commands) - 1)
      /\ \A i \in 1..(Len(commands) - 1) : commands'[i] = commands[i + 1]
      /\ Head(commands) = commands[1]
  BY <1>1
<1>3. \A i \in 1..Len(commands) : UnobserveAfter(commands, i) => UnobserveAfter(commands', i - 1)
  <2> SUFFICES ASSUME NEW i \in 1..Len(commands), UnobserveAfter(commands, i)
               PROVE  UnobserveAfter(commands', i - 1)
    OBVIOUS
  <2>1. PICK j \in 1..Len(commands) : j > i /\ commands[j].op = "Unobserve"
    BY <1>2 DEF UnobserveAfter
  <2>2. j - 1 \in 1..(Len(commands) - 1) /\ j - 1 > i - 1 /\ commands'[j - 1] = commands[j]
    BY <1>2, <2>1
  <2> QED
    BY <1>2, <2>1, <2>2 DEF UnobserveAfter
<1>4. slot' # NoWorker => UnobserveAfter(commands', 0) \/ Owes(stage', slot')
  <2>1. CASE commands[1].op = "Observe"
    <3>1. UnobserveAfter(commands, 1) \/ Owes(stage, commands[1].who)
      BY <1>2, <2>1 DEF Returning
    <3>2. UnobserveAfter(commands, 1) => UnobserveAfter(commands', 0)
      <4>1. 1 \in 1..Len(commands) /\ 1 - 1 = 0
        BY <1>2
      <4> QED
        BY <1>3, <4>1
    <3> QED
      BY <1>1, <1>2, <2>1, <3>1, <3>2 DEF Owes
  <2>2. CASE commands[1].op # "Observe"
    BY <1>1, <1>2, <2>2
  <2> QED
    BY <2>1, <2>2
<1>5. ASSUME NEW i \in DOMAIN commands', commands'[i].op = "Observe"
      PROVE  UnobserveAfter(commands', i) \/ Owes(stage', commands'[i].who)
  <2>1. i + 1 \in 1..Len(commands) /\ commands'[i] = commands[i + 1] /\ (i + 1) - 1 = i
    BY <1>2
  <2>2. UnobserveAfter(commands, i + 1) \/ Owes(stage, commands[i + 1].who)
    BY <1>2, <1>5, <2>1 DEF Returning
  <2>3. UnobserveAfter(commands, i + 1) => UnobserveAfter(commands', i)
    BY <1>3, <2>1
  <2> QED
    BY <1>1, <2>1, <2>2, <2>3 DEF Owes
<1> QED
  BY <1>4, <1>5 DEF Returning

\* Every step keeps the debts.
LEMMA StepReturning ==
    ASSUME Inv, Returning, [Next]_vars
    PROVE  Returning'
<1>0. /\ stage \in [Workers -> Stages] /\ commands \in Seq(Cmds)
      /\ slot \in Workers \cup {NoWorker}
  BY DEF Inv, TypeOK, Cmds
<1>1. CASE LearnKey
  <2>1. learnGen + 1 \in 1..MaxLearns
    BY <1>1, BoundsAssumption DEF LearnKey, Inv, TypeOK
  <2>2. stage[<<"learn", learnGen + 1>>] = "unborn"
    BY <2>1 DEF Inv, TypeOK, Fresh
  <2>3. \A v \in Workers : Owes(stage, v) => Owes(stage', v)
    BY <1>0, <1>1, <2>2 DEF LearnKey, Owes
  <2> QED
    BY <1>0, <1>1, <2>3, NoDebtForgotten DEF LearnKey
<1>2. CASE TestStart
  <2>1. testGen + 1 \in 1..MaxTests
    BY <1>2, BoundsAssumption DEF TestStart, Inv, TypeOK
  <2>2. stage[<<"test", testGen + 1>>] = "unborn"
    BY <2>1 DEF Inv, TypeOK, Fresh
  <2>3. \A v \in Workers : Owes(stage, v) => Owes(stage', v)
    BY <1>0, <1>2, <2>2 DEF TestStart, Owes
  <2> QED
    BY <1>0, <1>2, <2>3, NoDebtForgotten DEF TestStart
<1>3. CASE LearnCancel \/ TestCancel \/ Play \/ Press \/ UNCHANGED vars
  <2>1. UNCHANGED <<commands, stage>> /\ (slot' = slot \/ slot' = NoWorker)
    BY <1>3 DEF LearnCancel, TestCancel, Play, Press, vars
  <2>2. \A v \in Workers : Owes(stage, v) => Owes(stage', v)
    BY <2>1 DEF Owes
  <2> QED
    BY <1>0, <2>1, <2>2, NoDebtForgotten
<1>4. CASE TakeCommand
  BY <1>0, <1>4, TakeReturns
<1>5. ASSUME NEW w \in Workers, Tap(w) PROVE Returning'
  <2> DEFINE m == [op |-> "Observe", who |-> w]
  <2>1. m \in Cmds /\ m.op = "Observe" /\ m.who = w
    BY DEF Cmds
  <2>2. commands' = Append(commands, m) /\ slot' = slot
        /\ stage[w] = "spawned" /\ stage' = [stage EXCEPT ![w] = "tapping"]
    BY <1>5 DEF Tap, Move
  <2>3. Owes(stage', w) /\ \A v \in Workers : Owes(stage, v) => Owes(stage', v)
    BY <1>0, <2>2 DEF Owes
  <2>4. Owes(stage', m.who)
    BY <2>1, <2>3 DEF Owes
  <2> HIDE DEF m
  <2> QED
    BY <1>0, <2>1, <2>2, <2>3, <2>4, OneMore
<1>6. ASSUME NEW w \in Workers, Untap(w) PROVE Returning'
  <2> DEFINE m == [op |-> "Unobserve", who |-> w]
  <2>1. m \in Cmds /\ m.op = "Unobserve"
    BY DEF Cmds
  <2>2. commands' = Append(commands, m) /\ slot' = slot
    BY <1>6 DEF Untap
  <2> HIDE DEF m
  <2> QED
    BY <1>0, <2>1, <2>2, OneMore
<1>7. ASSUME NEW w \in Workers,
             TurnBack(w) \/ Listen(w) \/ GiveUp(w) \/ Hear(w) \/ Report(w) \/ End(w)
      PROVE  Returning'
  <2>1. UNCHANGED <<commands, slot>>
    BY <1>7 DEF TurnBack, Listen, GiveUp, Hear, Report, End
  <2>2. \A v \in Workers : Owes(stage, v) => Owes(stage', v)
    BY <1>0, <1>7 DEF TurnBack, Listen, GiveUp, Hear, Report, End, Move, Owes
  <2> QED
    BY <1>0, <2>1, <2>2, NoDebtForgotten
<1> QED
  BY <1>1, <1>2, <1>3, <1>4, <1>5, <1>6, <1>7 DEF Next, WorkerStep

\* Once no observer is under way and the pump has taken its commands, the panel types
\* again: for any number of learns and tests, however each of them ended and however
\* often the pump was too slow to acknowledge.
THEOREM PanelIsGivenBack == Spec => []PanelComesBack
<1>1. Init => Returning
  BY DEF Init, Returning
<1>2. Inv /\ Returning /\ [Next]_vars => Returning'
  BY StepReturning
<1>3. Inv /\ Returning => PanelComesBack
  <2> SUFFICES ASSUME Inv, Returning, commands = <<>>, slot # NoWorker,
                      \A w \in Workers : stage[w] \in {"unborn", "reported", "ended"}
               PROVE  FALSE
    BY DEF PanelComesBack
  <2>1. ~UnobserveAfter(commands, 0)
    BY DEF UnobserveAfter
  <2>2. slot \in Workers
    BY DEF Inv, TypeOK
  <2> QED
    BY <2>1, <2>2 DEF Returning, Owes
<1> QED
  BY InitInv, StepInv, <1>1, <1>2, <1>3, PTL DEF Spec

-----------------------------------------------------------------------------
(* Typethrough: type correctness. *)
\* Every mode, and the unknown one, says for each board which keys are owned.
LEMMA ModeKeys ==
    /\ Nobody \in Modes /\ Whole \in Modes /\ Unknown \notin Modes
    /\ \A m \in Modes \cup {Unknown} : m.keys \in [Devices -> SUBSET Keys]
<1>1. Nobody \in Modes /\ Whole \in Modes
  BY DEF Modes
<1>2. \A m \in Modes : m.kind \in {"none", "whole", "split"}
  BY DEF Modes, Nobody, Whole, PerDevice
<1>3. Unknown \notin Modes
  BY <1>2 DEF Unknown
<1>4. /\ Nobody.keys \in [Devices -> SUBSET Keys] /\ Whole.keys \in [Devices -> SUBSET Keys]
      /\ Unknown.keys \in [Devices -> SUBSET Keys]
  BY DEF Nobody, Whole, Unknown
<1>5. \A takes \in Splits : PerDevice(takes).keys \in [Devices -> SUBSET Keys]
  BY SplitsAssumption DEF PerDevice
<1> QED
  BY <1>1, <1>3, <1>4, <1>5 DEF Modes

\* A decision is one of the modes.
LEMMA DecidedType ==
    ASSUME NEW own \in Modes, NEW observing \in BOOLEAN
    PROVE  Decided(own, observing) \in Modes
  BY ModeKeys DEF Decided

\* What a let-go leaves are keys.
LEMMA LetGoType ==
    ASSUME PumpTypeOK, NEW now \in Modes
    PROVE  /\ HeldAfter(now) \in SUBSET Keys /\ DownAfter(now) \in SUBSET Keys
           /\ LostAfter(now) \in SUBSET Keys
  BY DEF HeldAfter, DownAfter, LostAfter, PumpTypeOK

\* The part of a command's step that its four forms have in common.
LEMMA AcknowledgeType ==
    ASSUME PumpTypeOK, orders # <<>>, Acknowledge
    PROVE  /\ orders' \in Seq(Messages) /\ waiting' \in SUBSET Clients
           /\ running' \in BOOLEAN /\ events' \in Seq(Strokes) /\ Len(events') <= EventCap
           /\ latch' \in BOOLEAN /\ boards' \in [Devices -> {"up", "leaving", "gone"}]
           /\ phys' \in [Devices -> SUBSET Keys] /\ refusing' \in BOOLEAN
           /\ seen' \in [Devices -> SUBSET Keys]
  BY DEF Acknowledge, PumpTypeOK

\* A mode put in force by a command keeps the types of the pump and Windows.
LEMMA ApplyType ==
    ASSUME PumpTypeOK, NEW now \in Modes, Apply(now)
    PROVE  /\ effective' \in Modes /\ emulating' \in BOOLEAN
           /\ held' \in SUBSET Keys /\ osDown' \in SUBSET Keys /\ lost' \in SUBSET Keys
  BY LetGoType DEF Apply

\* A stroke offered to the event channel fits it.
LEMMA OfferType ==
    ASSUME PumpTypeOK, NEW d \in Devices, NEW k \in Keys, NEW down \in BOOLEAN,
           Offer(d, k, down)
    PROVE  /\ events' \in Seq(Strokes) /\ Len(events') <= EventCap
           /\ phys' \in [Devices -> SUBSET Keys]
<1>1. [dev |-> d, key |-> k, down |-> down] \in Strokes
  BY DEF Strokes
<1>2. After(phys[d], k, down) \in SUBSET Keys
  BY DEF After, PumpTypeOK
<1>3. events' \in Seq(Strokes) /\ Len(events') <= EventCap
  BY <1>1, PumpAssumption DEF Offer, HasRoom, PumpTypeOK
<1> QED
  BY <1>2, <1>3 DEF Offer, HasRoom, PumpTypeOK

\* The initial state is well typed.
LEMMA PumpInitType ==
    PumpInit => PumpTypeOK
<1> SUFFICES ASSUME PumpInit PROVE PumpTypeOK
  OBVIOUS
<1>1. events \in Seq(Strokes) /\ Len(events) <= EventCap /\ orders \in Seq(Messages)
  BY PumpAssumption DEF PumpInit
<1>2. /\ boards \in [Devices -> {"up", "leaving", "gone"}]
      /\ phys \in [Devices -> SUBSET Keys] /\ seen \in [Devices -> SUBSET Keys]
  BY DEF PumpInit
<1> QED
  BY <1>1, <1>2, ModeKeys DEF PumpInit, PumpTypeOK, Channels

\* Every step keeps the types.
LEMMA PumpStepType ==
    ASSUME PumpTypeOK, [PumpNext]_pumpVars
    PROVE  PumpTypeOK'
<1>1. CASE SetOwned
  <2>1. Head(orders) \in Messages
    BY <1>1 DEF SetOwned, Take, PumpTypeOK
  <2>2. owned' \in Modes
    BY <1>1, <2>1 DEF SetOwned, Messages
  <2>3. Decided(owned', observer # "none") \in Modes
    BY <2>2, DecidedType
  <2>4. sure' \in Modes \cup {Unknown}
    BY <1>1, <2>2 DEF SetOwned, PumpTypeOK
  <2> QED
    BY <1>1, <2>2, <2>3, <2>4, ApplyType, AcknowledgeType DEF SetOwned, Take, PumpTypeOK
<1>2. CASE SetSession
  <2>1. Decided(owned, observer # "none") \in Modes
    BY DecidedType DEF PumpTypeOK
  <2>2. session' \in Channels
    BY <1>2 DEF SetSession, Channels
  <2> QED
    BY <1>2, <2>1, <2>2, ApplyType, AcknowledgeType DEF SetSession, Take, PumpTypeOK
<1>3. CASE SetObserver
  <2>1. Decided(owned, observer' # "none") \in Modes
    BY DecidedType DEF PumpTypeOK
  <2>2. observer' \in Channels
    BY <1>3 DEF SetObserver, Channels
  <2> QED
    BY <1>3, <2>1, <2>2, ApplyType, AcknowledgeType DEF SetObserver, Take, PumpTypeOK
<1>4. CASE Exit
  <2>1. held' \in SUBSET Keys /\ osDown' \in SUBSET Keys /\ lost' \in SUBSET Keys
    BY <1>4 DEF Exit, Dropped, PumpTypeOK
  <2>2. /\ orders' \in Seq(Messages) /\ events' \in Seq(Strokes)
        /\ Len(events') <= EventCap
    BY <1>4, PumpAssumption DEF Exit, Dropped
  <2> QED
    BY <1>4, <2>1, <2>2 DEF Exit, Dropped, PumpTypeOK
<1>5. CASE Event
  <2>1. Head(events) \in Strokes /\ Tail(events) \in Seq(Strokes)
            /\ Len(Tail(events)) <= EventCap
    BY <1>5, PumpAssumption DEF Event, PumpTypeOK
  <2>2. Forwarded(session) \in Channels /\ Forwarded(observer) \in Channels
    BY DEF Forwarded, Channels, PumpTypeOK
  <2> DEFINE now == Decided(owned, Forwarded(observer) # "none")
  <2>3. now \in Modes
    BY DecidedType DEF PumpTypeOK
  <2>4. /\ HeldAfter(now) \in SUBSET Keys /\ DownAfter(now) \in SUBSET Keys
        /\ LostAfter(now) \in SUBSET Keys
    BY <2>3, LetGoType
  <2>5. Head(events).key \in Keys /\ Head(events).dev \in Devices
    BY <2>1 DEF Strokes
  <2>6. held' \in SUBSET Keys /\ osDown' \in SUBSET Keys /\ lost' \in SUBSET Keys
    BY <1>5, <2>4, <2>5 DEF Event, After
  <2>7. seen' \in [Devices -> SUBSET Keys]
    BY <1>5, <2>5 DEF Event, After, PumpTypeOK
  <2>8. effective' \in Modes /\ emulating' \in BOOLEAN
    BY <1>5, <2>3 DEF Event
  <2> QED
    BY <1>5, <2>1, <2>2, <2>6, <2>7, <2>8 DEF Event, PumpTypeOK
<1>6. ASSUME NEW c \in Clients, StopWaiting(c) PROVE PumpTypeOK'
  BY <1>6 DEF StopWaiting, pump, windows, PumpTypeOK
<1>7. ASSUME NEW c \in Clients, NEW op \in Ops, NEW mode \in Modes, Call(c, op, mode)
      PROVE  PumpTypeOK'
  <2>1. [op |-> op, mode |-> mode, from |-> c] \in Messages
    BY DEF Messages
  <2>2. orders' \in Seq(Messages)
    BY <1>7, <2>1 DEF Call, PumpTypeOK
  <2> QED
    BY <1>7, <2>2 DEF Call, pump, windows, PumpTypeOK
<1>8. ASSUME NEW d \in Devices, NEW k \in Keys, NEW down \in BOOLEAN, Stroke(d, k, down)
      PROVE  PumpTypeOK'
  BY <1>8, OfferType DEF Stroke, pump, windows, PumpTypeOK
<1>9. ASSUME NEW d \in Devices, Unplug(d) PROVE PumpTypeOK'
  BY <1>9 DEF Unplug, pump, windows, PumpTypeOK
<1>10. ASSUME NEW d \in Devices, Leaving(d) PROVE PumpTypeOK'
  <2>1. CASE phys[d] = {}
    BY <1>10, <2>1 DEF Leaving, pump, windows, PumpTypeOK
  <2>2. CASE phys[d] # {}
    <3>1. PICK k \in Keys : Offer(d, k, FALSE)
      BY <1>10, <2>2 DEF Leaving, PumpTypeOK
    <3> QED
      BY <1>10, <2>2, <3>1, OfferType DEF Leaving, pump, windows, PumpTypeOK
  <2> QED
    BY <2>1, <2>2
<1>11. CASE HangUp
  BY <1>11 DEF HangUp, windows, PumpTypeOK, Channels
<1>12. CASE Latch
  BY <1>12 DEF Latch, pump, windows, PumpTypeOK
<1>13. CASE Refuse
  BY <1>13 DEF Refuse, pump, windows, PumpTypeOK
<1>14. CASE UNCHANGED pumpVars
  BY <1>14 DEF pumpVars, PumpTypeOK
<1>15. CASE Command \/ CaptureGone
  BY <1>1, <1>2, <1>3, <1>4, <1>15 DEF Command, Stop, CaptureGone
<1>16. ASSUME NEW d \in Devices, Unplug(d) \/ Leaving(d)
       PROVE  PumpTypeOK'
  BY <1>9, <1>10, <1>16
<1> QED
  BY <1>5, <1>6, <1>7, <1>8, <1>11, <1>12, <1>13, <1>14, <1>15, <1>16 DEF PumpNext

\* Every variable of the module keeps its type.
THEOREM PumpTypeCorrect == PumpSpec => []PumpTypeOK
<1>1. PumpTypeOK /\ [PumpNext]_pumpVars => PumpTypeOK'
  BY PumpStepType
<1> QED
  BY PumpInitType, <1>1, PTL DEF PumpSpec

-----------------------------------------------------------------------------
(* No stuck key. *)

\* What Windows holds because of the pump, the pump tracks or has lost.
Tracked == osDown \subseteq held \cup lost

\* A key held is down on some board that the mode in force does not own.
Backed ==
    running => \A k \in held : \E d \in Devices : k \in seen[d] /\ ~Owns(effective, d, k)

ReleasedAtExit == ~running => held = {}

KeyInv == PumpTypeOK /\ Tracked /\ Backed /\ ReleasedAtExit

\* After a let-go the three hold for the mode now in force.
LEMMA LetGoKeeps ==
    ASSUME KeyInv, running, NEW now
    PROVE  /\ DownAfter(now) \subseteq HeldAfter(now) \cup LostAfter(now)
           /\ \A k \in HeldAfter(now) :
                 \E d \in Devices : k \in seen[d] /\ ~Owns(now, d, k)
  BY DEF KeyInv, Tracked, Backed, DownAfter, HeldAfter, LostAfter, LetsGo

\* No key is held at first.
LEMMA InitKeys ==
    PumpInit => KeyInv
  BY PumpInitType DEF PumpInit, KeyInv, Tracked, Backed, ReleasedAtExit

\* A command keeps the key invariant: what it does to keys is to let them go.
LEMMA ApplyKeys ==
    ASSUME KeyInv, running, NEW now, Apply(now), seen' = seen, running' = running
    PROVE  Tracked' /\ Backed' /\ ReleasedAtExit'
  BY LetGoKeeps DEF Apply, Tracked, Backed, ReleasedAtExit

\* So does an event: what it types it tracks, and its board backs it.
LEMMA EventKeys ==
    ASSUME KeyInv, Event
    PROVE  Tracked' /\ Backed' /\ ReleasedAtExit'
<1> DEFINE e == Head(events)
           now == Decided(owned, Forwarded(observer) # "none")
           types == ~Owns(now, e.dev, e.key) /\ (e.down \/ e.key \in HeldAfter(now))
           done == types /\ ~refusing
<1>1. running /\ running' /\ effective' = now
  BY DEF Event
<1>2. e \in Strokes
  BY DEF Event, KeyInv, PumpTypeOK
<1>3. e.dev \in Devices /\ e.key \in Keys /\ e.down \in BOOLEAN
  BY <1>2 DEF Strokes
<1>4. /\ DownAfter(now) \subseteq HeldAfter(now) \cup LostAfter(now)
      /\ \A k \in HeldAfter(now) : \E d \in Devices : k \in seen[d] /\ ~Owns(now, d, k)
  BY <1>1, LetGoKeeps
<1>5. seen' = [seen EXCEPT ![e.dev] = After(@, e.key, e.down)]
  BY DEF Event
<1>6. seen \in [Devices -> SUBSET Keys]
  BY DEF KeyInv, PumpTypeOK
<1> HIDE DEF now
<1>7. CASE done
  <2>1. /\ held' = After(HeldAfter(now), e.key, e.down)
        /\ osDown' = After(DownAfter(now), e.key, e.down)
        /\ lost' = LostAfter(now) \ {e.key}
    BY <1>7 DEF Event, now
  <2>2. Tracked'
    BY <1>3, <1>4, <2>1 DEF Tracked, After
  <2>3. CASE e.down
    BY <1>1, <1>3, <1>4, <1>5, <1>6, <1>7, <2>1, <2>2, <2>3
    DEF Backed, ReleasedAtExit, After
  <2>4. CASE ~e.down
    BY <1>1, <1>3, <1>4, <1>5, <1>6, <1>7, <2>1, <2>2, <2>4
    DEF Backed, ReleasedAtExit, After
  <2> QED
    BY <2>3, <2>4
<1>8. CASE ~done /\ types /\ ~e.down
  <2>1. /\ held' = HeldAfter(now) \ {e.key}
        /\ osDown' = DownAfter(now)
        /\ lost' = LostAfter(now) \cup {e.key}
    BY <1>8 DEF Event, now, After
  <2> QED
    BY <1>1, <1>3, <1>4, <1>5, <1>6, <1>8, <2>1 DEF Tracked, Backed, ReleasedAtExit, After
<1>9. CASE ~done /\ ~(types /\ ~e.down)
  <2>1. /\ held' = HeldAfter(now) /\ osDown' = DownAfter(now) /\ lost' = LostAfter(now)
    BY <1>9 DEF Event, now
  <2>2. e.down \/ Owns(now, e.dev, e.key) \/ e.key \notin held'
    BY <1>9, <2>1
  <2>3. \A k \in held' : \E d \in Devices : k \in seen'[d] /\ ~Owns(now, d, k)
    <3> SUFFICES ASSUME NEW k \in held'
                 PROVE  \E d \in Devices : k \in seen'[d] /\ ~Owns(now, d, k)
      OBVIOUS
    <3>1. PICK d \in Devices : k \in seen[d] /\ ~Owns(now, d, k)
      BY <1>4, <2>1
    <3>2. k \in seen'[d]
      BY <1>3, <1>5, <1>6, <2>2, <3>1 DEF After
    <3> QED
      BY <3>1, <3>2
  <2> QED
    BY <1>1, <1>4, <2>1, <2>3 DEF Tracked, Backed, ReleasedAtExit
<1> QED
  BY <1>7, <1>8, <1>9

\* The key invariant is inductive.
LEMMA StepKeys ==
    ASSUME KeyInv, [PumpNext]_pumpVars
    PROVE  KeyInv'
<1>1. PumpTypeOK'
  BY PumpStepType DEF KeyInv
<1>2. CASE SetOwned
  BY <1>1, <1>2, ApplyKeys DEF SetOwned, Take, Acknowledge, KeyInv
<1>3. CASE SetSession
  BY <1>1, <1>3, ApplyKeys DEF SetSession, Take, Acknowledge, KeyInv
<1>4. CASE SetObserver
  BY <1>1, <1>4, ApplyKeys DEF SetObserver, Take, Acknowledge, KeyInv
<1>5. CASE Exit
  BY <1>1, <1>5 DEF Exit, Dropped, KeyInv, Tracked, Backed, ReleasedAtExit
<1>6. CASE Event
  BY <1>1, <1>6, EventKeys DEF KeyInv
<1>7. CASE UNCHANGED <<running, effective, held, osDown, seen, lost>>
  BY <1>1, <1>7 DEF KeyInv, Tracked, Backed, ReleasedAtExit
<1>8. ASSUME NEW c \in Clients, NEW op \in Ops, NEW mode \in Modes,
             StopWaiting(c) \/ Call(c, op, mode)
      PROVE  UNCHANGED <<running, effective, held, osDown, seen, lost>>
  BY <1>8 DEF StopWaiting, Call, pump, windows
<1>9. ASSUME NEW d \in Devices, NEW k \in Keys, NEW down \in BOOLEAN,
             Unplug(d) \/ Leaving(d) \/ Stroke(d, k, down)
      PROVE  UNCHANGED <<running, effective, held, osDown, seen, lost>>
  BY <1>9 DEF Unplug, Leaving, Stroke, pump, windows
<1>10. ASSUME NEW d \in Devices, Unplug(d) \/ Leaving(d)
      PROVE  UNCHANGED <<running, effective, held, osDown, seen, lost>>
  BY <1>10 DEF Unplug, Leaving, pump, windows
<1>11. ASSUME HangUp \/ Latch \/ Refuse \/ UNCHANGED pumpVars
       PROVE  UNCHANGED <<running, effective, held, osDown, seen, lost>>
  BY <1>11 DEF HangUp, Latch, Refuse, pumpVars, pump, windows
<1>12. ASSUME NEW c \in Clients, StopWaiting(c)
      PROVE  UNCHANGED <<running, effective, held, osDown, seen, lost>>
  BY <1>12 DEF StopWaiting, pump, windows
<1>13. CASE Command \/ CaptureGone
  BY <1>1, <1>2, <1>3, <1>4, <1>5, <1>13 DEF Command, Stop, CaptureGone, KeyInv
<1> QED
  BY <1>1, <1>6, <1>7, <1>8, <1>9, <1>10, <1>11, <1>12, <1>13 DEF PumpNext, KeyInv

\* Windows holds no key that every board has let go of, for any boards, keys,
\* splits, clients and channel sizes.
THEOREM NoKeyIsStuck == PumpSpec => []NoStuckKey
<1>1. KeyInv /\ [PumpNext]_pumpVars => KeyInv'
  BY StepKeys
<1>2. KeyInv => NoStuckKey
  BY DEF KeyInv, Tracked, Backed, NoStuckKey
<1> QED
  BY InitKeys, <1>1, <1>2, PTL DEF PumpSpec

\* However the pump ends, it has let go of everything that Windows would take.
THEOREM ExitReleases == PumpSpec => []ExitLetsGo
<1>1. KeyInv /\ [PumpNext]_pumpVars => KeyInv'
  BY StepKeys
<1>2. KeyInv => ExitLetsGo
  BY DEF KeyInv, Tracked, ReleasedAtExit, ExitLetsGo
<1> QED
  BY InitKeys, <1>1, <1>2, PTL DEF PumpSpec

-----------------------------------------------------------------------------
(* The acknowledgement. *)

\* A mode that a caller was told is in force is the one asked for last.
SureIsOwned == sure \in Modes => owned = sure /\ ~OwnQueued(orders)

SureInv == PumpTypeOK /\ SureIsOwned

\* Taking a command that is not an Own leaves no new Own in the queue.
LEMMA TailQueue ==
    ASSUME NEW q \in Seq(Messages), q # <<>>, ~OwnQueued(q)
    PROVE  ~OwnQueued(Tail(q))
  BY DEF OwnQueued

\* Nor does queueing such a command add one.
LEMMA AppendQueue ==
    ASSUME NEW q \in Seq(Messages), NEW m \in Messages, m.op # "Own", ~OwnQueued(q)
    PROVE  ~OwnQueued(Append(q, m))
<1> SUFFICES ASSUME NEW i \in 1..Len(Append(q, m)), Append(q, m)[i].op = "Own"
             PROVE  FALSE
  BY DEF OwnQueued
<1>1. CASE i \in 1..Len(q)
  BY <1>1 DEF OwnQueued
<1>2. CASE i = Len(q) + 1
  BY <1>2
<1> QED
  BY <1>1, <1>2

\* The invariant about acknowledgements is inductive.
LEMMA StepSure ==
    ASSUME SureInv, [PumpNext]_pumpVars
    PROVE  SureInv'
<1>1. PumpTypeOK'
  BY PumpStepType DEF SureInv
<1>2. CASE SetOwned
  <2>1. OwnQueued(orders)
    BY <1>2 DEF SetOwned, Take, OwnQueued, SureInv, PumpTypeOK
  <2>2. sure \notin Modes
    BY <2>1 DEF SureInv, SureIsOwned
  <2> QED
    BY <1>1, <1>2, <2>2 DEF SetOwned, Acknowledge, SureInv, SureIsOwned
<1>3. CASE SetSession \/ SetObserver
  <2>1. orders' = Tail(orders) /\ orders # <<>> /\ UNCHANGED <<owned, sure>>
    BY <1>3 DEF SetSession, SetObserver, Take, Acknowledge
  <2> QED
    BY <1>1, <2>1, TailQueue DEF SureInv, SureIsOwned, PumpTypeOK
<1>4. CASE Exit
  BY <1>1, <1>4, ModeKeys DEF Exit, Dropped, SureInv, SureIsOwned
<1>5. ASSUME NEW c \in Clients, NEW op \in Ops, NEW mode \in Modes, Call(c, op, mode)
      PROVE  SureInv'
  <2>1. CASE op = "Own"
    BY <1>1, <1>5, <2>1, ModeKeys DEF Call, SureInv, SureIsOwned
  <2>2. CASE op # "Own"
    <3>1. [op |-> op, mode |-> mode, from |-> c] \in Messages
      BY DEF Messages
    <3>2. ~OwnQueued(orders) => ~OwnQueued(orders')
      BY <1>5, <2>2, <3>1, AppendQueue DEF Call, SureInv, PumpTypeOK
    <3>3. UNCHANGED <<owned, sure>>
      BY <1>5, <2>2 DEF Call, pump
    <3> QED
      BY <1>1, <3>2, <3>3 DEF SureInv, SureIsOwned
  <2> QED
    BY <2>1, <2>2
<1>6. CASE UNCHANGED <<owned, sure, orders>>
  BY <1>1, <1>6 DEF SureInv, SureIsOwned
<1>7. ASSUME NEW d \in Devices, NEW k \in Keys, NEW down \in BOOLEAN, Stroke(d, k, down)
      PROVE  UNCHANGED <<owned, sure, orders>>
  BY <1>7 DEF Stroke, pump
<1>8. ASSUME NEW d \in Devices, Unplug(d) \/ Leaving(d)
      PROVE  UNCHANGED <<owned, sure, orders>>
  BY <1>8 DEF Unplug, Leaving, pump
<1>9. ASSUME NEW c \in Clients, StopWaiting(c)
      PROVE  UNCHANGED <<owned, sure, orders>>
  BY <1>9 DEF StopWaiting, pump
<1>10. ASSUME Event \/ HangUp \/ Latch \/ Refuse \/ UNCHANGED pumpVars
       PROVE  UNCHANGED <<owned, sure, orders>>
  BY <1>10 DEF Event, HangUp, Latch, Refuse, pumpVars, pump
<1>11. CASE Command \/ CaptureGone
  BY <1>2, <1>3, <1>4, <1>11 DEF Command, Stop, CaptureGone
<1> QED
  BY <1>5, <1>6, <1>7, <1>8, <1>9, <1>10, <1>11 DEF PumpNext

\* A press that is taken is taken by the step Event.
LEMMA PressIsEvent ==
    ASSUME PumpTypeOK, [PumpNext]_pumpVars, NEW d \in Devices, NEW k \in Keys, Pressed(d, k)
    PROVE  Event
<1>1. Len(events') = Len(events) - 1 /\ events # <<>> /\ running'
  BY DEF Pressed, PumpTypeOK
<1>2. events' # events
  BY <1>1 DEF PumpTypeOK
<1>3. ~(SetOwned \/ SetSession \/ SetObserver)
  BY <1>2 DEF SetOwned, SetSession, SetObserver, Acknowledge
<1>4. ~Exit
  BY <1>1 DEF Exit, Dropped
<1>5. ASSUME NEW x \in Devices, NEW y \in Keys, NEW down \in BOOLEAN, Offer(x, y, down)
      PROVE  FALSE
  <2>1. [dev |-> x, key |-> y, down |-> down] \in Strokes
    BY DEF Strokes
  <2>2. Len(Append(events, [dev |-> x, key |-> y, down |-> down])) = Len(events) + 1
    BY <2>1 DEF PumpTypeOK
  <2> QED
    BY <1>1, <1>2, <1>5, <2>2 DEF Offer, HasRoom, PumpTypeOK
<1>6. ~(\E x \in Devices, y \in Keys, down \in BOOLEAN : Stroke(x, y, down))
  BY <1>5 DEF Stroke
<1>7. ~(\E x \in Devices : Leaving(x))
  BY <1>2, <1>5 DEF Leaving, PumpTypeOK
<1>8. ~(\E x \in Devices : Unplug(x)) /\ ~(\E c \in Clients : StopWaiting(c))
  BY <1>2 DEF Unplug, StopWaiting
<1>9. ~(\E c \in Clients, op \in Ops, mode \in Modes : Call(c, op, mode))
  BY <1>2 DEF Call
<1>10. ~(HangUp \/ Latch \/ Refuse \/ UNCHANGED pumpVars)
  BY <1>2 DEF HangUp, Latch, Refuse, pumpVars
<1>11. ~(Command \/ CaptureGone)
  BY <1>3, <1>4 DEF Command, Stop, CaptureGone
<1> QED
  BY <1>6, <1>7, <1>8, <1>9, <1>10, <1>11 DEF PumpNext

\* Once a mode change is acknowledged and not superseded, no press of a key it
\* owns is typed, for any queues, boards and clients.
THEOREM AcknowledgementHolds == PumpSpec => AcknowledgedModeHolds
<1>1. PumpInit => SureInv
  <2> SUFFICES ASSUME PumpInit PROVE SureInv
    OBVIOUS
  <2>1. orders = <<>> /\ owned = sure
    BY DEF PumpInit
  <2>2. ~OwnQueued(orders)
    BY <2>1 DEF OwnQueued
  <2> QED
    BY <2>1, <2>2, PumpInitType DEF SureInv, SureIsOwned
<1>2. SureInv /\ [PumpNext]_pumpVars => SureInv'
  BY StepSure
<1>3. ASSUME SureInv, [PumpNext]_pumpVars, NEW d \in Devices, NEW k \in Keys,
             Pressed(d, k), ~latch, Owns(sure, d, k)
      PROVE  held' \subseteq held
  <2> DEFINE now == Decided(owned, Forwarded(observer) # "none")
  <2>1. Event
    BY <1>3, PressIsEvent DEF SureInv
  <2>2. sure \in Modes
    BY <1>3 DEF SureInv, PumpTypeOK, Owns, Unknown
  <2>3. now \in {owned, Whole} /\ owned = sure
    BY <1>3, <2>2 DEF SureInv, SureIsOwned, Decided
  <2>4. Owns(now, d, k)
    BY <1>3, <2>3 DEF Owns, Whole
  <2>5. Head(events).dev = d /\ Head(events).key = k
    BY <1>3 DEF Pressed
  <2>6. held' = HeldAfter(now)
    BY <2>1, <2>4, <2>5 DEF Event
  <2> QED
    BY <2>6 DEF HeldAfter
<1>4. SureInv /\ [PumpNext]_pumpVars =>
        [\A d \in Devices, k \in Keys :
            Pressed(d, k) /\ ~latch /\ Owns(sure, d, k) => held' \subseteq held]_pumpVars
  BY <1>3
<1> QED
  BY <1>1, <1>2, <1>4, PTL DEF PumpSpec, AcknowledgedModeHolds

\* A press that the pump takes while the latch is on reaches Windows.
THEOREM LatchFrees == PumpSpec => LatchFreesPanel
<1>1. ASSUME PumpTypeOK, [PumpNext]_pumpVars, NEW d \in Devices, NEW k \in Keys,
             Pressed(d, k), latch, ~refusing
      PROVE  k \in held' /\ k \in osDown'
  <2> DEFINE now == Decided(owned, Forwarded(observer) # "none")
  <2>1. Event
    BY <1>1, PressIsEvent
  <2>2. now = Nobody
    BY <1>1 DEF Decided
  <2>3. ~Owns(now, d, k)
    BY <2>2 DEF Owns, Nobody
  <2>4. Head(events).dev = d /\ Head(events).key = k /\ Head(events).down
    BY <1>1 DEF Pressed
  <2> QED
    BY <1>1, <2>1, <2>3, <2>4 DEF Event, After
<1>2. PumpTypeOK /\ [PumpNext]_pumpVars =>
        [\A d \in Devices, k \in Keys :
            Pressed(d, k) /\ latch /\ ~refusing => k \in held' /\ k \in osDown']_pumpVars
  BY <1>1
<1> QED
  BY PumpTypeCorrect, <1>2, PTL DEF PumpSpec, LatchFreesPanel
=============================================================================
