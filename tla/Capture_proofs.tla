-------------------------- MODULE Capture_proofs --------------------------
(***************************************************************************)
(* Proofs about the two modules of the capture threads: Capture, for any   *)
(* boards, keys, channel sizes and incidents, and the detector they feed,  *)
(* EscapeDetector, for any keyboards, threshold and number of keystrokes.  *)
(* No theorem speaks of both.                                              *)
(***************************************************************************)
EXTENDS Capture, EscapeDetector, FiniteSetTheorems, TLAPS

\* Each board has one owner, and that owner is a thread.
LEMMA OwnerIsThread ==
    ASSUME NEW b \in Boards
    PROVE  /\ Owner(b) \in Threads
           /\ b \in Tapped <=> b \notin Claimed
           /\ Owner(b) = Tap <=> b \in Tapped
  BY BoardsAssumption DEF Owner, Threads, Boards

\* A decision built from known boards and well-typed takes is well typed.
LEMMA DecisionType ==
    ASSUME NEW free \in BOOLEAN, NEW k, NEW tk \in [Boards -> Takes]
    PROVE  Decision(free, k, tk) \in Decisions
  BY DEF Decision, Decisions, Takes, Boards

\* A stroke adds or removes a key of the board.
LEMMA AfterType ==
    ASSUME NEW s \in Strokes, NEW held \in SUBSET Keys
    PROVE  After(held, s) \in SUBSET Keys
  BY DEF After, Strokes

\* The initial state is well typed.
LEMMA InitType == Init => TypeOK
<1> SUFFICES ASSUME Init PROVE TypeOK
  OBVIOUS
<1>1. take \in [Boards -> Takes]
  BY DEF Init, Takes
<1>2. snap \in Decisions
  BY <1>1, DecisionType DEF Init
<1>3. ctl \in [Threads -> Seq(CtlMessages)]
  BY DEF Init
<1>4. events \in 0..EventCap
  BY BoundsAssumption DEF Init
<1> QED
  BY <1>1, <1>2, <1>3, <1>4 DEF Init, TypeOK, StrokeInHand, PCs

\* A decision that passes everything is well typed.
LEMMA PassAllType ==
    ASSUME TypeOK, NEW t, NEW boards, PassAll(t, boards)
    PROVE  snap' \in Decisions /\ pass' \in BOOLEAN
<1>1. Decision(TRUE, boards, take) \in Decisions
  BY DecisionType DEF TypeOK
<1>2. CASE t = Tap
  BY <1>1, <1>2 DEF PassAll
<1>3. CASE t # Tap
  BY <1>3 DEF PassAll, TypeOK
<1> QED
  BY <1>2, <1>3

\* The common end of every thread keeps the types, given what it does to the
\* boards and the event channel.
LEMMA LeaveType ==
    ASSUME TypeOK, NEW t \in Threads, Leave(t), events' \in 0..EventCap,
           osDown' \in [Boards -> SUBSET Keys], injected' \in [Boards -> SUBSET Keys]
    PROVE  TypeOK'
<1>1. snap' \in Decisions /\ pass' \in BOOLEAN /\ wasOff' \in BOOLEAN
  BY PassAllType DEF Leave, TaskDone, TypeOK
<1>2. ctl' \in [Threads -> Seq(CtlMessages)] /\ pc' \in [Threads -> PCs]
  BY DEF Leave, TypeOK, PCs
<1>3. pend' \in [Threads -> Strokes \cup {<<>>}] /\ StrokeInHand'
  BY DEF Leave, TypeOK, StrokeInHand
<1> QED
  BY <1>1, <1>2, <1>3 DEF Leave, TypeOK, world, dog, control

\* release_injected touches nothing but its boards' key sets.
LEMMA ReleaseType ==
    ASSUME TypeOK, NEW bs, ReleaseInjected(bs)
    PROVE  osDown' \in [Boards -> SUBSET Keys] /\ injected' \in [Boards -> SUBSET Keys]
  BY DEF ReleaseInjected, TypeOK

\* Every step keeps the types.
LEMMA StepType ==
    ASSUME TypeOK, [Next]_vars
    PROVE  TypeOK'
<1> USE DEF TypeOK, StrokeInHand
<1>1. ASSUME NEW t \in Threads, SetCaptured(t) PROVE TypeOK'
  <2>1. Head(ctl[t]) \in CtlMessages /\ Tail(ctl[t]) \in Seq(CtlMessages)
    BY <1>1 DEF SetCaptured, Rearm
  <2>2. Head(ctl[t]).takes \in [Boards -> Takes]
    BY <1>1, <2>1, PlansAssumption DEF SetCaptured, Rearm, CtlMessages
  <2>3. take' \in [Boards -> Takes]
    BY <1>1, <2>2 DEF SetCaptured, Rearm
  <2>4. pass' \in BOOLEAN /\ pc' \in [Threads -> PCs] /\ StrokeInHand'
    BY <1>1 DEF SetCaptured, PCs
  <2>5. injected' \in [Boards -> SUBSET Keys] /\ osDown' \in [Boards -> SUBSET Keys]
    BY <1>1 DEF SetCaptured, Rearm, ReleaseInjected
  <2>6. ctl' \in [Threads -> Seq(CtlMessages)]
    BY <1>1, <2>1 DEF SetCaptured, Rearm
  <2> QED
    BY <1>1, <2>3, <2>4, <2>5, <2>6 DEF SetCaptured, Rearm, world
<1>2. ASSUME NEW t \in Threads, SetPassthrough(t) PROVE TypeOK'
  <2>1. ctl' \in [Threads -> Seq(CtlMessages)]
    BY <1>2 DEF SetPassthrough
  <2>2. snap' \in Decisions /\ pass' \in BOOLEAN
    BY <1>2, PassAllType DEF SetPassthrough
  <2> QED
    BY <1>2, <2>1, <2>2 DEF SetPassthrough, world, dog
<1>3. ASSUME NEW t \in Threads, Wait(t) \/ Idle(t) PROVE TypeOK'
  BY <1>3 DEF Wait, Idle, world, dog, control, decision, PCs
<1>4. CASE Rescan
  <2>1. known' \in SUBSET Tapped
    BY <1>4 DEF Rescan
  <2>2. Free(Tap) \in BOOLEAN
    BY DEF Free, Threads
  <2> QED
    BY <1>4, <2>1, <2>2 DEF Rescan, world, dog, control, PCs
<1>5. ASSUME NEW b \in Boards, NEW k \in Keys, NEW down \in BOOLEAN, Receive(b, k, down)
      PROVE  TypeOK'
  <2> DEFINE s == [board |-> b, key |-> k, down |-> down]
  <2>1. s \in Strokes
    BY DEF Strokes
  <2>2. phys' \in [Boards -> SUBSET Keys]
    BY <1>5, <2>1, AfterType DEF Receive
  <2>3. Free(Owner(b)) \in BOOLEAN
    BY OwnerIsThread DEF Free
  <2>4. known' \in SUBSET Tapped /\ pass' \in BOOLEAN
    BY <1>5, <2>3 DEF Receive
  <2>5. pend' \in [Threads -> Strokes \cup {<<>>}]
    BY <1>5, <2>1 DEF Receive
  <2>6. pc' \in [Threads -> PCs]
    BY <1>5 DEF Receive, PCs
  <2>7. StrokeInHand'
    BY <1>5, <2>1, OwnerIsThread DEF Receive
  <2> QED
    BY <1>5, <2>2, <2>4, <2>5, <2>6, <2>7 DEF Receive, world, dog, control
<1>6. ASSUME NEW t \in Threads, StoreLatch(t) \/ \E g \in {"None", "Left", "Stop"} : Detect(t, g)
      PROVE  TypeOK'
  BY <1>6 DEF StoreLatch, Detect, world, dog, control, decision, PCs
<1>7. CASE Load
  BY <1>7 DEF Load, Free, Threads, world, dog, control, PCs
<1>16. CASE Publish
  <2>1. snap' \in Decisions
    BY <1>16, DecisionType DEF Publish
  <2>2. Tap \in Threads /\ pc[Tap] \in {"republish", "learn", "publish"}
    BY <1>16 DEF Publish, Resume, Threads
  <2>3. \/ pc[Tap] = "republish" /\ pc' = [pc EXCEPT ![Tap] = "drain"]
        \/ pc[Tap] = "learn" /\ pc' = [pc EXCEPT ![Tap] = "observe"]
        \/ pc[Tap] = "publish" /\ pc' = [pc EXCEPT ![Tap] = "decide"]
    <3>1. /\ Resume["republish"] = "drain" /\ Resume["learn"] = "observe"
          /\ Resume["publish"] = "decide"
      BY DEF Resume
    <3>2. pc' = [pc EXCEPT ![Tap] = Resume[pc[Tap]]]
      BY <1>16 DEF Publish
    <3> QED
      BY <2>2, <3>1, <3>2
  <2>4. pc' \in [Threads -> PCs] /\ pend' = pend
    BY <1>16, <2>2, <2>3 DEF Publish, PCs
  <2>5. StrokeInHand'
    BY <2>2, <2>3, <2>4
  <2>6. wasOff' \in BOOLEAN
    BY <1>16 DEF Publish, TaskDone
  <2> QED
    BY <1>16, <2>1, <2>4, <2>5, <2>6 DEF Publish, world, dog, control
<1>8. ASSUME NEW t \in Threads, Decide(t) PROVE TypeOK'
  <2>1. pend[t] \in Strokes
    BY <1>8 DEF Decide, HasRoom, StrokeInHand
  <2>2. osDown' \in [Boards -> SUBSET Keys] /\ injected' \in [Boards -> SUBSET Keys]
    <3>1. After(osDown[pend[t].board], pend[t]) \in SUBSET Keys
      BY <2>1, AfterType DEF Strokes
    <3>2. After(injected[pend[t].board], pend[t]) \in SUBSET Keys
      BY <2>1, AfterType DEF Strokes
    <3>3. Type(pend[t]) /\ pend[t].board \in Boards
      BY <1>8, <2>1 DEF Decide, HasRoom, Strokes
    <3>4. CASE UNCHANGED <<osDown, injected>>
      BY <3>4
    <3>5. CASE ~UNCHANGED <<osDown, injected>>
      <4>1. /\ osDown' = [osDown EXCEPT ![pend[t].board] = After(@, pend[t])]
            /\ injected' = [injected EXCEPT ![pend[t].board] =
                               IF pend[t].board \in Claimed THEN After(@, pend[t]) ELSE @]
        BY <3>3, <3>5 DEF Type
      <4> QED BY <3>1, <3>2, <3>3, <4>1
    <3> QED
      BY <3>4, <3>5
  <2>3. events' \in 0..EventCap
    <3>1. CASE events < EventCap
      <4>1. events' = events + 1
        BY <1>8, <3>1 DEF Decide, HasRoom
      <4> QED
        BY <3>1, <4>1, BoundsAssumption
    <3>2. CASE ~(events < EventCap)
      BY <1>8, <3>2 DEF Decide, HasRoom, Drop
    <3> QED
      BY <3>1, <3>2
  <2>4. snap' \in Decisions
    <3>1. \/ snap' = snap
          \/ snap' = Decision(TRUE, known, take)
      <4>1. CASE events < EventCap
        BY <1>8, <4>1 DEF Decide, HasRoom
      <4>2. CASE ~(events < EventCap)
        BY <1>8, <4>2 DEF Decide, HasRoom, Drop, PassAll
      <4> QED
        BY <4>1, <4>2
    <3>2. Decision(TRUE, known, take) \in Decisions
      BY DecisionType
    <3> QED
      BY <3>1, <3>2
  <2>5. /\ failing' \in [Threads -> BOOLEAN] /\ tripped' \in [Threads -> BOOLEAN]
        /\ wdPass' \in [Threads -> BOOLEAN] /\ pass' \in BOOLEAN /\ wasOff' \in BOOLEAN
    BY <1>8 DEF Decide, HasRoom, Drop, PassAll, TaskDone
  <2>6. StrokeInHand'
    BY <1>8 DEF Decide, HasRoom, StrokeInHand
  <2> QED
    BY <1>8, <2>2, <2>3, <2>4, <2>5, <2>6 DEF Decide, HasRoom, world, PCs
<1>9. ASSUME NEW t \in Threads, Shutdown(t) PROVE TypeOK'
  BY <1>9, ReleaseType, LeaveType DEF Shutdown
<1>10. ASSUME NEW t \in Threads, ChannelClosed(t) PROVE TypeOK'
  <2>1. pend[t] \in Strokes
    BY <1>10 DEF ChannelClosed, StrokeInHand
  <2>2. osDown' \in [Boards -> SUBSET Keys] /\ injected' \in [Boards -> SUBSET Keys]
    <3>1. After(osDown[pend[t].board], pend[t]) \in SUBSET Keys
      BY <2>1, AfterType DEF Strokes
    <3> QED
      BY <1>10, <2>1, <3>1 DEF ChannelClosed
  <2> QED
    BY <1>10, <2>2, LeaveType DEF ChannelClosed
<1>11. ASSUME NEW b \in Claimed, DeviceLost(b) PROVE TypeOK'
  <2>1. phys[b] \subseteq Keys
    BY DEF Boards
  <2>2. Cardinality(phys[b]) \in Nat
    BY <2>1, KeysAssumption, FS_Subset, FS_CardinalityType
  <2>3. events' \in 0..EventCap
    BY <1>11, <2>2, BoundsAssumption DEF DeviceLost
  <2> QED
    BY <1>11, <2>3, ReleaseType, LeaveType DEF DeviceLost, Threads
<1>15. ASSUME NEW t \in Threads, Panic(t) PROVE TypeOK'
  BY <1>15, ReleaseType, LeaveType DEF Panic
<1>12. ASSUME NEW b \in Boards, NEW k \in Keys, NEW down \in BOOLEAN, Direct(b, k, down)
       PROVE  TypeOK'
  BY <1>12 DEF Direct, After, world, dog, control, decision
<1>13. CASE Environment
  <2>1. ASSUME NEW m \in CtlMessages, Send(m) PROVE TypeOK'
    <3>1. ctl' \in [Threads -> Seq(CtlMessages)]
      BY <2>1 DEF Send
    <3> QED
      BY <2>1, <3>1 DEF Send, world, dog, control, decision
  <2>2. CASE Arm
    BY <2>2 DEF Arm, world, dog, control, decision
  <2>3. CASE Consume
    <3>1. events > 0 /\ events' = events - 1
      BY <2>3 DEF Consume
    <3>2. events' \in 0..EventCap
      BY <3>1, BoundsAssumption
    <3> QED
      BY <2>3, <3>2 DEF Consume, world, dog, control, decision
  <2>6. CASE HangUp
    BY <2>6 DEF HangUp, world, dog, control, decision
  <2>4. CASE Refuse
    BY <2>4 DEF Refuse, dog, control, decision
  <2>5. ASSUME NEW b \in Boards, Unplug(b) \/ Replug(b) PROVE TypeOK'
    BY <2>5 DEF Unplug, Replug, dog, control, decision
  <2> QED
    BY <1>13, <2>1, <2>2, <2>3, <2>4, <2>5, <2>6 DEF Environment
<1>14. CASE UNCHANGED vars
  BY <1>14 DEF vars
<1> QED
  BY <1>1, <1>2, <1>3, <1>4, <1>5, <1>6, <1>7, <1>8, <1>9, <1>10, <1>11, <1>12,
     <1>13, <1>14, <1>15, <1>16, SMTT(20) DEF Next, ThreadStep, Typing

(***************************************************************************)
(* Every variable keeps its type, and a thread with a stroke in hand holds *)
(* a stroke of one of its own boards.                                      *)
(***************************************************************************)
THEOREM TypeCorrect == Spec => []TypeOK
<1>1. Init => TypeOK
  BY InitType
<1>2. TypeOK /\ [Next]_vars => TypeOK'
  BY StepType
<1> QED
  BY <1>1, <1>2, PTL DEF Spec

-----------------------------------------------------------------------------
\* The pass bit of a published decision is what it was published with.
LEMMA DecisionPass ==
    ASSUME NEW free, NEW k, NEW tk
    PROVE  Decision(free, k, tk).pass = free
  BY DEF Decision

\* The Interception thread stops passing everything in this step.
Recaptures == snap.pass /\ ~snap'.pass

\* The thread has loaded what it publishes next.
Storing == pc[Tap] \in {"republish", "learn", "publish"}

\* What the published decision, and the one about to be, owe to the three sources:
\* the thread's own two are as they were loaded, of the latch it is known that it
\* was off since the thread took its task up.
LoadedInv ==
    /\ SnapshotKeepsUp
    /\ ~latch => wasOff
    /\ Storing /\ ~pass => wasOff /\ ~ctlPass[Tap] /\ ~wdPass[Tap]

\* The thread publishes a decision that passes everything, or leaves it as it is.
LEMMA PassAllKeeps ==
    ASSUME TypeOK, LoadedInv, NEW t \in Threads, NEW boards, PassAll(t, boards)
    PROVE  /\ t = Tap => pass' /\ snap'.pass
           /\ t # Tap => pass' = pass /\ snap' = snap
  BY DecisionPass DEF PassAll

\* One step keeps the published decision up with the thread's own sources,
\* and turns it to suppressing only if the latch was off during the task.
LEMMA PublishStep ==
    ASSUME TypeOK, LoadedInv, [Next]_vars
    PROVE  LoadedInv' /\ (Recaptures => wasOff)
<1> USE DEF TypeOK, LoadedInv, SnapshotKeepsUp, Storing, Recaptures
<1> DEFINE Goal == LoadedInv' /\ (Recaptures => wasOff)
<1>0. Tap \in Threads
  BY DEF Threads
<1>1. ASSUME NEW t \in Threads, SetCaptured(t) PROVE Goal
  <2>1. CASE t = Tap
    BY <1>0, <1>1, <2>1 DEF SetCaptured, Rearm
  <2>2. CASE t # Tap
    BY <1>0, <1>1, <2>2 DEF SetCaptured, Rearm
  <2> QED
    BY <2>1, <2>2
<1>2. ASSUME NEW t \in Threads, SetPassthrough(t) PROVE Goal
  <2>1. PassAll(t, known) /\ UNCHANGED <<latch, pc, wdPass, wasOff>>
        /\ ctlPass' = [ctlPass EXCEPT ![t] = TRUE]
    BY <1>2 DEF SetPassthrough
  <2>2. CASE t = Tap
    BY <2>1, <2>2, PassAllKeeps
  <2>3. CASE t # Tap
    BY <1>0, <2>1, <2>3, PassAllKeeps
  <2> QED
    BY <2>2, <2>3
<1>3. ASSUME NEW t \in Threads,
             Wait(t) \/ Idle(t) \/ \E g \in {"None", "Left", "Stop"} : Detect(t, g)
      PROVE  Goal
  BY <1>0, <1>3 DEF Wait, Idle, Detect, control, decision
<1>4. CASE Rescan
  BY <1>0, <1>4 DEF Rescan, Free, control
<1>5. ASSUME NEW b \in Boards, NEW k \in Keys, NEW down \in BOOLEAN, Receive(b, k, down)
      PROVE  Goal
  <2>1. UNCHANGED <<latch, snap, wasOff, ctlPass, wdPass>> /\ pc[Owner(b)] = "wait"
    BY <1>5 DEF Receive, control
  <2>2. CASE known' = known /\ pass' = pass /\ pc' = [pc EXCEPT ![Owner(b)] = "observe"]
    BY <1>0, <2>1, <2>2, OwnerIsThread
  <2>3. CASE ~(known' = known /\ pass' = pass /\ pc' = [pc EXCEPT ![Owner(b)] = "observe"])
    <3>1. /\ {b} \cap (Tapped \ known) # {} /\ pass' = Free(Owner(b))
          /\ pc' = [pc EXCEPT ![Owner(b)] = "learn"]
      BY <1>5, <2>3 DEF Receive
    <3>2. Owner(b) = Tap
      BY <3>1, OwnerIsThread
    <3> QED
      BY <1>0, <2>1, <3>1, <3>2 DEF Free
  <2> QED
    BY <2>2, <2>3
<1>6. ASSUME NEW t \in Threads, StoreLatch(t) PROVE Goal
  <2>1. CASE t = Tap
    BY <1>0, <1>6, <2>1 DEF StoreLatch, control
  <2>2. CASE t # Tap
    BY <1>0, <1>6, <2>2 DEF StoreLatch, control
  <2> QED
    BY <2>1, <2>2
<1>7. CASE Load
  BY <1>0, <1>7 DEF Load, Free, control
<1>13. CASE Publish
  <2>1. Storing /\ snap'.pass = pass /\ UNCHANGED <<latch, pass, ctlPass, wdPass>>
    BY <1>13, DecisionPass DEF Publish, Resume, control
  <2>2. pc'[Tap] \in {"drain", "observe", "decide"}
    BY <1>0, <1>13 DEF Publish, Resume
  <2>3. ~latch => wasOff'
    BY <1>13 DEF Publish, TaskDone
  <2> QED
    BY <2>1, <2>2, <2>3
<1>8. ASSUME NEW t \in Threads, Decide(t) PROVE Goal
  <2>1. /\ UNCHANGED <<latch, ctlPass>> /\ pc[t] = "decide"
        /\ pc' = [pc EXCEPT ![t] = "drain"] /\ TaskDone(t)
    BY <1>8 DEF Decide
  <2>2. \/ UNCHANGED <<wdPass, snap, pass>>
        \/ wdPass' = [wdPass EXCEPT ![t] = TRUE] /\ PassAll(t, known)
    <3>1. CASE events < EventCap
      BY <1>8, <3>1 DEF Decide, HasRoom
    <3>2. CASE ~(events < EventCap)
      BY <1>8, <3>2 DEF Decide, HasRoom, Drop
    <3> QED
      BY <3>1, <3>2
  <2>3. CASE t = Tap
    <3>1. pc'[Tap] = "drain" /\ wasOff' = ~latch
      BY <2>1, <2>3 DEF TaskDone
    <3>2. (snap' = snap /\ wdPass' = wdPass) \/ snap'.pass
      BY <2>2, <2>3, PassAllKeeps
    <3> QED
      BY <2>1, <3>1, <3>2
  <2>4. CASE t # Tap
    <3>1. pc'[Tap] = pc[Tap] /\ wasOff' = wasOff
      BY <1>0, <2>1, <2>4 DEF TaskDone
    <3>2. UNCHANGED <<snap, pass>> /\ wdPass'[Tap] = wdPass[Tap]
      BY <1>0, <2>2, <2>4, PassAllKeeps
    <3> QED
      BY <2>1, <3>1, <3>2
  <2> QED
    BY <2>3, <2>4
<1>9. ASSUME NEW t \in Threads, Leave(t) PROVE Goal
  <2>1. /\ UNCHANGED <<latch, ctlPass, wdPass>> /\ pc' = [pc EXCEPT ![t] = "done"]
        /\ PassAll(t, {}) /\ TaskDone(t)
    BY <1>9 DEF Leave, control
  <2>2. CASE t = Tap
    BY <1>0, <2>1, <2>2, PassAllKeeps DEF TaskDone
  <2>3. CASE t # Tap
    BY <1>0, <2>1, <2>3, PassAllKeeps DEF TaskDone
  <2> QED
    BY <2>2, <2>3
<1>10. CASE Environment
  BY <1>10 DEF Environment, Send, Arm, Consume, HangUp, Refuse, Unplug, Replug, control, decision
<1>11. ASSUME NEW b \in Boards, NEW k \in Keys, NEW down \in BOOLEAN, Direct(b, k, down)
       PROVE  Goal
  BY <1>11 DEF Direct, control, decision
<1>12. CASE UNCHANGED vars
  BY <1>12 DEF vars
<1> HIDE DEF TypeOK, LoadedInv, SnapshotKeepsUp, Storing, Recaptures
<1>14. CASE \E t \in Threads : ThreadStep(t) \/ Panic(t)
  <2>1. ASSUME NEW t \in Threads, ThreadStep(t) \/ Panic(t) PROVE Goal
    <3>1. Shutdown(t) \/ ChannelClosed(t) \/ Panic(t) => Leave(t)
      BY DEF Shutdown, ChannelClosed, Panic
    <3> QED
      BY ONLY <2>1, <3>1, <1>1, <1>2, <1>3, <1>4, <1>6, <1>7, <1>8, <1>9, <1>13 DEF ThreadStep
  <2> QED
    BY <1>14, <2>1
<1>15. CASE \E b \in Claimed : DeviceLost(b)
  <2>1. PICK b \in Claimed : DeviceLost(b)
    BY <1>15
  <2>2. b \in Threads /\ Leave(b)
    BY <2>1 DEF DeviceLost, Threads
  <2> QED
    BY <1>9, <2>2
<1>16. CASE Typing
  BY <1>5, <1>11, <1>16 DEF Typing
<1> QED
  BY <1>4, <1>10, <1>12, <1>14, <1>15, <1>16 DEF Next

LEMMA LoadedAlways == Spec => []LoadedInv
<1>1. Init => LoadedInv
  BY DEF Init, LoadedInv, SnapshotKeepsUp, Storing, Decision
<1>2. TypeOK /\ LoadedInv /\ [Next]_vars => LoadedInv'
  BY PublishStep
<1> QED
  BY <1>1, <1>2, TypeCorrect, PTL DEF Spec

(***************************************************************************)
(* While the Interception thread suppresses anything, neither a            *)
(* SetPassthrough it has taken nor its own stall watchdog stands.          *)
(***************************************************************************)
THEOREM SnapshotKeepsUpAlways == Spec => []SnapshotKeepsUp
<1>1. LoadedInv => SnapshotKeepsUp
  BY DEF LoadedInv
<1> QED
  BY <1>1, LoadedAlways, PTL

(***************************************************************************)
(* Nothing the supervisor sends re-captures keyboards behind an escape's   *)
(* back: the Interception thread turns to suppressing only if the latch    *)
(* was off at some moment since it took up what it is doing, or since it   *)
(* set the latch itself, wherever another thread's gesture falls between   *)
(* its load of the latch and its store of the decision.                    *)
(***************************************************************************)
THEOREM EscapeStands == Spec => EscapeIsNotUndone
<1>1. TypeOK /\ LoadedInv /\ [Next]_vars => [snap.pass /\ ~snap'.pass => wasOff]_vars
  BY PublishStep DEF Recaptures
<1> QED
  BY <1>1, TypeCorrect, LoadedAlways, PTL DEF Spec, EscapeIsNotUndone

-----------------------------------------------------------------------------
(***************************************************************************)
(* A thread whose watchdog has tripped is passing everything, and one that *)
(* may suppress has a watchdog that can still trip.                        *)
(***************************************************************************)
THEOREM CapturingIsGuardedAlways == Spec => []CapturingIsGuarded
<1> USE DEF TypeOK, CapturingIsGuarded
<1>1. Init => CapturingIsGuarded
  BY DEF Init
<1>2. TypeOK /\ CapturingIsGuarded /\ [Next]_vars => CapturingIsGuarded'
  <2> SUFFICES ASSUME TypeOK, CapturingIsGuarded, [Next]_vars
               PROVE  CapturingIsGuarded'
    OBVIOUS
  <2>1. ASSUME NEW t \in Threads, SetCaptured(t) PROVE CapturingIsGuarded'
    BY <2>1 DEF SetCaptured, Rearm
  <2>2. ASSUME NEW t \in Threads, Decide(t) PROVE CapturingIsGuarded'
    <3>1. CASE events < EventCap
      BY <2>2, <3>1 DEF Decide, HasRoom
    <3>2. CASE ~(events < EventCap)
      BY <2>2, <3>2 DEF Decide, HasRoom, Drop
    <3> QED
      BY <3>1, <3>2
  <2>3. CASE wdPass' = wdPass /\ tripped' = tripped
    BY <2>3
  <2>4. ASSUME NEW t \in Threads, Leave(t) PROVE wdPass' = wdPass /\ tripped' = tripped
    BY <2>4 DEF Leave, control, dog
  <2>5. ASSUME NEW t \in Threads,
               \/ SetPassthrough(t) \/ Wait(t) \/ Idle(t) \/ StoreLatch(t)
               \/ \E g \in {"None", "Left", "Stop"} : Detect(t, g)
        PROVE  wdPass' = wdPass /\ tripped' = tripped
    BY <2>5 DEF SetPassthrough, Wait, Idle, StoreLatch, Detect, control, dog
  <2>6. ASSUME Rescan \/ Load \/ Publish \/ UNCHANGED vars
        PROVE  wdPass' = wdPass /\ tripped' = tripped
    BY <2>6 DEF Rescan, Load, Publish, control, dog, vars
  <2>8. ASSUME Typing
        PROVE  wdPass' = wdPass /\ tripped' = tripped
    <3>1. control' = control /\ dog' = dog
      BY <2>8 DEF Typing, Receive, Direct
    <3> QED
      BY <3>1 DEF control, dog
  <2>7. ASSUME Environment
        PROVE  wdPass' = wdPass /\ tripped' = tripped
    BY <2>7 DEF Environment, Send, Arm, Consume, HangUp, Refuse, Unplug, Replug,
       control, dog
  <2> QED
    BY <2>1, <2>2, <2>3, <2>4, <2>5, <2>6, <2>7, <2>8 DEF Next, ThreadStep, Shutdown,
       ChannelClosed, Panic, DeviceLost, Threads
<1> QED
  BY <1>1, <1>2, TypeCorrect, PTL DEF Spec

-----------------------------------------------------------------------------
\* Steps that touch no board's key sets.
KeySetsKept == osDown' = osDown /\ injected' = injected

\* The environment's other steps leave a claimed board's keys alone.
LEMMA QuietSteps ==
    /\ \A t \in Threads :
          \/ SetPassthrough(t) \/ Wait(t) \/ Idle(t) \/ StoreLatch(t)
          \/ \E g \in {"None", "Left", "Stop"} : Detect(t, g)
          => KeySetsKept
    /\ Rescan \/ Load \/ Publish \/ Environment \/ UNCHANGED vars => KeySetsKept
    /\ \A b \in Boards, k \in Keys, d \in BOOLEAN : Receive(b, k, d) => KeySetsKept
<1> USE DEF KeySetsKept
<1>1. \A t \in Threads :
          \/ SetPassthrough(t) \/ Wait(t) \/ Idle(t) \/ StoreLatch(t)
          \/ \E g \in {"None", "Left", "Stop"} : Detect(t, g)
          => KeySetsKept
  BY DEF SetPassthrough, Wait, Idle, StoreLatch, Detect
<1>2. Rescan \/ Load \/ Publish \/ UNCHANGED vars => KeySetsKept
  BY DEF Rescan, Load, Publish, vars
<1>3. Environment => KeySetsKept
  BY DEF Environment, Send, Arm, Consume, HangUp, Refuse, Unplug, Replug
<1>4. \A b \in Boards, k \in Keys, d \in BOOLEAN : Receive(b, k, d) => KeySetsKept
  BY DEF Receive
<1> QED
  BY <1>1, <1>2, <1>3, <1>4

(***************************************************************************)
(* However a WinUSB thread changes its take or ends, every key it typed    *)
(* down is let go, unless Windows refuses injection at that moment.        *)
(***************************************************************************)
THEOREM NothingIsStranded == Spec => NothingStranded
<1>1. ASSUME TypeOK, [Next]_vars, NEW b \in Claimed, ~refusing
      PROVE  Stranded(b)' \subseteq Stranded(b)
  <2> USE <1>1 DEF Stranded, TypeOK
  <2>0. b \in Boards
    BY DEF Boards
  <2>1. CASE KeySetsKept
    BY <2>1 DEF KeySetsKept
  <2>2. ASSUME NEW bs, ReleaseInjected(bs) PROVE Stranded(b)' \subseteq Stranded(b)
    BY <2>0, <2>2 DEF ReleaseInjected
  <2>3. ASSUME NEW t \in Threads, SetCaptured(t) PROVE Stranded(b)' \subseteq Stranded(b)
    BY <2>2, <2>3 DEF SetCaptured, Rearm
  <2>4. ASSUME NEW t \in Threads, Decide(t) PROVE Stranded(b)' \subseteq Stranded(b)
    <3>1. Type(pend[t]) /\ pend[t] \in Strokes
      BY <2>4 DEF Decide, HasRoom, StrokeInHand
    <3>2. CASE pend[t].board = b
      <4>1. \/ osDown'[b] = osDown[b] /\ injected'[b] = injected[b]
            \/ /\ osDown'[b] = After(osDown[b], pend[t])
               /\ injected'[b] = After(injected[b], pend[t])
        BY <2>0, <3>1, <3>2 DEF Type
      <4> QED
        BY <4>1 DEF After
    <3>3. CASE pend[t].board # b
      BY <2>0, <3>1, <3>3 DEF Type
    <3> QED
      BY <3>2, <3>3
  <2>5. ASSUME NEW t \in Threads, ChannelClosed(t) PROVE Stranded(b)' \subseteq Stranded(b)
    <3>1. pend[t] \in Strokes /\ Owner(pend[t].board) = t
      BY <2>5 DEF ChannelClosed, StrokeInHand
    <3>2. CASE t = b
      <4>1. pend[t].board = b
        BY <3>1, <3>2, BoardsAssumption DEF Owner, Boards
      <4>2. osDown'[b] \subseteq osDown[b] \ injected[b]
        <5> DEFINE typed == ReachesWindows(pend[t])
        <5>1. CASE typed
          <6>1. osDown'[b] = After(osDown[b], pend[t]) \ After(injected[b], pend[t])
            BY <2>0, <2>5, <4>1, <5>1, BoardsAssumption DEF ChannelClosed
          <6> QED
            BY <6>1 DEF After
        <5>2. CASE ~typed
          BY <2>0, <2>5, <4>1, <5>2, BoardsAssumption DEF ChannelClosed
        <5> QED
          BY <5>1, <5>2
      <4> QED
        BY <4>2
    <3>3. CASE t # b
      <4>1. pend[t].board # b /\ b \notin BoardsOf(t)
        BY <2>0, <3>1, <3>3 DEF BoardsOf, Owner
      <4> QED
        BY <2>0, <2>5, <4>1 DEF ChannelClosed
    <3> QED
      BY <3>2, <3>3
  <2>6. ASSUME NEW t \in Threads, Shutdown(t) \/ Panic(t)
        PROVE  Stranded(b)' \subseteq Stranded(b)
    BY <2>2, <2>6 DEF Shutdown, Panic
  <2>7. ASSUME NEW w \in Claimed, DeviceLost(w) PROVE Stranded(b)' \subseteq Stranded(b)
    BY <2>2, <2>7 DEF DeviceLost
  <2>8. ASSUME NEW c \in Boards, NEW k \in Keys, NEW d \in BOOLEAN, Direct(c, k, d)
        PROVE  Stranded(b)' \subseteq Stranded(b)
    <3>1. c # b
      BY <2>8, BoardsAssumption DEF Direct
    <3> QED
      BY <2>0, <2>8, <3>1 DEF Direct
  <2> QED
    BY <2>1, <2>3, <2>4, <2>5, <2>6, <2>7, <2>8, QuietSteps DEF Next, ThreadStep, Typing
<1>2. TypeOK /\ [Next]_vars
      => [\A b \in Claimed : refusing \/ Stranded(b)' \subseteq Stranded(b)]_vars
  BY <1>1
<1> QED
  BY <1>2, TypeCorrect, PTL DEF Spec, NothingStranded

(***************************************************************************)
(* A gesture made on any board frees every claimed board at its very next  *)
(* stroke: the latch is read live, with no message in between.             *)
(***************************************************************************)
THEOREM LatchFreesClaimed == Spec => LatchFreesClaimedBoards
<1>1. ASSUME TypeOK, [Next]_vars, NEW b \in Claimed, Decides(b), latch, ~refusing
      PROVE  Typed(b)
  <2> USE <1>1 DEF TypeOK, Decides, Threads
  <2>1. ASSUME NEW t \in Threads, Decide(t) PROVE Typed(b)
    <3>1. t = b
      BY <2>1 DEF Decide, HasRoom
    <3>2. pend[b] \in Strokes /\ pend[b].board = b /\ Type(pend[b])
      BY <2>1, <3>1, BoardsAssumption DEF Decide, HasRoom, StrokeInHand, Owner, Boards
    <3>3. ReachesWindows(pend[b])
      BY <3>2 DEF ReachesWindows, Free
    <3> QED
      BY <3>2, <3>3 DEF Type, Typed, Boards
  <2>2. ASSUME NEW t \in Threads, Leave(t) PROVE FALSE
    BY <2>2 DEF Leave
  <2>3. ASSUME NEW t \in Threads,
               \/ SetCaptured(t) \/ SetPassthrough(t) \/ Wait(t) \/ Idle(t)
               \/ StoreLatch(t) \/ \E g \in {"None", "Left", "Stop"} : Detect(t, g)
        PROVE  FALSE
    BY <2>3 DEF SetCaptured, Rearm, SetPassthrough, Wait, Idle, StoreLatch, Detect
  <2>4. ASSUME Rescan \/ Load \/ Publish \/ UNCHANGED vars PROVE FALSE
    BY <2>4, BoardsAssumption DEF Rescan, Load, Publish, Boards, vars
  <2>5. ASSUME Environment PROVE FALSE
    BY <2>5 DEF Environment, Send, Arm, Consume, HangUp, Refuse, Unplug, Replug
  <2>6. ASSUME Typing PROVE FALSE
    <3>1. ASSUME NEW c \in Boards, NEW k \in Keys, NEW down \in BOOLEAN, Receive(c, k, down)
          PROVE  FALSE
      <4>1. pc' = [pc EXCEPT ![Owner(c)] = pc'[Owner(c)]] /\ pc[Owner(c)] = "wait"
        BY <3>1, OwnerIsThread DEF Receive
      <4>2. pc'[Owner(c)] # "drain"
        BY <3>1, OwnerIsThread DEF Receive
      <4> QED
        BY <4>1, <4>2
    <3>2. ASSUME NEW c, NEW k, NEW down, Direct(c, k, down) PROVE FALSE
      BY <3>2 DEF Direct
    <3> QED
      BY <2>6, <3>1, <3>2 DEF Typing
  <2> QED
    BY <2>1, <2>2, <2>3, <2>4, <2>5, <2>6 DEF Next, ThreadStep, Shutdown,
       ChannelClosed, Panic, DeviceLost
<1>2. TypeOK /\ [Next]_vars
      => [\A b \in Claimed : Decides(b) /\ latch /\ ~refusing => Typed(b)]_vars
  BY <1>1
<1> QED
  BY <1>2, TypeCorrect, PTL DEF Spec, LatchFreesClaimedBoards

\* What the Interception thread last published and what its watchdog has done never
\* leave a board captured that the thread has let go, for any boards and takes.
THEOREM NeverLeft == Spec => []NeverLeftCaptured
  BY SnapshotKeepsUpAlways, CapturingIsGuardedAlways, PTL DEF NeverLeftCaptured

-----------------------------------------------------------------------------
(* EscapeDetector: what it believes is held. *)

Kinds == {"None", "Left", "Right", "Stop"}

Recorded == [board : Keyboards, key : AllKeys, down : BOOLEAN, fired : Kinds]

\* The detector believes nothing held that is not, except of a board that was
\* removed and not yet forgotten.
ModsInv ==
    /\ mods \in [Keyboards -> SUBSET ModKeys]
    /\ pressed \in [Keyboards -> SUBSET AllKeys]
    /\ trace \in Seq(Recorded)
    /\ \A b \in Keyboards \ stale : mods[b] \subseteq pressed[b]

\* More keys held never undo a combo.
LEMMA ComboGrows ==
    ASSUME NEW S, NEW T, S \subseteq T, IsCombo(S)
    PROVE  IsCombo(T)
  BY DEF IsCombo

\* What one keystroke does to the detector and to its board.
LEMMA ObserveKeeps ==
    ASSUME ModsInv, NEW b \in Keyboards, NEW k \in AllKeys, NEW down \in BOOLEAN,
           Observe(b, k, down), UNCHANGED stale,
           pressed' = [pressed EXCEPT ![b] = IF down THEN @ \cup {k} ELSE @ \ {k}]
    PROVE  /\ ModsInv'
           /\ trace' = Append(trace, [board |-> b, key |-> k, down |-> down,
                                      fired |-> Fires(b, k, down)])
           /\ Fires(b, k, down) = "Stop" => IsCombo(mods'[b])
<1>1. ModsAfter(b, k, down) \in SUBSET ModKeys
  BY DEF ModsAfter, ModsInv
<1>2. Fires(b, k, down) \in Kinds
  BY DEF Fires, Kinds
<1>3. trace' \in Seq(Recorded)
  <2>1. [board |-> b, key |-> k, down |-> down, fired |-> Fires(b, k, down)] \in Recorded
    BY <1>2 DEF Recorded
  <2> QED
    BY <2>1 DEF Observe, ModsInv
<1>4. mods' = [mods EXCEPT ![b] = ModsAfter(b, k, down)]
  BY DEF Observe
<1>5. mods' \in [Keyboards -> SUBSET ModKeys] /\ pressed' \in [Keyboards -> SUBSET AllKeys]
  BY <1>1, <1>4 DEF ModsInv
<1>6. \A x \in Keyboards \ stale' : mods'[x] \subseteq pressed'[x]
  BY <1>4 DEF ModsInv, ModsAfter
<1>7. Fires(b, k, down) = "Stop" => IsCombo(ModsAfter(b, k, down))
  BY DEF Fires
<1>8. mods'[b] = ModsAfter(b, k, down)
  BY <1>4 DEF ModsInv
<1> QED
  BY <1>3, <1>5, <1>6, <1>7, <1>8 DEF ModsInv, Observe

\* A keystroke, of whichever kind.
LEMMA StrokeKeeps ==
    ASSUME ModsInv, NEW b \in Keyboards, NEW k \in AllKeys, Press(b, k) \/ Release(b, k)
    PROVE  /\ ModsInv' /\ UNCHANGED stale
           /\ Len(trace') = Len(trace) + 1
           /\ trace'[Len(trace')].board = b
           /\ trace'[Len(trace')].fired = "Stop" => IsCombo(mods'[b])
<1>1. PICK down \in BOOLEAN :
        /\ Observe(b, k, down) /\ UNCHANGED stale
        /\ pressed' = [pressed EXCEPT ![b] = IF down THEN @ \cup {k} ELSE @ \ {k}]
  <2>1. CASE Press(b, k)
    <3>1. /\ Observe(b, k, TRUE) /\ UNCHANGED stale
          /\ pressed' = [pressed EXCEPT ![b] = @ \cup {k}]
      BY <2>1 DEF Press
    <3> QED
      BY <3>1
  <2>2. CASE Release(b, k)
    <3>1. /\ Observe(b, k, FALSE) /\ UNCHANGED stale
          /\ pressed' = [pressed EXCEPT ![b] = @ \ {k}]
      BY <2>2 DEF Release
    <3> QED
      BY <3>1
  <2> QED
    BY <2>1, <2>2
<1> DEFINE r == [board |-> b, key |-> k, down |-> down, fired |-> Fires(b, k, down)]
<1>2. ModsInv' /\ trace' = Append(trace, r) /\ (r.fired = "Stop" => IsCombo(mods'[b]))
  BY <1>1, ObserveKeeps
<1>3. r \in Recorded
  BY DEF Recorded, Fires, Kinds
<1>4. Len(trace') = Len(trace) + 1 /\ trace'[Len(trace')] = r
  BY <1>2, <1>3 DEF ModsInv
<1> QED
  BY <1>1, <1>2, <1>4

\* The invariant is inductive, removals and returns included.
LEMMA StepMods ==
    ASSUME ModsInv, [DetectorNext]_detectorVars
    PROVE  ModsInv'
<1>1. ASSUME NEW b \in Keyboards, NEW k \in AllKeys, Press(b, k) \/ Release(b, k) PROVE ModsInv'
  BY <1>1, StrokeKeeps
<1>2. ASSUME NEW b \in Keyboards, Detach(b) \/ Reattach(b) \/ Forget(b) PROVE ModsInv'
  BY <1>2 DEF Detach, Reattach, Forget, ModsInv
<1>3. CASE UNCHANGED detectorVars
  BY <1>3 DEF detectorVars, ModsInv
<1> QED
  BY <1>1, <1>2, <1>3 DEF DetectorNext, Keystroke, Hotplug

\* Counting gives counters.
LEMMA CountedType ==
    ASSUME DetectorTypeOK, NEW k \in AllKeys, NEW down \in BOOLEAN
    PROVE  Counted(k, down) \in Counters /\ Zero \in Counters
<1>1. Zero \in Counters
  BY DEF Zero, Counters
<1>2. /\ [count EXCEPT !.leftDown = @ + 1] \in Counters
      /\ [count EXCEPT !.leftUp = @ + 1] \in Counters
      /\ [count EXCEPT !.rightDown = @ + 1] \in Counters
      /\ [count EXCEPT !.rightUp = @ + 1] \in Counters
  BY DEF DetectorTypeOK, Counters
<1> QED
  BY <1>1, <1>2 DEF Counted

\* Every reachable state of the detector is well typed and its history is no longer
\* than the bound, for any boards, threshold and bound.
THEOREM DetectorTypeCorrect == DetectorSpec => []DetectorTypeOK
<1>1. DetectorInit => ModsInv /\ DetectorTypeOK
  BY BoundAssumption DEF DetectorInit, ModsInv, DetectorTypeOK, Zero, Counters
<1>2. ModsInv /\ DetectorTypeOK /\ [DetectorNext]_detectorVars => ModsInv' /\ DetectorTypeOK'
  <2> SUFFICES ASSUME ModsInv, DetectorTypeOK, [DetectorNext]_detectorVars PROVE ModsInv' /\ DetectorTypeOK'
    OBVIOUS
  <2>1. ModsInv'
    BY StepMods
  <2>2. /\ mods' \in [Keyboards -> SUBSET ModKeys]
        /\ pressed' \in [Keyboards -> SUBSET AllKeys]
        /\ Len(trace) \in Nat /\ Len(trace) <= MaxEvents
        /\ attached \subseteq Keyboards /\ stale \subseteq Keyboards /\ count \in Counters
    BY <2>1 DEF ModsInv, DetectorTypeOK
  <2>3. ASSUME NEW b \in Keyboards, NEW k \in AllKeys, Press(b, k) \/ Release(b, k)
        PROVE  DetectorTypeOK'
    <3>1. PICK down \in BOOLEAN : Observe(b, k, down)
      BY <2>3 DEF Press, Release
    <3>2. count' \in Counters
      BY <3>1, CountedType DEF Observe
    <3>3. Len(trace') = Len(trace) + 1
      BY <2>3, StrokeKeeps
    <3>4. Len(trace) < MaxEvents /\ UNCHANGED <<attached, stale>>
      BY <2>3 DEF Press, Release
    <3>5. Len(trace') <= MaxEvents
      BY <2>2, <3>3, <3>4, BoundAssumption
    <3> QED
      BY <2>2, <3>2, <3>4, <3>5 DEF DetectorTypeOK
  <2>4. ASSUME NEW b \in Keyboards, Detach(b) \/ Reattach(b) \/ Forget(b) PROVE DetectorTypeOK'
    <3>1. attached' \subseteq Keyboards /\ stale' \subseteq Keyboards /\ UNCHANGED <<count, trace>>
      BY <2>2, <2>4 DEF Detach, Reattach, Forget
    <3> QED
      BY <2>2, <3>1 DEF DetectorTypeOK
  <2>5. CASE UNCHANGED detectorVars
    <3>1. UNCHANGED <<count, attached, stale, trace>>
      BY <2>5 DEF detectorVars
    <3> QED
      BY <2>1, <2>2, <3>1 DEF DetectorTypeOK
  <2>6. CASE Keystroke
    BY <2>1, <2>3, <2>6 DEF Keystroke
  <2>7. CASE Hotplug
    BY <2>1, <2>4, <2>7 DEF Hotplug
  <2> QED
    BY <2>5, <2>6, <2>7 DEF DetectorNext
<1> QED
  BY <1>1, <1>2, PTL DEF DetectorSpec

\* The emergency stop is never put together from two boards or from keys that
\* were let go: for any boards and any history with removals and returns.
THEOREM StopNeedsTheCombo == DetectorSpec => StopIsPhysical
<1>1. DetectorInit => ModsInv
  BY DEF DetectorInit, ModsInv
<1>2. ModsInv /\ [DetectorNext]_detectorVars => ModsInv'
  BY StepMods
<1>3. ASSUME ModsInv, [DetectorNext]_detectorVars, NEW b \in Keyboards \ stale, StopFrom(b)
      PROVE  IsCombo(pressed'[b])
  <2>1. Len(trace') # Len(trace)
    BY <1>3 DEF StopFrom, ModsInv
  <2>2. ~Hotplug /\ ~UNCHANGED detectorVars
    BY <2>1 DEF Hotplug, Detach, Reattach, Forget, detectorVars
  <2>3. PICK x \in Keyboards, k \in AllKeys : Press(x, k) \/ Release(x, k)
    BY <1>3, <2>2 DEF DetectorNext, Keystroke
  <2>4. x = b /\ ModsInv' /\ UNCHANGED stale /\ IsCombo(mods'[b])
    BY <1>3, <2>3, StrokeKeeps DEF StopFrom
  <2>5. mods'[b] \subseteq pressed'[b]
    BY <1>3, <2>4 DEF ModsInv
  <2> QED
    BY <2>4, <2>5, ComboGrows
<1>4. ModsInv /\ [DetectorNext]_detectorVars =>
        [\A b \in Keyboards \ stale : StopFrom(b) => IsCombo(pressed'[b])]_detectorVars
  BY <1>3
<1> QED
  BY <1>1, <1>2, <1>4, PTL DEF DetectorSpec, StopIsPhysical
-----------------------------------------------------------------------------
(* The counters are the history.  The definitions of EscapeDetector that    *)
(* speak of the trace, with the trace as a parameter.                       *)

Ctrl == {LeftControl, RightControl}
At(t, i, j, k, d) == {n \in i..j : t[n].key = k /\ t[n].down = d}
Many(t, i, j, k, d) == Cardinality(At(t, i, j, k, d))
Calm(t, i, j) == \A n \in i..j : t[n].key \in Ctrl /\ t[n].fired = "None"
Enough(t, i, n, k) == Many(t, i, n, k, TRUE) >= Needed /\ Many(t, i, n, k, FALSE) >= Needed
CompletesIn(t, n, k) ==
    t[n].key \in Ctrl /\ \E i \in 1..n : Calm(t, i, n - 1) /\ Enough(t, i, n, k)
MatchesAt(t, n) ==
    t[n].fired # "Stop" =>
        /\ t[n].fired = "Left" <=> CompletesIn(t, n, LeftControl)
        /\ t[n].fired = "Right" <=> CompletesIn(t, n, RightControl) /\ ~CompletesIn(t, n, LeftControl)

\* What the counters hold when they count from event i on.
Tally(t, i, j) ==
    [leftDown |-> Many(t, i, j, LeftControl, TRUE), leftUp |-> Many(t, i, j, LeftControl, FALSE),
     rightDown |-> Many(t, i, j, RightControl, TRUE), rightUp |-> Many(t, i, j, RightControl, FALSE)]

\* The longest undisturbed stretch that ends with event j begins at event i.
Begins(t, i, j) ==
    i \in 1..(j + 1) /\ Calm(t, i, j) /\ \A h \in 1..(i - 1) : ~Calm(t, h, j)

\* The counters count that stretch, and every verdict so far was right.
HistoryInv ==
    /\ trace \in Seq(Recorded)
    /\ \A n \in 1..Len(trace) : MatchesAt(trace, n)
    /\ \E i \in 1..(Len(trace) + 1) :
          Begins(trace, i, Len(trace)) /\ count = Tally(trace, i, Len(trace))

LEMMA NeededIsPositive == Needed \in Nat /\ Needed >= 1
  BY ThresholdAssumption DEF Needed

LEMMA ManyIsFinite ==
    ASSUME NEW t, NEW i \in Int, NEW j \in Int, NEW k, NEW d
    PROVE  IsFiniteSet(At(t, i, j, k, d)) /\ Many(t, i, j, k, d) \in Nat
<1>1. IsFiniteSet(i..j) /\ At(t, i, j, k, d) \in SUBSET (i..j)
  BY FS_Interval DEF At
<1>2. IsFiniteSet(At(t, i, j, k, d))
  BY <1>1, FS_Subset
<1> QED
  BY <1>2, FS_CardinalityType DEF Many

\* A stretch that begins later counts no more.
LEMMA ManyShrinks ==
    ASSUME NEW t, NEW i \in Int, NEW h \in Int, NEW j \in Int, i <= h, NEW k, NEW d
    PROVE  Many(t, h, j, k, d) <= Many(t, i, j, k, d)
<1>1. At(t, h, j, k, d) \in SUBSET At(t, i, j, k, d)
  BY DEF At
<1> QED
  BY <1>1, ManyIsFinite, FS_Subset DEF Many

\* One more event counts if it is of the kind counted.
LEMMA ManyGrows ==
    ASSUME NEW t, NEW u, NEW j \in Nat, NEW i \in 1..(j + 1), NEW k, NEW d,
           \A n \in 1..j : u[n] = t[n]
    PROVE  Many(u, i, j + 1, k, d) =
             IF u[j + 1].key = k /\ u[j + 1].down = d
             THEN Many(t, i, j, k, d) + 1 ELSE Many(t, i, j, k, d)
<1> DEFINE S == At(t, i, j, k, d)
<1>1. \A n \in i..j : u[n] = t[n]
  OBVIOUS
<1>2. i..(j + 1) = (i..j) \cup {j + 1} /\ j + 1 \notin i..j
  OBVIOUS
<1>3. CASE u[j + 1].key = k /\ u[j + 1].down = d
  <2>1. At(u, i, j + 1, k, d) = S \cup {j + 1} /\ j + 1 \notin S
    BY <1>1, <1>2, <1>3 DEF At
  <2>2. IsFiniteSet(S)
    BY ManyIsFinite
  <2> HIDE DEF S
  <2>3. Cardinality(S \cup {j + 1}) = Cardinality(S) + 1
    BY <2>1, <2>2, FS_AddElement
  <2> QED
    BY <1>3, <2>1, <2>3 DEF Many, S
<1>4. CASE ~(u[j + 1].key = k /\ u[j + 1].down = d)
  <2>1. At(u, i, j + 1, k, d) = S
    BY <1>1, <1>2, <1>4 DEF At
  <2> QED
    BY <1>4, <2>1 DEF Many
<1> QED
  BY <1>3, <1>4

\* Whether a sequence is complete can be read off the longest stretch.
LEMMA LongestDecides ==
    ASSUME NEW t, NEW j \in Nat, NEW i, Begins(t, i, j), NEW k, t[j + 1].key \in Ctrl
    PROVE  CompletesIn(t, j + 1, k) <=> Enough(t, i, j + 1, k)
<1>1. i \in 1..(j + 1) /\ Calm(t, i, j) /\ (j + 1) - 1 = j
  BY DEF Begins
<1>2. ASSUME Enough(t, i, j + 1, k) PROVE CompletesIn(t, j + 1, k)
  BY <1>1, <1>2 DEF CompletesIn
<1>3. ASSUME CompletesIn(t, j + 1, k) PROVE Enough(t, i, j + 1, k)
  <2>1. PICK h \in 1..(j + 1) : Calm(t, h, j) /\ Enough(t, h, j + 1, k)
    BY <1>1, <1>3 DEF CompletesIn
  <2>2. i <= h
    BY <1>1, <2>1 DEF Begins
  <2>3. ASSUME NEW d
        PROVE  /\ Many(t, h, j + 1, k, d) <= Many(t, i, j + 1, k, d)
               /\ Many(t, h, j + 1, k, d) \in Nat /\ Many(t, i, j + 1, k, d) \in Nat
    <3>1. h \in Int /\ i \in Int /\ j + 1 \in Int
      BY <1>1
    <3> QED
      BY <3>1, <2>2, ManyShrinks, ManyIsFinite
  <2>4. /\ Many(t, i, j + 1, k, TRUE) >= Needed
        /\ Many(t, i, j + 1, k, FALSE) >= Needed
    <3>1. Many(t, h, j + 1, k, TRUE) >= Needed /\ Many(t, h, j + 1, k, FALSE) >= Needed
      BY <2>1 DEF Enough
    <3>2. /\ Many(t, h, j + 1, k, TRUE) <= Many(t, i, j + 1, k, TRUE)
          /\ Many(t, h, j + 1, k, TRUE) \in Nat /\ Many(t, i, j + 1, k, TRUE) \in Nat
      BY <2>3, Zenon
    <3>3. /\ Many(t, h, j + 1, k, FALSE) <= Many(t, i, j + 1, k, FALSE)
          /\ Many(t, h, j + 1, k, FALSE) \in Nat /\ Many(t, i, j + 1, k, FALSE) \in Nat
      BY <2>3, Zenon
    <3>4. \A x, y, z \in Nat : x >= z /\ x <= y => y >= z
      OBVIOUS
    <3> QED
      BY <3>1, <3>2, <3>3, <3>4, NeededIsPositive, Zenon
  <2> QED
    BY <2>4 DEF Enough
<1> QED
  BY <1>2, <1>3

\* What is said of an event stays true as the trace grows.
LEMMA PastIsPast ==
    ASSUME NEW t, NEW u, NEW n \in Nat \ {0}, \A x \in 1..n : u[x] = t[x]
    PROVE  MatchesAt(u, n) <=> MatchesAt(t, n)
<1>1. ASSUME NEW i \in 1..n, NEW k, NEW d PROVE At(u, i, n, k, d) = At(t, i, n, k, d)
  BY DEF At
<1>2. ASSUME NEW i \in 1..n PROVE Calm(u, i, n - 1) <=> Calm(t, i, n - 1)
  <2>1. \A x \in i..(n - 1) : u[x] = t[x]
    OBVIOUS
  <2> QED
    BY <2>1 DEF Calm
<1>3. u[n] = t[n]
  OBVIOUS
<1>4. ASSUME NEW k PROVE CompletesIn(u, n, k) <=> CompletesIn(t, n, k)
  <2>1. \A i \in 1..n : Enough(u, i, n, k) <=> Enough(t, i, n, k)
    BY <1>1 DEF Enough, Many
  <2> QED
    BY <1>2, <1>3, <2>1 DEF CompletesIn
<1> QED
  BY <1>3, <1>4 DEF MatchesAt

Hits(u, n, k, d) == u[n].key = k /\ u[n].down = d

\* All that is counted of a stretch that grows by one event.
LEMMA TallyGrows ==
    ASSUME NEW t, NEW u, NEW j \in Nat, NEW i \in 1..(j + 1), \A n \in 1..j : u[n] = t[n]
    PROVE  \A k, d : Many(u, i, j + 1, k, d) =
             IF Hits(u, j + 1, k, d) THEN Many(t, i, j, k, d) + 1 ELSE Many(t, i, j, k, d)
  BY ManyGrows DEF Hits

\* Counting one more event of an escape key.
LEMMA CountedIsTally ==
    ASSUME NEW t, NEW u, NEW j \in Nat, NEW i \in 1..(j + 1), \A n \in 1..j : u[n] = t[n],
           NEW k \in Ctrl, NEW down \in BOOLEAN, u[j + 1].key = k, u[j + 1].down = down,
           count = Tally(t, i, j)
    PROVE  Counted(k, down) = Tally(u, i, j + 1)
<1> DEFINE ld == Many(t, i, j, LeftControl, TRUE)
           lu == Many(t, i, j, LeftControl, FALSE)
           rd == Many(t, i, j, RightControl, TRUE)
           ru == Many(t, i, j, RightControl, FALSE)
           ld2 == Many(u, i, j + 1, LeftControl, TRUE)
           lu2 == Many(u, i, j + 1, LeftControl, FALSE)
           rd2 == Many(u, i, j + 1, RightControl, TRUE)
           ru2 == Many(u, i, j + 1, RightControl, FALSE)
           hit(x, d) == Hits(u, j + 1, x, d)
<1>1. /\ hit(LeftControl, TRUE) <=> k = LeftControl /\ down
      /\ hit(LeftControl, FALSE) <=> k = LeftControl /\ ~down
      /\ hit(RightControl, TRUE) <=> k = RightControl /\ down
      /\ hit(RightControl, FALSE) <=> k = RightControl /\ ~down
  BY DEF Hits
<1>2. \A x, d : Many(u, i, j + 1, x, d) =
                 IF hit(x, d) THEN Many(t, i, j, x, d) + 1 ELSE Many(t, i, j, x, d)
  BY TallyGrows
<1> HIDE DEF hit
<1>3. /\ ld2 = IF k = LeftControl /\ down THEN ld + 1 ELSE ld
      /\ lu2 = IF k = LeftControl /\ ~down THEN lu + 1 ELSE lu
      /\ rd2 = IF k = RightControl /\ down THEN rd + 1 ELSE rd
      /\ ru2 = IF k = RightControl /\ ~down THEN ru + 1 ELSE ru
  BY <1>1, <1>2, Zenon
<1>4. /\ count = [leftDown |-> ld, leftUp |-> lu, rightDown |-> rd, rightUp |-> ru]
      /\ Tally(u, i, j + 1) =
           [leftDown |-> ld2, leftUp |-> lu2, rightDown |-> rd2, rightUp |-> ru2]
  BY DEF Tally
<1> HIDE DEF ld, lu, rd, ru, ld2, lu2, rd2, ru2
<1>5. k \in {LeftControl, RightControl} /\ LeftControl # RightControl
  BY EscapeKeysAssumption DEF Ctrl
<1> QED
  BY <1>3, <1>4, <1>5 DEF Counted

\* Nothing counted since the last event.
LEMMA EmptyTally ==
    ASSUME NEW t, NEW j \in Nat
    PROVE  Tally(t, j + 1, j) = Zero /\ Calm(t, j + 1, j)
<1>1. (j + 1)..j = {}
  OBVIOUS
<1>2. \A k, d : Many(t, j + 1, j, k, d) = 0
  BY <1>1, FS_EmptySet DEF Many, At
<1> QED
  BY <1>1, <1>2 DEF Tally, Zero, Calm

\* Each keystroke is judged by what was counted, and counted for the next.
LEMMA ObserveIsHistory ==
    ASSUME HistoryInv, ModsInv, NEW b \in Keyboards, NEW k \in AllKeys, NEW down \in BOOLEAN,
           Observe(b, k, down)
    PROVE  HistoryInv'
<1> DEFINE j == Len(trace)
           r == [board |-> b, key |-> k, down |-> down, fired |-> Fires(b, k, down)]
           u == Append(trace, r)
<1>1. /\ j \in Nat /\ r \in Recorded /\ trace' = u /\ u \in Seq(Recorded) /\ Len(u) = j + 1
      /\ u[j + 1] = r /\ \A n \in 1..j : u[n] = trace[n]
  <2>1. r \in Recorded
    BY DEF Recorded, Fires, Kinds
  <2> QED
    BY <2>1 DEF Observe, HistoryInv
<1>2. PICK i \in 1..(j + 1) : Begins(trace, i, j) /\ count = Tally(trace, i, j)
  BY DEF HistoryInv
<1> HIDE DEF u, r, j
<1>3. /\ r.key = k /\ r.down = down /\ r.fired = Fires(b, k, down) /\ r.fired \in Kinds
      /\ Fires(b, k, down) \in Kinds
  BY <1>1 DEF r, Recorded
<1>4. Begins(u, i, j)
  <2>1. ASSUME NEW h \in 1..i PROVE Calm(u, h, j) <=> Calm(trace, h, j)
    <3>1. \A n \in h..j : u[n] = trace[n]
      BY <1>1, <1>2, <2>1
    <3> QED
      BY <3>1 DEF Calm
  <2> QED
    BY <1>1, <1>2, <2>1 DEF Begins
<1>5. MatchesAt(u, j + 1)
  <2>1. CASE k \notin Ctrl
    <3>1. r.fired \in {"Stop", "None"}
      BY <1>3, <2>1 DEF Fires, Ctrl
    <3>2. \A x : ~CompletesIn(u, j + 1, x)
      BY <1>1, <1>3, <2>1 DEF CompletesIn
    <3> QED
      BY <1>1, <3>1, <3>2 DEF MatchesAt
  <2>2. CASE k \in Ctrl
    <3>1. Counted(k, down) = Tally(u, i, j + 1)
      <4>1. u[j + 1].key = k /\ u[j + 1].down = down
        BY <1>1, <1>3
      <4> QED
        BY <1>1, <1>2, <2>2, <4>1, CountedIsTally, Zenon
    <3>2. /\ LeftDone(Counted(k, down)) <=> Enough(u, i, j + 1, LeftControl)
          /\ RightDone(Counted(k, down)) <=> Enough(u, i, j + 1, RightControl)
      BY <3>1 DEF LeftDone, RightDone, Enough, Tally
    <3>3. \A x : CompletesIn(u, j + 1, x) <=> Enough(u, i, j + 1, x)
      BY <1>1, <1>3, <1>4, <2>2, LongestDecides
    <3>4. Fires(b, k, down) # "Stop" =>
            /\ Fires(b, k, down) = "Left" <=> LeftDone(Counted(k, down))
            /\ Fires(b, k, down) = "Right" <=>
                 RightDone(Counted(k, down)) /\ ~LeftDone(Counted(k, down))
      BY <2>2 DEF Fires, Ctrl
    <3> QED
      BY <1>1, <1>3, <3>2, <3>3, <3>4 DEF MatchesAt
  <2> QED
    BY <2>1, <2>2
<1>6. \A n \in 1..(j + 1) : MatchesAt(u, n)
  <2>1. ASSUME NEW n \in 1..j PROVE MatchesAt(u, n)
    <3>1. n \in Nat \ {0} /\ \A x \in 1..n : u[x] = trace[x]
      BY <1>1
    <3>2. MatchesAt(trace, n)
      BY DEF HistoryInv, j
    <3> QED
      BY <3>1, <3>2, PastIsPast
  <2> QED
    BY <1>1, <1>5, <2>1
<1>7. \E x \in 1..(j + 2) : Begins(u, x, j + 1) /\ count' = Tally(u, x, j + 1)
  <2>1. CASE k \in Ctrl /\ Fires(b, k, down) = "None"
    <3>1. Calm(u, i, j + 1)
      BY <1>1, <1>2, <1>3, <1>4, <2>1 DEF Begins, Calm
    <3>2. \A h \in 1..(i - 1) : ~Calm(u, h, j + 1)
      <4>1. ASSUME NEW h \in 1..(i - 1), Calm(u, h, j + 1) PROVE Calm(u, h, j)
        BY <1>1, <4>1 DEF Calm
      <4> QED
        BY <1>4, <4>1 DEF Begins
    <3>3. count' = Tally(u, i, j + 1)
      <4>1. u[j + 1].key = k /\ u[j + 1].down = down
        BY <1>1, <1>3
      <4>2. Counted(k, down) = Tally(u, i, j + 1)
        BY <1>1, <1>2, <2>1, <4>1, CountedIsTally, Zenon
      <4> QED
        BY <2>1, <4>2 DEF Observe
    <3> QED
      BY <1>1, <3>1, <3>2, <3>3 DEF Begins
  <2>2. CASE ~(k \in Ctrl /\ Fires(b, k, down) = "None")
    <3>1. count' = Zero
      BY <2>2 DEF Observe, Counted, Ctrl
    <3>2. \A h \in 1..(j + 1) : ~Calm(u, h, j + 1)
      BY <1>1, <1>3, <2>2 DEF Calm
    <3>3. Tally(u, j + 2, j + 1) = Zero /\ Calm(u, j + 2, j + 1)
      <4>1. j + 1 \in Nat /\ (j + 1) + 1 = j + 2
        BY <1>1
      <4> QED
        BY <4>1, EmptyTally
    <3> QED
      BY <1>1, <3>1, <3>2, <3>3 DEF Begins
  <2> QED
    BY <2>1, <2>2
<1>8. (j + 1) + 1 = j + 2
  BY <1>1
<1> QED
  BY <1>1, <1>6, <1>7, <1>8 DEF HistoryInv

\* Every reachable history is one that the counters tell truly.
LEMMA HistoryHolds ==
    ASSUME LeftControl # RightControl
    PROVE  DetectorSpec => []HistoryInv
<1>1. DetectorInit => HistoryInv /\ ModsInv
  <2>1. Tally(<<>>, 0 + 1, 0) = Zero /\ Calm(<<>>, 0 + 1, 0)
    BY EmptyTally
  <2> QED
    BY <2>1 DEF DetectorInit, HistoryInv, ModsInv, Begins
<1>2. HistoryInv /\ ModsInv /\ [DetectorNext]_detectorVars => HistoryInv' /\ ModsInv'
  <2> SUFFICES ASSUME HistoryInv, ModsInv, [DetectorNext]_detectorVars PROVE HistoryInv'
    BY StepMods
  <2>1. ASSUME NEW b \in Keyboards, NEW k \in AllKeys, Press(b, k) \/ Release(b, k)
        PROVE  HistoryInv'
    <3>1. PICK down \in BOOLEAN : Observe(b, k, down)
      BY <2>1 DEF Press, Release
    <3> QED
      BY <3>1, ObserveIsHistory
  <2>2. CASE Hotplug \/ UNCHANGED detectorVars
    <3>1. UNCHANGED <<count, trace>>
      BY <2>2 DEF Hotplug, Detach, Reattach, Forget, detectorVars
    <3> QED
      BY <3>1 DEF HistoryInv
  <2> QED
    BY <2>1, <2>2 DEF DetectorNext, Keystroke
<1> QED
  BY <1>1, <1>2, PTL DEF DetectorSpec

\* The instance counts with the same operator.
LEMMA SameCardinality ==
    ASSUME NEW S
    PROVE  Cardinality(S) = Cardinality(S)
  BY DEF Cardinality, Cardinality

LEMMA SameCompletion ==
    ASSUME NEW n, NEW k
    PROVE  Completes(n, k) <=> CompletesIn(trace, n, k)
  BY SameCardinality DEF Completes, CompletesIn, Undisturbed, Calm, StrokesIn, Enough, Many, At, Ctrl

\* A sequence gesture is reported exactly when the history completes it, for
\* any boards, any threshold and keystrokes of any length: the counters, which
\* are reset by foreign keys and detections, never miss one and never invent one.
THEOREM SequencesAreHistory ==
    ASSUME LeftControl # RightControl
    PROVE  DetectorSpec => []SequencesMatchHistory
<1>1. HistoryInv => SequencesMatchHistory
  BY SameCompletion DEF HistoryInv, SequencesMatchHistory, MatchesAt
<1> QED
  BY <1>1, HistoryHolds, PTL
\* Every second event of a row of taps is a press, the ones between releases.
LEMMA TapsCount ==
    ASSUME trace \in Seq(Recorded), NEW b \in Keyboards, NEW n \in 1..Len(trace), NEW m \in Nat,
           m = n + 2 * Needed - 1, m <= Len(trace),
           \A t \in 0..(Needed - 1) : TapAt(b, n + 2 * t)
    PROVE  /\ \A x \in n..m : trace[x].key = LeftControl
           /\ Enough(trace, n, m, LeftControl)
<1>1. Needed \in Nat /\ Needed >= 1 /\ n \in Nat /\ n <= m
  BY NeededIsPositive
<1>2. ASSUME NEW x \in n..m PROVE trace[x].key = LeftControl
  <2>1. PICK t \in 0..(Needed - 1) : x = n + 2 * t \/ x = (n + 2 * t) + 1
    <3>1. \A w \in Nat : \E t \in Nat : w = 2 * t \/ w = 2 * t + 1
      <4> TAKE w \in Nat
      <4>1. w \div 2 \in Nat /\ (w = 2 * (w \div 2) \/ w = 2 * (w \div 2) + 1)
        OBVIOUS
      <4> QED
        BY <4>1
    <3>2. x - n \in Nat
      BY <1>1
    <3>3. PICK t \in Nat : x - n = 2 * t \/ x - n = 2 * t + 1
      BY <3>1, <3>2
    <3>4. t \in 0..(Needed - 1) /\ (x = n + 2 * t \/ x = (n + 2 * t) + 1)
      BY <1>1, <3>3
    <3> QED
      BY <3>4
  <2> QED
    BY <2>1 DEF TapAt
<1>3. ASSUME NEW d \in BOOLEAN, NEW c \in {0, 1},
             \A t \in 0..(Needed - 1) : n + 2 * t + c \in At(trace, n, m, LeftControl, d)
      PROVE  Many(trace, n, m, LeftControl, d) >= Needed
  <2> DEFINE S == At(trace, n, m, LeftControl, d)
             f == [t \in 0..(Needed - 1) |-> n + 2 * t + c]
  <2>1. f \in Injection(0..(Needed - 1), S)
    BY <1>1, <1>3 DEF Injection, IsInjective
  <2>2. IsFiniteSet(S)
    BY <1>1, ManyIsFinite
  <2> HIDE DEF f, S
  <2>3. Cardinality(0..(Needed - 1)) <= Cardinality(S)
    BY <2>1, <2>2, FS_Injection
  <2>4. Cardinality(0..(Needed - 1)) = Needed
    BY <1>1, FS_Interval
  <2>5. Cardinality(S) \in Nat
    BY <2>2, FS_CardinalityType
  <2> QED
    BY <1>1, <2>3, <2>4, <2>5 DEF Many, S
<1>4. ASSUME NEW t \in 0..(Needed - 1)
      PROVE  /\ n + 2 * t + 0 \in At(trace, n, m, LeftControl, TRUE)
             /\ n + 2 * t + 1 \in At(trace, n, m, LeftControl, FALSE)
  <2>1. n + 2 * t \in n..m /\ n + 2 * t + 1 \in n..m /\ n + 2 * t + 0 = n + 2 * t
    BY <1>1
  <2>2. TapAt(b, n + 2 * t)
    OBVIOUS
  <2>3. ASSUME NEW x \in n..m PROVE trace[x].down \in BOOLEAN
    <3>1. x \in 1..Len(trace)
      BY <1>1
    <3>2. trace[x] \in Recorded
      BY <3>1
    <3> QED
      BY <3>2 DEF Recorded
  <2>4. trace[n + 2 * t].down = TRUE /\ trace[n + 2 * t + 1].down = FALSE
    BY <2>1, <2>2, <2>3 DEF TapAt
  <2> QED
    BY <2>1, <2>2, <2>4 DEF TapAt, At
<1> QED
  BY <1>2, <1>3, <1>4 DEF Enough

\* The promise to the person at the cabinet: threshold taps of LeftControl in a
\* row set something off, whatever was typed on whichever board before them.
THEOREM TapsAreHeard ==
    ASSUME LeftControl # RightControl
    PROVE  DetectorSpec => []TapsAreNeverIgnored
<1>1. HistoryInv => TapsAreNeverIgnored
  <2> SUFFICES ASSUME HistoryInv, NEW b \in Keyboards, NEW n \in 1..Len(trace),
                      n + 2 * Needed - 1 <= Len(trace),
                      \A t \in 0..(Needed - 1) : TapAt(b, n + 2 * t),
                      \A x \in n..(n + 2 * Needed - 1) : trace[x].fired = "None"
               PROVE  FALSE
    BY DEF TapsAreNeverIgnored
  <2> DEFINE m == n + 2 * Needed - 1
  <2>1. m \in Nat /\ n <= m /\ n \in 1..m /\ m \in 1..Len(trace) /\ m \in n..m
    BY NeededIsPositive DEF HistoryInv
  <2>2. (\A x \in n..m : trace[x].key = LeftControl) /\ Enough(trace, n, m, LeftControl)
    BY <2>1, TapsCount DEF HistoryInv
  <2>3. \A x \in n..m : trace[x].fired = "None"
    OBVIOUS
  <2> HIDE DEF m
  <2>4. Calm(trace, n, m - 1)
    BY <2>1, <2>2, <2>3 DEF Calm, Ctrl
  <2>5. CompletesIn(trace, m, LeftControl)
    BY <2>1, <2>2, <2>4 DEF CompletesIn, Ctrl
  <2> QED
    BY <2>1, <2>3, <2>5 DEF HistoryInv, MatchesAt
<1> QED
  BY <1>1, HistoryHolds, PTL
=============================================================================
