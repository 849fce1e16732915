------------------------- MODULE ControlLoop_proofs -------------------------
(* Proofs about ControlLoop.tla, for any number of clients, saves and       *)
(* sessions and a channel of any length.  The invariant says, command by    *)
(* command, who owns the session, the panel and the machine lease.          *)
EXTENDS ControlLoop, SequenceTheorems, TLAPS

Queued == \A i \in DOMAIN queue : queue[i].op \in {"play", "swap"} => queue[i].spec \in Versions
Asked  == \A c \in Clients : client[c].at \in {"asked", "wait"} => client[c].op \in Ops
Held   == pc \notin {"recv", "free"} => cmd.game \in Games
Shape  == TypeOK /\ Queued /\ Asked /\ Held

\* who has the session and the panel while the loop is where it is
Owned ==
    /\ thread # None <=> run.word = "running"
    /\ pc \in {"begin", "make", "undo", "exit", "free", "gone"} => thread = None
    /\ pc \in {"door", "reap"} => thread # None
    /\ pc \in {"recv", "door"} => (muted <=> thread # None)
    /\ pc = "make" => muted
    /\ pc = "gone" => ~muted

\* who has the machine lease
Leased ==
    /\ lease = "prog" <=> prog # "idle"
    /\ lease = "start" <=> pc = "make"
    /\ prog \in {"checked", "writes"} => thread = None

\* what the factory and the published origin point at
Pointed ==
    /\ origin = "staged" <=> staged # None
    /\ pc \in {"begin", "make"} => origin # "unknown"
    /\ pc = "reap" => origin # "unknown" \/ cmd.op \in {"stop", "quit"}
    /\ pc \in {"recv", "door"} /\ thread # None =>
         /\ origin = plan.src
         /\ staged = IF plan.src = "staged" THEN plan.ver ELSE None
    /\ pc = "door" =>
         \/ cmd.op = "swap" /\ cmd.spec \in Versions /\ cmd.want = Plan("staged", cmd.spec)
         \/ cmd.op = "bind" /\ IF staged = None THEN cmd.want.src = "config"
                                                ELSE cmd.want = Plan("staged", staged)

\* every promised save is in the session, in the loop's hand or on its way
Edits ==
    /\ NoEditIsForgotten
    /\ promised <= disk
    /\ pc = "door" /\ cmd.op = "bind" /\ staged = None =>
         promised <= cmd.want.ver \/ ApplyIsComing
    /\ pc = "door" /\ cmd.op = "swap" /\ origin = "config" =>
         promised <= plan.ver \/ ApplyIsComing

\* a client that would call a session its answer saw one begin
Witnessed ==
    \A c \in Clients : client[c].at \in {"asked", "wait"} /\ client[c].op \in StartOps
                       /\ run.word = "running" /\ Moved(c) => c \in began

IInv == Shape /\ Owned /\ Leased /\ Pointed /\ Edits /\ Witnessed

ClientsStep == (\E c \in Clients : Serve(c)) \/ (\E op \in Tray : TraySends(op))

ClientRecords == [at : {"idle", "saved", "asked", "wait"}, op : Ops \cup {None},
                  base : Runs, gen : Nat, saw : BOOLEAN]

-----------------------------------------------------------------------------
(* What the actors leave alone *)

LEMMA ClientsAside ==
    ASSUME (\E c \in Clients : Serve(c)) \/ (\E op \in Tray : TraySends(op))
    PROVE  UNCHANGED <<pc, cmd, session, factory, state, muted, machine>>
<1>1. CASE \E c \in Clients : Serve(c)
  BY <1>1 DEF Serve, Ask, Send, SeeStarting, GiveUp, LeaveSaved, Answer, Rest, Save, EditDraft, Client
<1>2. CASE \E op \in Tray : TraySends(op)
  BY <1>2 DEF TraySends
<1> QED BY <1>1, <1>2

LEMMA EncoderAside ==
    ASSUME Encoder
    PROVE  UNCHANGED <<pc, cmd, session, factory, state, muted, files, queue, client, began>>
BY DEF Encoder, Acquire, CheckStopped, Write, Release, Programmer

LEMMA SessionAside ==
    ASSUME Session
    PROVE  /\ thread # None /\ thread' # None
           /\ thread' \in Threads /\ outcome' \in {"ok", "bad", outcome}
           /\ UNCHANGED <<pc, cmd, stop, plan, factory, state, muted, machine, files,
                          queue, client, began>>
BY ControlAssumption DEF Session, Plugged, SetupFails, Stops, EndsAlone, TornDown, Stage, Threads

LEMMA LoopAside ==
    ASSUME Loop
    PROVE  UNCHANGED <<prog, pending, disk, draft, client>> /\ promised' \in {0, promised}
BY DEF Loop, ReapFinished, FreePanel, Reap, Exit, TakeStart, TakePlay, TakeReload, TakeStop,
       TakeQuit, TakeApply, Take, Begin, Make, MakeFails, Undo, Swap, Structural, NoDoor,
       machine, files

-----------------------------------------------------------------------------
(* Owned *)

LEMMA OwnedByLoop ==
    ASSUME TypeOK, Owned, Leased, Loop
    PROVE  Owned'
<1> USE ControlAssumption DEF Threads, Leased
<1>1. CASE ReapFinished
  BY <1>1 DEF ReapFinished, Join, Owned, Run, Stopped, Failed, Starting, Quitting, session, factory, state, machine, files
<1>2. CASE FreePanel
  BY <1>2 DEF FreePanel, Owned, Run, Stopped, Failed, Starting, Quitting, session, factory, state, machine, files
<1>3. CASE Reap
  BY <1>3 DEF Reap, Join, Owned, Run, Stopped, Failed, Starting, Quitting, session, factory, state, machine, files
<1>4. CASE Exit
  BY <1>4 DEF Exit, Owned, Run, Stopped, Failed, Starting, Quitting, session, factory, state, machine, files
<1>5. CASE TakeStart
  BY <1>5 DEF TakeStart, Take, StopThen, PointAt, Hold, Owned, Run, Stopped, Failed, Starting, Quitting, session, factory, state, machine, files
<1>6. CASE TakePlay
  BY <1>6 DEF TakePlay, Take, StopThen, PointAt, Hold, Owned, Run, Stopped, Failed, Starting, Quitting, session, factory, state, machine, files
<1>7. CASE TakeReload
  BY <1>7 DEF TakeReload, Take, StopThen, PointAt, Hold, Owned, Run, Stopped, Failed, Starting, Quitting, session, factory, state, machine, files
<1>8. CASE TakeStop
  BY <1>8 DEF TakeStop, Take, StopThen, Hold, Owned, Run, Stopped, Failed, Starting, Quitting, session, factory, state, machine, files
<1>9. CASE TakeQuit
  BY <1>9 DEF TakeQuit, Take, StopThen, Hold, Owned, Run, Stopped, Failed, Starting, Quitting, session, factory, state, machine, files
<1>10. ASSUME NEW op \in {"bind", "swap"}, TakeApply(op) PROVE Owned'
  BY <1>10 DEF TakeApply, Take, Hold, Resolved, Owned, Run, Stopped, Failed, Starting, Quitting, session, factory, state, machine, files
<1>11. CASE Begin
  BY <1>11 DEF Begin, Owned, Run, Stopped, Failed, Starting, Quitting, session, factory, state, machine, files
<1>12. CASE Make
  BY <1>12 DEF Make, Resolved, Owned, Run, Stopped, Failed, Starting, Quitting, session, factory, state, machine, files
<1>13. CASE MakeFails
  BY <1>13 DEF MakeFails, Owned, Run, Stopped, Failed, Starting, Quitting, session, factory, state, machine, files
<1>14. CASE Undo
  BY <1>14 DEF Undo, PointAt, Owned, Run, Stopped, Failed, Starting, Quitting, session, factory, state, machine, files
<1>15. CASE Swap
  BY <1>15 DEF Swap, PointAt, Owned, Run, Stopped, Failed, Starting, Quitting, session, factory, state, machine, files
<1>16. CASE Structural
  BY <1>16 DEF Structural, Bounce, Owned, Run, Stopped, Failed, Starting, Quitting, session, factory, state, machine, files
<1>17. CASE NoDoor
  BY <1>17 DEF NoDoor, Bounce, Owned, Run, Stopped, Failed, Starting, Quitting, session, factory, state, machine, files
<1> QED BY <1>1, <1>2, <1>3, <1>4, <1>5, <1>6, <1>7, <1>8, <1>9, <1>10, <1>11, <1>12, <1>13, <1>14, <1>15, <1>16, <1>17 DEF Loop

LEMMA OwnedKept ==
    ASSUME TypeOK, Owned, Leased, [Next]_vars
    PROVE  Owned'
<1>1. CASE Loop
  BY <1>1, OwnedByLoop
<1>2. CASE Session
  BY <1>2, SessionAside DEF Owned, state
<1>3. CASE Encoder
  BY <1>3, EncoderAside DEF Owned, session, state
<1>4. CASE (\E c \in Clients : Serve(c)) \/ (\E op \in Tray : TraySends(op))
  BY <1>4, ClientsAside DEF Owned, session, state
<1>5. CASE UNCHANGED vars
  BY <1>5 DEF vars, Owned, session, state
<1> QED BY <1>1, <1>2, <1>3, <1>4, <1>5 DEF Next

-----------------------------------------------------------------------------
(* Leased *)

LEMMA LeasedByLoop ==
    ASSUME TypeOK, Owned, Leased, Loop
    PROVE  Leased'
<1> USE ControlAssumption DEF Owned
<1>1. CASE ReapFinished
  BY <1>1 DEF ReapFinished, Join, Leased, session, factory, state, machine, files
<1>2. CASE FreePanel
  BY <1>2 DEF FreePanel, Leased, session, factory, state, machine, files
<1>3. CASE Reap
  BY <1>3 DEF Reap, Join, Leased, session, factory, state, machine, files
<1>4. CASE Exit
  BY <1>4 DEF Exit, Leased, session, factory, state, machine, files
<1>5. CASE TakeStart
  BY <1>5 DEF TakeStart, Take, StopThen, PointAt, Hold, Leased, session, factory, state, machine, files
<1>6. CASE TakePlay
  BY <1>6 DEF TakePlay, Take, StopThen, PointAt, Hold, Leased, session, factory, state, machine, files
<1>7. CASE TakeReload
  BY <1>7 DEF TakeReload, Take, StopThen, PointAt, Hold, Leased, session, factory, state, machine, files
<1>8. CASE TakeStop
  BY <1>8 DEF TakeStop, Take, StopThen, Hold, Leased, session, factory, state, machine, files
<1>9. CASE TakeQuit
  BY <1>9 DEF TakeQuit, Take, StopThen, Hold, Leased, session, factory, state, machine, files
<1>10. ASSUME NEW op \in {"bind", "swap"}, TakeApply(op) PROVE Leased'
  BY <1>10 DEF TakeApply, Take, Hold, Resolved, Leased, session, factory, state, machine, files
<1>11. CASE Begin
  BY <1>11 DEF Begin, Leased, session, factory, state, machine, files
<1>12. CASE Make
  BY <1>12 DEF Make, Resolved, Leased, session, factory, state, machine, files
<1>13. CASE MakeFails
  BY <1>13 DEF MakeFails, Leased, session, factory, state, machine, files
<1>14. CASE Undo
  BY <1>14 DEF Undo, PointAt, Leased, session, factory, state, machine, files
<1>15. CASE Swap
  BY <1>15 DEF Swap, PointAt, Leased, session, factory, state, machine, files
<1>16. CASE Structural
  BY <1>16 DEF Structural, Bounce, Leased, session, factory, state, machine, files
<1>17. CASE NoDoor
  BY <1>17 DEF NoDoor, Bounce, Leased, session, factory, state, machine, files
<1> QED BY <1>1, <1>2, <1>3, <1>4, <1>5, <1>6, <1>7, <1>8, <1>9, <1>10, <1>11, <1>12, <1>13, <1>14, <1>15, <1>16, <1>17 DEF Loop

LEMMA LeasedKept ==
    ASSUME TypeOK, Owned, Leased, [Next]_vars
    PROVE  Leased'
<1>1. CASE Loop
  BY <1>1, LeasedByLoop
<1>2. CASE Session
  BY <1>2, SessionAside DEF Leased, Owned, state, machine
<1>3. CASE Encoder
  BY <1>3 DEF Encoder, Acquire, CheckStopped, Write, Release, Programmer, Leased, Owned, Active, session
<1>4. CASE (\E c \in Clients : Serve(c)) \/ (\E op \in Tray : TraySends(op))
  BY <1>4, ClientsAside DEF Leased, session, machine
<1>5. CASE UNCHANGED vars
  BY <1>5 DEF vars, Leased, session, machine
<1> QED BY <1>1, <1>2, <1>3, <1>4, <1>5 DEF Next

-----------------------------------------------------------------------------
(* Pointed *)

LEMMA PointedByLoop ==
    ASSUME Shape, Owned, Pointed, Loop
    PROVE  Pointed'
<1> USE ControlAssumption DEF Shape, Queued
<1>0. /\ queue # << >> => Head(queue) = queue[1] /\ 1 \in DOMAIN queue
      /\ origin \in {"unknown", "config", "staged"} /\ plan.src \in {"config", "staged"}
      /\ None \notin Versions
  BY DEF TypeOK, Plans, Versions
<1>1. CASE ReapFinished
  BY <1>1, <1>0 DEF ReapFinished, Join, Pointed, Owned, Plan, session, factory, state, machine, files
<1>2. CASE FreePanel
  BY <1>2, <1>0 DEF FreePanel, Pointed, Owned, Plan, session, factory, state, machine, files
<1>3. CASE Reap
  BY <1>3, <1>0 DEF Reap, Join, Pointed, Owned, Plan, session, factory, state, machine, files
<1>4. CASE Exit
  BY <1>4, <1>0 DEF Exit, Pointed, Owned, Plan, session, factory, state, machine, files
<1>5. CASE TakeStart
  BY <1>5, <1>0 DEF TakeStart, Take, StopThen, PointAt, Hold, Pointed, Owned, Plan, session, factory, state, machine, files
<1>6. CASE TakePlay
  BY <1>6, <1>0 DEF TakePlay, Take, StopThen, PointAt, Hold, Pointed, Owned, Plan, session, factory, state, machine, files
<1>7. CASE TakeReload
  BY <1>7, <1>0 DEF TakeReload, Take, StopThen, PointAt, Hold, Pointed, Owned, Plan, session, factory, state, machine, files
<1>8. CASE TakeStop
  BY <1>8, <1>0 DEF TakeStop, Take, StopThen, Hold, Pointed, Owned, Plan, session, factory, state, machine, files
<1>9. CASE TakeQuit
  BY <1>9, <1>0 DEF TakeQuit, Take, StopThen, Hold, Pointed, Owned, Plan, session, factory, state, machine, files
<1>10. ASSUME NEW op \in {"bind", "swap"}, TakeApply(op) PROVE Pointed'
  BY <1>10, <1>0 DEF TakeApply, Take, Hold, Resolved, Pointed, Owned, Plan, session, factory, state, machine, files
<1>11. CASE Begin
  BY <1>11, <1>0 DEF Begin, Pointed, Owned, Plan, session, factory, state, machine, files
<1>12. CASE Make
  BY <1>12, <1>0 DEF Make, Resolved, Pointed, Owned, Plan, session, factory, state, machine, files
<1>13. CASE MakeFails
  BY <1>13, <1>0 DEF MakeFails, Pointed, Owned, Plan, session, factory, state, machine, files
<1>14. CASE Undo
  BY <1>14, <1>0 DEF Undo, PointAt, Pointed, Owned, Plan, session, factory, state, machine, files
<1>15. CASE Swap
  BY <1>15, <1>0 DEF Swap, PointAt, Pointed, Owned, Plan, session, factory, state, machine, files
<1>16. CASE Structural
  BY <1>16, <1>0 DEF Structural, Bounce, Pointed, Owned, Plan, session, factory, state, machine, files
<1>17. CASE NoDoor
  BY <1>17, <1>0 DEF NoDoor, Bounce, Pointed, Owned, Plan, session, factory, state, machine, files
<1> QED BY <1>1, <1>2, <1>3, <1>4, <1>5, <1>6, <1>7, <1>8, <1>9, <1>10, <1>11, <1>12, <1>13, <1>14, <1>15, <1>16, <1>17 DEF Loop

LEMMA PointedKept ==
    ASSUME Shape, Owned, Pointed, [Next]_vars
    PROVE  Pointed'
<1>1. CASE Loop
  BY <1>1, PointedByLoop
<1>2. CASE Session
  BY <1>2, SessionAside DEF Pointed, state, factory
<1>3. CASE Encoder
  BY <1>3, EncoderAside DEF Pointed, session, state, factory
<1>4. CASE (\E c \in Clients : Serve(c)) \/ (\E op \in Tray : TraySends(op))
  BY <1>4, ClientsAside DEF Pointed, session, state, factory
<1>5. CASE UNCHANGED vars
  BY <1>5 DEF vars, Pointed, session, state, factory
<1> QED BY <1>1, <1>2, <1>3, <1>4, <1>5 DEF Next

-----------------------------------------------------------------------------
(* Edits *)

\* taking a command that applies nothing off the channel leaves the others in it
LEMMA ApplyStays ==
    ASSUME queue \in Seq(Commands), queue # << >>, Head(queue).op \notin Applying,
           queue' = Tail(queue), UNCHANGED client, ApplyIsComing
    PROVE  ApplyIsComing'
<1>1. CASE \E i \in DOMAIN queue : queue[i].op \in Applying
  <2>1. PICK i \in DOMAIN queue : queue[i].op \in Applying
    BY <1>1
  <2>2. i \in 2 .. Len(queue)
    BY <2>1
  <2>3. i - 1 \in DOMAIN Tail(queue) /\ Tail(queue)[i - 1] = queue[i]
    BY <2>2
  <2> QED BY <2>1, <2>3 DEF ApplyIsComing
<1> QED BY <1>1 DEF ApplyIsComing

LEMMA ApplyAdded ==
    ASSUME queue \in Seq(Commands), NEW command \in Commands, queue' = Append(queue, command),
           (\E i \in DOMAIN queue : queue[i].op \in Applying) \/ command.op \in Applying
    PROVE  \E i \in DOMAIN queue' : queue'[i].op \in Applying
<1>1. CASE \E i \in DOMAIN queue : queue[i].op \in Applying
  <2>1. PICK i \in DOMAIN queue : queue[i].op \in Applying
    BY <1>1
  <2>2. i \in DOMAIN queue' /\ queue'[i] = queue[i]
    BY <2>1
  <2> QED BY <2>1, <2>2
<1>2. CASE command.op \in Applying
  <2>1. Len(queue) + 1 \in DOMAIN queue' /\ queue'[Len(queue) + 1] = command
    OBVIOUS
  <2> QED BY <2>1, <1>2
<1> QED BY <1>1, <1>2

LEMMA EditsByLoop ==
    ASSUME Shape, Owned, Pointed, Edits, Loop
    PROVE  Edits'
<1> USE ControlAssumption DEF Shape
<1>0. /\ queue \in Seq(Commands) /\ None \notin Versions
      /\ disk \in Nat /\ promised \in Nat /\ staged \in Versions \cup {None}
      /\ UNCHANGED client
  BY LoopAside DEF TypeOK, Versions, Specs
<1>1. CASE ReapFinished
  BY <1>1, <1>0 DEF ReapFinished, Join, Edits, NoEditIsForgotten, Owned, session, factory, state, machine, files
<1>2. CASE FreePanel
  BY <1>2, <1>0 DEF FreePanel, Edits, NoEditIsForgotten, Owned, session, factory, state, machine, files
<1>3. CASE Reap
  BY <1>3, <1>0 DEF Reap, Join, Edits, NoEditIsForgotten, Owned, session, factory, state, machine, files
<1>4. CASE Exit
  BY <1>4, <1>0 DEF Exit, Edits, NoEditIsForgotten, Owned, session, factory, state, machine, files
<1>5. CASE TakeStart
  BY <1>5, <1>0, ApplyStays DEF Applying, TakeStart, Take, StopThen, PointAt, Hold, Edits, NoEditIsForgotten, Owned, session, factory, state, machine, files
<1>6. CASE TakePlay
  BY <1>6, <1>0 DEF TakePlay, Take, StopThen, PointAt, Hold, Edits, NoEditIsForgotten, Owned, session, factory, state, machine, files
<1>7. CASE TakeReload
  BY <1>7, <1>0 DEF TakeReload, Take, StopThen, PointAt, Hold, Edits, NoEditIsForgotten, Owned, session, factory, state, machine, files
<1>8. CASE TakeStop
  BY <1>8, <1>0 DEF TakeStop, Take, StopThen, Hold, Edits, NoEditIsForgotten, Owned, session, factory, state, machine, files
<1>9. CASE TakeQuit
  BY <1>9, <1>0 DEF TakeQuit, Take, StopThen, Hold, Edits, NoEditIsForgotten, Owned, session, factory, state, machine, files
<1>10. ASSUME NEW op \in {"bind", "swap"}, TakeApply(op) PROVE Edits'
  <2>1. /\ UNCHANGED <<thread, plan, staged, origin, disk>> /\ pc = "recv"
        /\ promised' \in {0, promised}
        /\ queue # << >> /\ queue' = Tail(queue) /\ Head(queue).op = op
    BY <1>10 DEF TakeApply, Take, factory
  <2>2. op = "swap" /\ ApplyIsComing => ApplyIsComing'
    BY <2>1, <1>0, ApplyStays DEF Applying
  <2>3. CASE pc' = "door" /\ promised' = promised
    <3>1. cmd'.op = op /\ cmd'.want = IF op = "bind" THEN Resolved ELSE Plan("staged", Head(queue).spec)
      BY <1>10, <2>3 DEF TakeApply, Take, Hold
    <3>2. thread # None
      BY <1>10, <2>3 DEF TakeApply, Owned
    <3> QED BY <2>1, <2>2, <2>3, <3>1, <3>2 DEF Edits, NoEditIsForgotten, Resolved, Plan
  <2>4. CASE pc' = "recv"
    <3>1. promised' = IF op = "bind" /\ thread # None /\ ~ApplyIsComing' THEN 0 ELSE promised
      BY <1>10, <2>4 DEF TakeApply
    <3>2. plan.ver \in Nat
      BY DEF TypeOK, Plans, Versions
    <3> QED BY <1>0, <2>1, <2>2, <2>4, <3>1, <3>2 DEF Edits, NoEditIsForgotten
  <2> QED BY <1>10, <2>3, <2>4 DEF TakeApply
<1>11. CASE Begin
  BY <1>11, <1>0 DEF Begin, Edits, NoEditIsForgotten, Owned, session, factory, state, machine, files
<1>12. CASE Make
  BY <1>12, <1>0 DEF Make, Resolved, Edits, NoEditIsForgotten, Owned, session, factory, state, machine, files, Plan, Pointed
<1>13. CASE MakeFails
  BY <1>13, <1>0 DEF MakeFails, Edits, NoEditIsForgotten, Owned, session, factory, state, machine, files
<1>14. CASE Undo
  BY <1>14, <1>0 DEF Undo, PointAt, Edits, NoEditIsForgotten, Owned, session, factory, state, machine, files
<1>15. CASE Swap
  BY <1>15, <1>0 DEF Swap, PointAt, Edits, NoEditIsForgotten, Owned, session, factory, state, machine, files, ApplyIsComing, Pointed
<1>16. CASE Structural
  BY <1>16, <1>0 DEF Structural, Bounce, Edits, NoEditIsForgotten, Owned, session, factory, state, machine, files, ApplyIsComing, Pointed
<1>17. CASE NoDoor
  BY <1>17, <1>0 DEF NoDoor, Bounce, Edits, NoEditIsForgotten, Owned, session, factory, state, machine, files, ApplyIsComing, Pointed
<1> QED BY <1>1, <1>2, <1>3, <1>4, <1>5, <1>6, <1>7, <1>8, <1>9, <1>10, <1>11, <1>12, <1>13, <1>14, <1>15, <1>16, <1>17 DEF Loop

\* what the actors other than the loop and the clients leave alone is enough
LEMMA EditsAside ==
    ASSUME Edits, UNCHANGED <<pc, cmd, staged, origin, plan, disk, promised, queue, client>>,
           thread' # None => thread # None
    PROVE  Edits'
BY DEF Edits, NoEditIsForgotten, ApplyIsComing

LEMMA EditsByClients ==
    ASSUME Shape, Owned, Edits, ClientsStep
    PROVE  Edits'
<1> USE ControlAssumption
<1> DEFINE Same == promised' = promised /\ disk' \in Nat /\ disk <= disk' /\ (ApplyIsComing => ApplyIsComing')
           Paid == promised' <= disk' /\ ApplyIsComing'
           Free == promised' <= disk' /\ thread = None
<1>1. UNCHANGED <<pc, cmd, session, factory, state, muted, machine>>
  BY ClientsAside DEF ClientsStep
<1>2. /\ queue \in Seq(Commands) /\ client \in [Clients -> {client[c] : c \in Clients}]
      /\ disk \in Nat /\ promised \in Nat
  BY DEF Shape, TypeOK, Versions
<1>3. ASSUME NEW op \in Tray, TraySends(op) PROVE Same
  <2>1. Command(op, None, Keep) \in Commands
    BY DEF Command, Commands, Ops, Specs
  <2> QED BY <1>3, <2>1, <1>2, ApplyAdded DEF TraySends, Enqueue, ApplyIsComing, files
<1>4. ASSUME NEW c \in Clients, Serve(c) PROVE Same \/ Paid \/ Free
  <2>1. ASSUME NEW verb \in Verbs, Ask(c, verb) PROVE Same \/ Paid
    <3>1. CASE verb \in Writing
      <4>1. promised' = disk /\ disk' = disk
        BY <2>1, <3>1 DEF Ask
      <4>2. client'[c].at = "asked" /\ client'[c].op \in Applying
        BY <2>1, <3>1, <1>2 DEF Ask, Client, Wants, Writing, Applying
      <4> QED BY <4>1, <4>2, <1>2 DEF ApplyIsComing
    <3>2. CASE verb \notin Writing
      <4>1. promised' = promised /\ disk' = disk /\ queue' = queue /\ client[c].at = "idle"
        BY <2>1, <3>2 DEF Ask
      <4>2. \A d \in Clients : d # c => client'[d] = client[d]
        BY <2>1, <1>2 DEF Ask, Client
      <4> QED BY <4>1, <4>2, <1>2 DEF ApplyIsComing
    <3> QED BY <3>1, <3>2
  <2>2. CASE Send(c)
    <3>1. PICK title \in Games \cup {Keep} :
            Enqueue(Command(client[c].op,
                            IF client[c].op \in {"play", "swap"} THEN draft ELSE None, title))
      BY <2>2 DEF Send
    <3> DEFINE sent == Command(client[c].op,
                               IF client[c].op \in {"play", "swap"} THEN draft ELSE None, title)
    <3>2. sent \in Commands /\ sent.op = client[c].op
      BY <2>2 DEF Send, Shape, TypeOK, Asked, Command, Commands, Specs
    <3>3. /\ client[c].at = "asked"
          /\ \A d \in Clients : d # c => client'[d] = client[d]
          /\ disk' = disk /\ promised' = promised
      BY <2>2, <1>2 DEF Send, Client, files
    <3>4. queue' = Append(queue, sent)
      BY <3>1 DEF Enqueue
    <3> HIDE DEF sent
    <3>5. CASE client[c].op \in Applying \/ \E i \in DOMAIN queue : queue[i].op \in Applying
      BY <3>2, <3>3, <3>4, <3>5, <1>2, ApplyAdded DEF ApplyIsComing
    <3>6. CASE ~(client[c].op \in Applying \/ \E i \in DOMAIN queue : queue[i].op \in Applying)
      BY <3>3, <3>6, <1>2 DEF ApplyIsComing
    <3> QED BY <3>5, <3>6
  <2>3. CASE SeeStarting(c)
    BY <2>3, <1>2 DEF SeeStarting, Client, ApplyIsComing, files
  <2>4. CASE GiveUp(c) /\ pc # "gone"
    <3>1. /\ UNCHANGED <<disk, promised, queue>> /\ client[c].at = "wait"
          /\ \A d \in Clients : d # c => client'[d] = client[d]
      BY <2>4, <1>2 DEF GiveUp, Rest, Client
    <3> QED BY <3>1, <1>2 DEF ApplyIsComing
  <2>5. CASE GiveUp(c) /\ pc = "gone"
    <3>1. thread = None
      BY <2>5 DEF Owned
    <3> QED BY <2>5, <3>1, <1>2 DEF GiveUp, Rest, Edits
  <2>6. CASE LeaveSaved(c)
    <3>1. CASE Active(run)
      BY <2>6, <3>1, <1>2 DEF LeaveSaved, Rest, Resting, Client, ApplyIsComing
    <3>2. CASE ~Active(run)
      BY <2>6, <3>2, <1>2 DEF LeaveSaved, Rest, Owned, Active
    <3> QED BY <3>1, <3>2
  <2>7. ASSUME NEW word \in Verdicts, Answer(c, word) PROVE Same
    BY <2>7, <1>2 DEF Answer, Rest, Resting, Client, ApplyIsComing
  <2>8. CASE Save(c)
    BY <2>8, <1>2 DEF Save, Client, Resting, ApplyIsComing
  <2>9. CASE EditDraft(c)
    BY <2>9, <1>2 DEF EditDraft, Client, Resting, ApplyIsComing
  <2> QED BY <1>4, <2>1, <2>2, <2>3, <2>4, <2>5, <2>6, <2>7, <2>8, <2>9 DEF Serve
<1>5. Same \/ Paid \/ Free
  BY <1>3, <1>4 DEF ClientsStep
<1>6. CASE Same
  <2>1. promised' <= disk'
    BY <1>6, <1>2 DEF Edits
  <2> QED BY <1>6, <2>1, <1>1 DEF Edits, NoEditIsForgotten, session, factory, state
<1>7. CASE Paid
  BY <1>7 DEF Edits, NoEditIsForgotten
<1>8. CASE Free
  <2>1. pc' # "door" /\ thread' = None
    BY <1>8, <1>1 DEF Owned, session
  <2> QED BY <1>8, <2>1 DEF Edits, NoEditIsForgotten
<1> QED BY <1>5, <1>6, <1>7, <1>8

LEMMA EditsKept ==
    ASSUME Shape, Owned, Pointed, Edits, [Next]_vars
    PROVE  Edits'
<1>1. CASE Loop
  BY <1>1, EditsByLoop
<1>2. CASE Session
  BY <1>2, SessionAside, EditsAside DEF factory, state, files
<1>3. CASE Encoder
  BY <1>3, EncoderAside, EditsAside DEF session, factory, state, files
<1>4. CASE ClientsStep
  BY <1>4, EditsByClients
<1>5. CASE UNCHANGED vars
  BY <1>5, EditsAside DEF vars, session, factory, state, files
<1> QED BY <1>1, <1>2, <1>3, <1>4, <1>5 DEF Next, ClientsStep

-----------------------------------------------------------------------------
(* Witnessed *)

LEMMA WitnessedByLoop ==
    ASSUME Witnessed, Loop
    PROVE  Witnessed'
<1>1. CASE Make
  BY <1>1 DEF Make, Witnessed
<1>2. ASSUME ~Make
      PROVE  run'.word = "running" => run' = run /\ client' = client /\ began' = began
  <2>1. CASE ReapFinished
    BY <2>1 DEF ReapFinished, Join, Run, Stopped, Starting, Failed, Quitting, session, state, files
  <2>2. CASE FreePanel
    BY <2>2 DEF FreePanel, Run, Stopped, Starting, Failed, Quitting, session, state, files
  <2>3. CASE Reap
    BY <2>3 DEF Reap, Join, Run, Stopped, Starting, Failed, Quitting, session, state, files
  <2>4. CASE Exit
    BY <2>4 DEF Exit, Run, Stopped, Starting, Failed, Quitting, session, state, files
  <2>5. CASE TakeStart
    BY <2>5 DEF TakeStart, Take, Run, Stopped, Starting, Failed, Quitting, session, state, files
  <2>6. CASE TakePlay
    BY <2>6 DEF TakePlay, Take, Run, Stopped, Starting, Failed, Quitting, session, state, files
  <2>7. CASE TakeReload
    BY <2>7 DEF TakeReload, Take, Run, Stopped, Starting, Failed, Quitting, session, state, files
  <2>8. CASE TakeStop
    BY <2>8 DEF TakeStop, Take, Run, Stopped, Starting, Failed, Quitting, session, state, files
  <2>9. CASE TakeQuit
    BY <2>9 DEF TakeQuit, Take, Run, Stopped, Starting, Failed, Quitting, session, state, files
  <2>10. CASE \E op \in {"bind", "swap"} : TakeApply(op)
    BY <2>10 DEF TakeApply, Take, Run, Stopped, Starting, Failed, Quitting, session, state, files
  <2>11. CASE Begin
    BY <2>11 DEF Begin, Run, Stopped, Starting, Failed, Quitting, session, state, files
  <2>12. CASE MakeFails
    BY <2>12 DEF MakeFails, Run, Stopped, Starting, Failed, Quitting, session, state, files
  <2>13. CASE Undo
    BY <2>13 DEF Undo, Run, Stopped, Starting, Failed, Quitting, session, state, files
  <2>14. CASE Swap
    BY <2>14 DEF Swap, Run, Stopped, Starting, Failed, Quitting, session, state, files
  <2>15. CASE Structural
    BY <2>15 DEF Structural, Run, Stopped, Starting, Failed, Quitting, session, state, files
  <2>16. CASE NoDoor
    BY <2>16 DEF NoDoor, Run, Stopped, Starting, Failed, Quitting, session, state, files
  <2> QED BY <1>2, <2>1, <2>2, <2>3, <2>4, <2>5, <2>6, <2>7, <2>8, <2>9, <2>10, <2>11, <2>12, <2>13, <2>14, <2>15, <2>16 DEF Loop
<1>3. CASE ~Make
  BY <1>2, <1>3 DEF Witnessed, Moved
<1> QED BY <1>1, <1>3

LEMMA WitnessedByClients ==
    ASSUME TypeOK, Witnessed, ClientsStep
    PROVE  Witnessed'
<1>1. UNCHANGED <<pc, cmd, session, factory, state, muted, machine>>
  BY ClientsAside DEF ClientsStep
<1>2. client \in [Clients -> {client[c] : c \in Clients}]
  BY DEF TypeOK
<1>3. CASE \E op \in Tray : TraySends(op)
  BY <1>3, <1>1 DEF TraySends, Witnessed, Moved, state
<1>4. ASSUME NEW c \in Clients, Serve(c)
      PROVE  Witnessed'
  <2>1. ASSUME NEW verb \in Verbs, Ask(c, verb) PROVE Witnessed'
    BY <2>1, <1>1, <1>2 DEF Ask, Client, Witnessed, Moved, state
  <2>2. CASE Send(c)
    BY <2>2, <1>1, <1>2 DEF Send, Client, Witnessed, Moved, state
  <2>3. CASE SeeStarting(c)
    BY <2>3, <1>1, <1>2 DEF SeeStarting, Client, Witnessed, Moved, Starting, Run, state
  <2>4. CASE GiveUp(c) \/ LeaveSaved(c)
    BY <2>4, <1>1, <1>2 DEF GiveUp, LeaveSaved, Rest, Resting, Client, Witnessed, Moved, state
  <2>5. ASSUME NEW word \in Verdicts, Answer(c, word) PROVE Witnessed'
    BY <2>5, <1>1, <1>2 DEF Answer, Rest, Resting, Client, Witnessed, Moved, state
  <2>6. CASE Save(c)
    BY <2>6, <1>1, <1>2 DEF Save, Client, Resting, Witnessed, Moved, state
  <2>7. CASE EditDraft(c)
    BY <2>7, <1>1, <1>2 DEF EditDraft, Client, Resting, Witnessed, Moved, state
  <2> QED BY <1>4, <2>1, <2>2, <2>3, <2>4, <2>5, <2>6, <2>7 DEF Serve
<1> QED BY <1>3, <1>4 DEF ClientsStep

LEMMA WitnessedKept ==
    ASSUME TypeOK, Witnessed, [Next]_vars
    PROVE  Witnessed'
<1>1. CASE Loop
  BY <1>1, WitnessedByLoop
<1>2. CASE Session
  BY <1>2, SessionAside DEF Witnessed, Moved, state
<1>3. CASE Encoder
  BY <1>3, EncoderAside DEF Witnessed, Moved, state
<1>4. CASE ClientsStep
  BY <1>4, WitnessedByClients
<1>5. CASE UNCHANGED vars
  BY <1>5 DEF vars, Witnessed, Moved, state
<1> QED BY <1>1, <1>2, <1>3, <1>4, <1>5 DEF Next, ClientsStep

-----------------------------------------------------------------------------
(* Shape *)

\* what a step of the loop may assign
Scalars ==
    /\ pc \in PCs /\ thread \in Threads /\ outcome \in {"ok", "bad"}
    /\ staged \in Specs /\ game \in Games /\ run \in Runs
    /\ origin \in {"unknown", "config", "staged"}
    /\ lease \in {"free", "start", "prog"}
Records ==
    /\ cmd \in InHand /\ plan \in Plans /\ apply \in [gen : Nat, ok : BOOLEAN]
    /\ began \subseteq Clients
Flags == stop \in BOOLEAN /\ muted \in BOOLEAN

LEMMA Values ==
    ASSUME Shape
    PROVE  /\ Idle \in InHand /\ Plan("config", 0) \in Plans /\ Resolved \in Plans
           /\ {Stopped, Starting, Failed, Quitting} \subseteq Runs
           /\ \A n \in Slots : Run("running", n) \in Runs /\ Idle.want \in Plans
           /\ \A b \in BOOLEAN : NextReport(b) \in [gen : Nat, ok : BOOLEAN]
           /\ cmd.spec \in Specs /\ cmd.want \in Plans /\ None \in Specs
           /\ queue # << >> =>
                /\ \A w \in Plans : Hold(w) \in InHand /\ Hold(w).game = game
                /\ Head(queue).spec \in Specs /\ Head(queue).game \in Games \cup {Keep}
                /\ Head(queue).op = "swap" => Plan("staged", Head(queue).spec) \in Plans
<1> USE ControlAssumption
<1>1. 0 \in Versions /\ queue \in Seq(Commands)
  BY DEF Versions, Shape, TypeOK
<1>2. queue # << >> => Head(queue) \in Commands /\ Head(queue) = queue[1] /\ 1 \in DOMAIN queue
  BY <1>1
<1>3. Idle \in InHand /\ Idle.want \in Plans /\ Plan("config", 0) \in Plans /\ Resolved \in Plans
  BY <1>1 DEF Shape, TypeOK, Idle, InHand, Plan, Plans, Resolved, Specs
<1>4. /\ {Stopped, Starting, Failed, Quitting} \subseteq Runs
      /\ \A n \in Slots : Run("running", n) \in Runs
  BY DEF Runs
<1>5. \A b \in BOOLEAN : NextReport(b) \in [gen : Nat, ok : BOOLEAN]
  BY DEF Shape, TypeOK, NextReport
<1>6. cmd.spec \in Specs /\ cmd.want \in Plans /\ None \in Specs
  BY DEF Shape, TypeOK, InHand, Specs
<1>7. ASSUME queue # << >>
      PROVE  /\ \A w \in Plans : Hold(w) \in InHand /\ Hold(w).game = game
             /\ Head(queue).spec \in Specs /\ Head(queue).game \in Games \cup {Keep}
             /\ Head(queue).op = "swap" => Plan("staged", Head(queue).spec) \in Plans
  BY <1>2, <1>7 DEF Shape, TypeOK, Queued, Hold, InHand, Commands, Plan, Plans
<1> QED BY <1>3, <1>4, <1>5, <1>6, <1>7

LEMMA ShapeByLoop ==
    ASSUME Shape, Loop
    PROVE  Shape'
<1> USE ControlAssumption
<1>0. UNCHANGED <<prog, pending, disk, draft, client>> /\ promised' \in Versions
  BY LoopAside DEF Shape, TypeOK, Versions
<1>1. queue' = queue \/ (queue # << >> /\ queue' = Tail(queue))
  BY DEF Loop, ReapFinished, FreePanel, Reap, Exit, TakeStart, TakePlay, TakeReload, TakeStop,
     TakeQuit, TakeApply, Take, Begin, Make, MakeFails, Undo, Swap, Structural, NoDoor
<1>2. queue' \in Seq(Commands) /\ Queued'
  <2>1. CASE queue # << >> /\ queue' = Tail(queue)
    <3>1. queue \in Seq(Commands)
      BY DEF Shape, TypeOK
    <3>2. \A i \in DOMAIN Tail(queue) : i + 1 \in DOMAIN queue /\ Tail(queue)[i] = queue[i + 1]
      BY <3>1, <2>1
    <3>3. Tail(queue) \in Seq(Commands)
      BY <3>1, <2>1
    <3> QED BY <2>1, <3>2, <3>3 DEF Shape, Queued
  <2>2. CASE queue' = queue
    BY <2>2 DEF Shape, TypeOK, Queued
  <2> QED BY <1>1, <2>1, <2>2
<1>3. Asked'
  BY <1>0 DEF Shape, Asked
<1>4. Scalars'
  <2>1. CASE ReapFinished
    BY <2>1, Values DEF ReapFinished, Join, Shape, TypeOK, Held, Scalars, PCs, Threads, session, factory, state, machine
  <2>2. CASE FreePanel
    BY <2>2, Values DEF FreePanel, Shape, TypeOK, Held, Scalars, PCs, Threads, session, factory, state, machine
  <2>3. CASE Reap
    BY <2>3, Values DEF Reap, Join, Shape, TypeOK, Held, Scalars, PCs, Threads, session, factory, state, machine
  <2>4. CASE Exit
    BY <2>4, Values DEF Exit, Shape, TypeOK, Held, Scalars, PCs, Threads, session, factory, state, machine
  <2>5. CASE TakeStart
    BY <2>5, Values DEF TakeStart, Take, StopThen, PointAt, Shape, TypeOK, Held, Scalars, PCs, Threads, session, factory, state, machine
  <2>6. CASE TakePlay
    BY <2>6, Values DEF TakePlay, Take, StopThen, PointAt, Shape, TypeOK, Held, Scalars, PCs, Threads, session, factory, state, machine
  <2>7. CASE TakeReload
    BY <2>7, Values DEF TakeReload, Take, StopThen, PointAt, Shape, TypeOK, Held, Scalars, PCs, Threads, session, factory, state, machine
  <2>8. CASE TakeStop
    BY <2>8, Values DEF TakeStop, Take, StopThen, Shape, TypeOK, Held, Scalars, PCs, Threads, session, factory, state, machine
  <2>9. CASE TakeQuit
    BY <2>9, Values DEF TakeQuit, Take, StopThen, Shape, TypeOK, Held, Scalars, PCs, Threads, session, factory, state, machine
  <2>10. ASSUME NEW op \in {"bind", "swap"}, TakeApply(op) PROVE Scalars'
    BY <2>10, Values DEF TakeApply, Take, Shape, TypeOK, Held, Scalars, PCs, Threads, session, factory, state, machine
  <2>11. CASE Begin
    BY <2>11, Values DEF Begin, Shape, TypeOK, Held, Scalars, PCs, Threads, session, factory, state, machine
  <2>12. CASE Make
    BY <2>12, Values DEF Make, Shape, TypeOK, Held, Scalars, PCs, Threads, session, factory, state, machine
  <2>13. CASE MakeFails
    BY <2>13, Values DEF MakeFails, Shape, TypeOK, Held, Scalars, PCs, Threads, session, factory, state, machine
  <2>14. CASE Undo
    BY <2>14, Values DEF Undo, PointAt, Shape, TypeOK, Held, Scalars, PCs, Threads, session, factory, state, machine
  <2>15. CASE Swap
    BY <2>15, Values DEF Swap, PointAt, Shape, TypeOK, Held, Scalars, PCs, Threads, session, factory, state, machine
  <2>16. CASE Structural
    BY <2>16, Values DEF Structural, Bounce, Shape, TypeOK, Held, Scalars, PCs, Threads, session, factory, state, machine
  <2>17. CASE NoDoor
    BY <2>17, Values DEF NoDoor, Bounce, Shape, TypeOK, Held, Scalars, PCs, Threads, session, factory, state, machine
  <2> QED BY <2>1, <2>2, <2>3, <2>4, <2>5, <2>6, <2>7, <2>8, <2>9, <2>10, <2>11, <2>12, <2>13, <2>14, <2>15, <2>16, <2>17 DEF Loop
<1>5. Records' /\ Held'
  <2>1. CASE ReapFinished
    BY <2>1, Values DEF ReapFinished, Join, Shape, TypeOK, Held, Records, session, state
  <2>2. CASE FreePanel
    BY <2>2, Values DEF FreePanel, Shape, TypeOK, Held, Records, session, state
  <2>3. CASE Reap
    BY <2>3, Values DEF Reap, Join, Shape, TypeOK, Held, Records, session, state
  <2>4. CASE Exit
    BY <2>4, Values DEF Exit, Shape, TypeOK, Held, Records, session, state
  <2>5. CASE TakeStart
    <3>1. CASE thread # None
      BY <2>5, <3>1, Values DEF TakeStart, Take, Shape, TypeOK, Held, Records, session, state
    <3>2. CASE thread = None
      <4>1. cmd' = Hold(Idle.want) /\ queue # << >> /\ UNCHANGED <<plan, apply, began>>
        BY <2>5, <3>2 DEF TakeStart, Take
      <4> QED BY <4>1, Values DEF Shape, TypeOK, Held, Records
    <3> QED BY <3>1, <3>2
  <2>6. CASE TakePlay
    BY <2>6, Values DEF TakePlay, Take, StopThen, PointAt, Shape, TypeOK, Held, Records, session, state
  <2>7. CASE TakeReload
    BY <2>7, Values DEF TakeReload, Take, StopThen, PointAt, Shape, TypeOK, Held, Records, session, state
  <2>8. CASE TakeStop
    BY <2>8, Values DEF TakeStop, Take, StopThen, Shape, TypeOK, Held, Records, session, state
  <2>9. CASE TakeQuit
    BY <2>9, Values DEF TakeQuit, Take, StopThen, Shape, TypeOK, Held, Records, session, state
  <2>10. ASSUME NEW op \in {"bind", "swap"}, TakeApply(op) PROVE Records' /\ Held'
    <3>1. CASE pc' = "door"
      BY <2>10, <3>1, Values DEF TakeApply, Take, Shape, TypeOK, Held, Records
    <3>2. CASE pc' = "recv"
      <4>1. apply' = NextReport(thread = None /\ op = "bind")
        BY <2>10, <3>2 DEF TakeApply
      <4>2. apply' \in [gen : Nat, ok : BOOLEAN]
        BY <4>1, Values
      <4> QED BY <2>10, <3>2, <4>2, Values DEF TakeApply, Take, Shape, TypeOK, Held, Records
    <3> QED BY <2>10, <3>1, <3>2 DEF TakeApply
  <2>11. CASE Begin
    BY <2>11, Values DEF Begin, Shape, TypeOK, Held, Records, session, state
  <2>12. CASE Make
    BY <2>12, Values DEF Make, Shape, TypeOK, Held, Records, session, state
  <2>13. CASE MakeFails
    BY <2>13, Values DEF MakeFails, Shape, TypeOK, Held, Records, session, state
  <2>14. CASE Undo
    BY <2>14, Values DEF Undo, PointAt, Shape, TypeOK, Held, Records, session, state
  <2>15. CASE Swap
    BY <2>15, Values DEF Swap, PointAt, Shape, TypeOK, Held, Records, session, state
  <2>16. CASE Structural
    BY <2>16, Values DEF Structural, Bounce, Shape, TypeOK, Held, Records, session, state
  <2>17. CASE NoDoor
    BY <2>17, Values DEF NoDoor, Bounce, Shape, TypeOK, Held, Records, session, state
  <2> QED BY <2>1, <2>2, <2>3, <2>4, <2>5, <2>6, <2>7, <2>8, <2>9, <2>10, <2>11, <2>12, <2>13, <2>14, <2>15, <2>16, <2>17 DEF Loop
<1>6. Flags'
  <2>1. CASE ReapFinished
    BY <2>1 DEF ReapFinished, Join, Shape, TypeOK, Flags, session
  <2>2. CASE FreePanel
    BY <2>2 DEF FreePanel, Shape, TypeOK, Flags, session
  <2>3. CASE Reap
    BY <2>3 DEF Reap, Join, Shape, TypeOK, Flags, session
  <2>4. CASE Exit
    BY <2>4 DEF Exit, Shape, TypeOK, Flags, session
  <2>5. CASE TakeStart
    BY <2>5 DEF TakeStart, Take, StopThen, PointAt, Shape, TypeOK, Flags, session
  <2>6. CASE TakePlay
    BY <2>6 DEF TakePlay, Take, StopThen, PointAt, Shape, TypeOK, Flags, session
  <2>7. CASE TakeReload
    BY <2>7 DEF TakeReload, Take, StopThen, PointAt, Shape, TypeOK, Flags, session
  <2>8. CASE TakeStop
    BY <2>8 DEF TakeStop, Take, StopThen, Shape, TypeOK, Flags, session
  <2>9. CASE TakeQuit
    BY <2>9 DEF TakeQuit, Take, StopThen, Shape, TypeOK, Flags, session
  <2>10. ASSUME NEW op \in {"bind", "swap"}, TakeApply(op) PROVE Flags'
    BY <2>10 DEF TakeApply, Take, Shape, TypeOK, Flags, session
  <2>11. CASE Begin
    BY <2>11 DEF Begin, Shape, TypeOK, Flags, session
  <2>12. CASE Make
    BY <2>12 DEF Make, Shape, TypeOK, Flags, session
  <2>13. CASE MakeFails
    BY <2>13 DEF MakeFails, Shape, TypeOK, Flags, session
  <2>14. CASE Undo
    BY <2>14 DEF Undo, PointAt, Shape, TypeOK, Flags, session
  <2>15. CASE Swap
    BY <2>15 DEF Swap, PointAt, Shape, TypeOK, Flags, session
  <2>16. CASE Structural
    BY <2>16 DEF Structural, Bounce, Shape, TypeOK, Flags, session
  <2>17. CASE NoDoor
    BY <2>17 DEF NoDoor, Bounce, Shape, TypeOK, Flags, session
  <2> QED BY <2>1, <2>2, <2>3, <2>4, <2>5, <2>6, <2>7, <2>8, <2>9, <2>10, <2>11, <2>12, <2>13, <2>14, <2>15, <2>16, <2>17 DEF Loop
<1> QED BY <1>0, <1>2, <1>3, <1>4, <1>5, <1>6 DEF Shape, TypeOK, Scalars, Records, Flags

LEMMA SendTyped ==
    ASSUME Shape, NEW c \in Clients, Send(c)
    PROVE  queue' \in Seq(Commands) /\ Queued'
<1> USE ControlAssumption
<1>1. PICK title \in Games \cup {Keep} :
        Enqueue(Command(client[c].op,
                        IF client[c].op \in {"play", "swap"} THEN draft ELSE None, title))
  BY DEF Send
<1> DEFINE sent == Command(client[c].op,
                           IF client[c].op \in {"play", "swap"} THEN draft ELSE None, title)
<1>2. sent \in Commands /\ (sent.op \in {"play", "swap"} => sent.spec \in Versions)
  BY DEF Send, Shape, TypeOK, Asked, Command, Commands, Specs
<1>3. queue \in Seq(Commands) /\ queue' = Append(queue, sent)
  BY <1>1 DEF Shape, TypeOK, Enqueue
<1> HIDE DEF sent
<1>4. queue' \in Seq(Commands)
  BY <1>2, <1>3
<1>5. \A i \in DOMAIN queue' : IF i \in DOMAIN queue THEN queue'[i] = queue[i] ELSE queue'[i] = sent
  BY <1>2, <1>3
<1> QED BY <1>2, <1>4, <1>5 DEF Shape, Queued

LEMMA ShapeByClients ==
    ASSUME Shape, ClientsStep
    PROVE  Shape'
<1> USE ControlAssumption
<1>1. UNCHANGED <<pc, cmd, session, factory, state, muted, machine>>
  BY ClientsAside DEF ClientsStep
<1>2. client \in [Clients -> ClientRecords] /\ Versions \subseteq Nat
  BY DEF Shape, TypeOK, ClientRecords, Versions
<1>3. SUFFICES /\ queue' \in Seq(Commands) /\ Queued' /\ disk' \in Versions /\ draft' \in Versions
               /\ promised' \in Versions
               /\ client' \in [Clients -> ClientRecords] /\ Asked' /\ began' \subseteq Clients
  BY <1>1 DEF Shape, TypeOK, Held, ClientRecords, session, factory, state, machine
<1>4. CASE \E op \in Tray : TraySends(op)
  <2>1. PICK op \in Tray : TraySends(op)
    BY <1>4
  <2> DEFINE sent == Command(op, None, Keep)
  <2>2. sent \in Commands /\ sent.op \notin {"play", "swap"}
    BY DEF Command, Commands, Ops, Specs
  <2>3. queue \in Seq(Commands) /\ queue' = Append(queue, sent) /\ UNCHANGED <<disk, draft, promised, client, began>>
    BY <2>1 DEF Shape, TypeOK, Enqueue, TraySends, files
  <2> HIDE DEF sent
  <2>4. queue' \in Seq(Commands)
    BY <2>2, <2>3
  <2>5. \A i \in DOMAIN queue' : IF i \in DOMAIN queue THEN queue'[i] = queue[i] ELSE queue'[i] = sent
    BY <2>2, <2>3
  <2> QED BY <1>2, <2>2, <2>3, <2>4, <2>5 DEF Shape, TypeOK, Queued, Asked
<1>5. ASSUME NEW c \in Clients, Serve(c)
      PROVE  /\ queue' \in Seq(Commands) /\ Queued' /\ disk' \in Versions /\ draft' \in Versions
             /\ promised' \in Versions
             /\ client' \in [Clients -> ClientRecords] /\ Asked' /\ began' \subseteq Clients
  <2>0. /\ queue \in Seq(Commands) /\ Queued /\ disk \in Versions /\ draft \in Versions
        /\ promised \in Versions /\ Asked /\ began \subseteq Clients /\ run \in Runs /\ apply.gen \in Nat
        /\ Resting \in ClientRecords /\ Resting.at = "idle" /\ Stopped \in Runs
    BY DEF Shape, TypeOK, Resting, ClientRecords, Runs, Stopped
  <2>1. ASSUME NEW verb \in Verbs, Ask(c, verb)
        PROVE  client' \in [Clients -> ClientRecords] /\ Asked'
    <3>1. PICK op \in {Wants(verb)} :
            client' = [client EXCEPT ![c] =
                [at |-> "asked", op |-> op, saw |-> FALSE,
                 base |-> IF op \in StartOps THEN run ELSE Stopped,
                 gen |-> IF op \in {"bind", "swap"} THEN apply.gen ELSE 0]]
      BY <2>1 DEF Ask, Client
    <3>2. op \in Ops
      BY DEF Wants, AllVerbs, Ops
    <3> QED BY <3>1, <3>2, <2>0, <1>2 DEF ClientRecords, Asked
  <2>2. CASE Send(c)
    <3>1. queue' \in Seq(Commands) /\ Queued'
      BY <2>2, SendTyped
    <3>2. client' = [client EXCEPT ![c] = [client[c] EXCEPT !.at = "wait"]] /\ client[c].at = "asked"
          /\ UNCHANGED <<disk, draft, promised, began>>
      BY <2>2 DEF Send, Client, files
    <3> QED BY <3>1, <3>2, <2>0, <1>2 DEF ClientRecords, Asked
  <2>3. CASE SeeStarting(c)
    <3>1. client' = [client EXCEPT ![c] = [client[c] EXCEPT !.saw = TRUE]]
          /\ UNCHANGED <<queue, disk, draft, promised, began>>
      BY <2>3 DEF SeeStarting, Client, files
    <3> QED BY <3>1, <2>0, <1>2 DEF ClientRecords, Asked, Queued
  <2>4. CASE Rest(c) /\ promised' \in {promised, disk}
    BY <2>4, <2>0, <1>2 DEF Rest, Client, Asked, Queued
  <2>5. CASE Save(c)
    <3>1. client' = [client EXCEPT ![c] = [Resting EXCEPT !.at = "saved"]]
          /\ UNCHANGED <<queue, draft, promised, began>>
      BY <2>5 DEF Save, Client
    <3>2. disk' \in Versions
      BY <2>5, <2>0 DEF Save, Versions
    <3> QED BY <3>1, <3>2, <2>0, <1>2 DEF ClientRecords, Asked, Queued, Resting
  <2>6. CASE EditDraft(c)
    <3>1. client' = [client EXCEPT ![c] = Resting] /\ UNCHANGED <<queue, disk, promised, began>>
      BY <2>6 DEF EditDraft, Client
    <3>2. draft' \in Versions
      BY <2>6, <2>0 DEF EditDraft, Versions
    <3> QED BY <3>1, <3>2, <2>0, <1>2 DEF Asked, Queued
  <2>7. CASE \E verb \in Verbs : Ask(c, verb)
    <3>1. UNCHANGED <<queue, disk, draft>> /\ began' \subseteq Clients /\ promised' \in {disk, promised}
      BY <2>7, <2>0 DEF Ask
    <3> QED BY <2>7, <2>1, <3>1, <2>0 DEF Queued
  <2> QED BY <1>5, <2>2, <2>3, <2>4, <2>5, <2>6, <2>7 DEF Serve, GiveUp, LeaveSaved, Answer
<1> QED BY <1>4, <1>5 DEF ClientsStep

LEMMA ShapeKept ==
    ASSUME Shape, [Next]_vars
    PROVE  Shape'
<1>1. CASE Loop
  BY <1>1, ShapeByLoop
<1>2. CASE Session
  BY <1>2, SessionAside DEF Shape, TypeOK, Queued, Asked, Held, factory, state, machine, files
<1>3. CASE Encoder
  <2>1. /\ lease' \in {"free", "start", "prog"} /\ pending' \in BOOLEAN
        /\ prog' \in {"idle", "holds", "checked", "writes"}
    BY <1>3 DEF Encoder, Acquire, CheckStopped, Write, Release, Programmer, Shape, TypeOK
  <2> QED BY <1>3, <2>1, EncoderAside DEF Shape, TypeOK, Queued, Asked, Held, session, factory, state, files
<1>4. CASE ClientsStep
  BY <1>4, ShapeByClients
<1>5. CASE UNCHANGED vars
  BY <1>5 DEF vars, Shape, TypeOK, Queued, Asked, Held, session, factory, state, machine, files
<1> QED BY <1>1, <1>2, <1>3, <1>4, <1>5 DEF Next, ClientsStep

-----------------------------------------------------------------------------
(* The invariant and what it gives *)

LEMMA InitIInv == Init => IInv
<1> SUFFICES ASSUME Init PROVE IInv
  OBVIOUS
<1> USE ControlAssumption DEF Init
<1>1. Shape
  <2>1. queue \in Seq(Commands) /\ Queued /\ Asked /\ Held
    BY DEF Queued, Asked, Held, Resting
  <2>2. 0 \in Versions /\ Stopped \in Runs
    BY DEF Versions, Runs
  <2>3. Plan("config", 0) \in Plans /\ None \in Specs
    BY <2>2 DEF Plan, Plans, Specs
  <2>4. Idle \in InHand /\ Resting \in ClientRecords
    BY <2>2, <2>3 DEF Idle, InHand, Resting, ClientRecords
  <2>5. run \in Runs /\ plan \in Plans /\ cmd \in InHand /\ client \in [Clients -> ClientRecords]
    BY <2>2, <2>3, <2>4
  <2>6. apply \in [gen : Nat, ok : BOOLEAN]
    OBVIOUS
  <2> QED BY <2>1, <2>2, <2>3, <2>5, <2>6 DEF Shape, TypeOK, PCs, Threads, ClientRecords
<1>2. Owned /\ Leased /\ Pointed
  BY DEF Owned, Leased, Pointed, Stopped, Run
<1>3. Edits /\ Witnessed
  BY DEF Edits, NoEditIsForgotten, Witnessed, Resting
<1> QED BY <1>1, <1>2, <1>3 DEF IInv

\* Every command leaves the session, the panel, the lease and the factory in step.
THEOREM Inductive == Spec => []IInv
<1>1. IInv /\ [Next]_vars => IInv'
  <2> SUFFICES ASSUME IInv, [Next]_vars PROVE IInv'
    OBVIOUS
  <2>1. Shape' /\ Owned' /\ Leased'
    BY ShapeKept, OwnedKept, LeasedKept DEF IInv, Shape
  <2>2. Pointed' /\ Edits'
    BY PointedKept, EditsKept DEF IInv
  <2>3. Witnessed'
    BY WitnessedKept DEF IInv, Shape
  <2> QED BY <2>1, <2>2, <2>3 DEF IInv
<1> QED BY InitIInv, <1>1, PTL DEF Spec

\* The daemon's shared state and the commands in its channel are well formed.
THEOREM TypeCorrect == Spec => []TypeOK
<1>1. IInv => TypeOK
  BY DEF IInv, Shape
<1> QED BY <1>1, Inductive, PTL

\* The panel is dead, and the state says running, exactly while a session is there.
THEOREM PanelIsReleased == Spec => []PanelFollowsSession
<1>1. IInv => PanelFollowsSession
  BY DEF IInv, Owned, PanelFollowsSession
<1> QED BY <1>1, Inductive, PTL

\* A session is made only after its predecessor was joined.
THEOREM SessionsNeverOverlap == Spec => []OneSession
<1>1. IInv => OneSession
  BY DEF IInv, Owned, OneSession
<1> QED BY <1>1, Inductive, PTL

\* The lease and the gate at packet zero keep programming and sessions apart.
THEOREM ProgrammingExcludesPlay == Spec => []NeverProgramsWhilePlaying
<1>1. IInv => NeverProgramsWhilePlaying
  BY DEF IInv, Leased, NeverProgramsWhilePlaying
<1> QED BY <1>1, Inductive, PTL

\* What the state says a session was built from is what it was built from.
THEOREM OriginIsTold == Spec => []OriginIsTrue
<1>1. IInv => OriginIsTrue
  BY DEF IInv, Pointed, OriginIsTrue
<1> QED BY <1>1, Inductive, PTL

\* A session from the config runs the newest save a client was promised, unless what
\* applies it is still to come or a report has said that it could not be applied.
THEOREM EditsReachSession == Spec => []NoEditIsForgotten
<1>1. IInv => NoEditIsForgotten
  BY DEF IInv, Edits
<1> QED BY <1>1, Inductive, PTL

\* A client is answered about the session it asked for.
THEOREM AnswersAreWitnessed == Spec => AnswersAreTrue
<1> DEFINE True == \A c \in Clients : /\ Answer(c, "running") => c \in began
                                      /\ Answer(c, "stopped") => thread = None
<1>1. IInv => True
  BY DEF IInv, Owned, Witnessed, Answer, Verdict
<1>2. IInv /\ [Next]_vars => [True]_vars
  BY <1>1
<1> QED BY <1>2, Inductive, PTL DEF Spec, AnswersAreTrue
=============================================================================
