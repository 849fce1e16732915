--------------------------- MODULE HidHost_proofs ---------------------------
(* Proofs about HidHost.tla, for any number of slots, any limit of the host, *)
(* any length of leases and deadlines and any set of pad states.             *)
EXTENDS HidHost, FiniteSetTheorems, TLAPS

-----------------------------------------------------------------------------
(* The inductive invariant. *)

\* the host is busy exactly while it has a frame to carry out, and a conversation
\* that is not open has no request in flight
Phases ==
    /\ host = "busy" <=> job # Nothing
    /\ job # Nothing => job.kind \in Requests \cup {"expire"}
    /\ wire # Nothing => wire.kind # "expire"
    /\ conn # "open" => call = Nothing
    /\ conn = "none" => /\ host = "none" /\ wire = Nothing /\ DOMAIN pads = {}
                        /\ DOMAIN live = {} /\ lapsed = {} /\ issued = {}
    /\ host = "none" => conn = "none"

\* what is left of a pass: slots to be plugged have no pad yet, the others have one
Passes ==
    /\ stage = "plugging" => todo \cap DOMAIN pads = {}
    /\ stage \in {"running", "neutral", "unplug"} => todo \subseteq DOMAIN pads
    /\ call # Nothing /\ Runs /\ call.kind = "create" =>
          stage = "plugging" /\ call.slot \in todo

\* f is the frame of the request in flight
Sent(f) ==
    /\ f.kind = call.kind /\ f.state = call.state
    /\ f.kind = "create" => f.state = Neutral /\ call.slot \in Slots \ DOMAIN pads
    /\ f.kind \in {"submit", "destroy"} =>
          call.slot \in DOMAIN pads /\ f.ctrl = pads[call.slot].ctrl

\* f answers the request in flight
Answers(f) ==
    /\ f.kind \in {"fault", "bye"} => host \notin {"serving", "busy"}
    /\ f.kind = "bye" => call.kind = "shutdown"
    /\ f.kind = "created" => call.kind = "create" /\ call.slot \in Slots /\ f.ctrl \in Ids
    /\ f.kind = "applied" => call.kind = "submit" /\ call.slot \in DOMAIN pads
    /\ f.kind = "destroyed" => call.kind = "destroy" /\ call.slot \in DOMAIN pads

Idle == job = Nothing \/ job.kind = "expire"

\* the request in flight is on the pipe, with the host, answered, or lost with the host
OneInFlight ==
    conn = "open" =>
        IF call = Nothing THEN wire = Nothing /\ Idle
        ELSE \/ IsRequest(wire) /\ Sent(wire) /\ Idle
             \/ wire = Nothing /\ job # Nothing /\ job.kind # "expire" /\ Sent(job)
             \/ Answered /\ Answers(wire) /\ Idle
             \/ wire = Nothing /\ job = Nothing /\ HostGone

Handles(p) == {p[s].ctrl : s \in DOMAIN p}

\* handles are told apart by their controllers, and all of them have been issued
Distinct ==
    /\ \A s, t \in DOMAIN pads : pads[s].ctrl = pads[t].ctrl => s = t
    /\ Handles(pads) \subseteq issued

Given == IF wire # Nothing /\ wire.kind = "created" THEN {wire.ctrl} ELSE {}

\* the pool of the host is that of the pads p, but for what is gone
Match(pool, gone, p) ==
    /\ DOMAIN pool = Handles(p) \ gone
    /\ \A s \in DOMAIN p : p[s].ctrl \in DOMAIN pool => pool[p[s].ctrl].state = p[s].state

Sides ==
    conn = "open" /\ host \in {"serving", "busy"} =>
        /\ DOMAIN live \cup lapsed \subseteq issued \cup Given
        /\ ~Answered => Match(live, lapsed, pads)
        /\ Answered /\ Sound => Match(live, lapsed, Taken)

\* while the host may look at its leases, none has run for longer than the client was silent
Leases == host = "serving" => \A c \in DOMAIN live : live[c].idle <= silence

IInv == TypeOK /\ Phases /\ Passes /\ OneInFlight /\ Distinct /\ Sides /\ Leases

-----------------------------------------------------------------------------
(* Frames, calls, and the functions the two sides keep. *)

LEMMA FrameTyped ==
    ASSUME NEW kind \in Requests \cup {"created", "applied", "destroyed", "bye", "fault", "expire"},
           NEW ctrl \in Ids \cup {0}, NEW state \in States
    PROVE  LET f == Frame(kind, ctrl, state)
           IN  f \in Frames /\ f # Nothing /\ f.kind = kind /\ f.ctrl = ctrl /\ f.state = state
BY NothingAssumption DEF Frame, Frames

LEMMA CallTyped ==
    ASSUME NEW kind \in Requests, NEW s \in Slots \cup {0}, NEW state \in States
    PROVE  LET c == [kind |-> kind, slot |-> s, state |-> state]
           IN  c \in Calls /\ c # Nothing /\ c.kind = kind /\ c.slot = s /\ c.state = state
BY NothingAssumption DEF Calls

LEMMA PutValue ==
    ASSUME NEW f, NEW x, NEW v
    PROVE  /\ DOMAIN Put(f, x, v) = DOMAIN f \cup {x}
           /\ Put(f, x, v)[x] = v
           /\ \A y \in DOMAIN f \ {x} : Put(f, x, v)[y] = f[y]
BY DEF Put

LEMMA RestrictValue ==
    ASSUME NEW f, NEW S \in SUBSET DOMAIN f
    PROVE  /\ DOMAIN Restrict(f, S) = S
           /\ \A y \in S : Restrict(f, S)[y] = f[y]
BY DEF Restrict

(* What Match says depends on controllers and states alone. *)
LEMMA MatchSame ==
    ASSUME NEW pool, NEW pool2, NEW gone, NEW p, NEW q,
           DOMAIN p = DOMAIN q,
           \A s \in DOMAIN p : p[s].ctrl = q[s].ctrl /\ p[s].state = q[s].state,
           DOMAIN pool = DOMAIN pool2,
           \A c \in DOMAIN pool : pool[c].state = pool2[c].state,
           Match(pool, gone, p)
    PROVE  Match(pool2, gone, q)
<1>1. Handles(p) = Handles(q)
  BY DEF Handles
<1> QED
  BY <1>1 DEF Match

(* Pads that are gone are gone from the pool. *)
LEMMA MatchWithout ==
    ASSUME NEW pool, NEW gone, NEW p, NEW more \in SUBSET DOMAIN pool,
           Match(pool, gone, p)
    PROVE  Match(Restrict(pool, DOMAIN pool \ more), gone \cup more, p)
<1>1. /\ DOMAIN Restrict(pool, DOMAIN pool \ more) = DOMAIN pool \ more
      /\ \A c \in DOMAIN pool \ more : Restrict(pool, DOMAIN pool \ more)[c] = pool[c]
  BY RestrictValue, DOMAIN pool \ more \subseteq DOMAIN pool
<1> QED
  BY <1>1 DEF Match

(* A pad and its controller are told the same state. *)
LEMMA MatchTold ==
    ASSUME NEW pool, NEW gone, NEW p, NEW s \in DOMAIN p, NEW pad, NEW pool2,
           \A t \in DOMAIN p : t # s => p[t].ctrl # p[s].ctrl,
           Match(pool, gone, p), pad.ctrl = p[s].ctrl,
           DOMAIN pool2 = DOMAIN pool, pool2[pad.ctrl].state = pad.state,
           \A c \in DOMAIN pool : c # pad.ctrl => pool2[c].state = pool[c].state
    PROVE  Match(pool2, gone, [p EXCEPT ![s] = pad])
<1> DEFINE q == [p EXCEPT ![s] = pad]
<1>1. DOMAIN q = DOMAIN p /\ q[s] = pad /\ \A t \in DOMAIN p : t # s => q[t] = p[t]
  OBVIOUS
<1> HIDE DEF q
<1>2. Handles(q) = Handles(p)
  <2>1. \A t \in DOMAIN p : q[t].ctrl = p[t].ctrl
    BY <1>1
  <2> QED
    BY <1>1, <2>1 DEF Handles
<1>3. ASSUME NEW t \in DOMAIN q, q[t].ctrl \in DOMAIN pool2
      PROVE  pool2[q[t].ctrl].state = q[t].state
  <2>1. CASE t = s
    BY <1>1, <2>1
  <2>2. CASE t # s
    BY <1>1, <1>3, <2>2 DEF Match
  <2> QED
    BY <2>1, <2>2
<1>4. Match(pool2, gone, q)
  BY <1>2, <1>3 DEF Match
<1> QED
  BY <1>4 DEF q

-----------------------------------------------------------------------------
(* The initial states. *)

LEMMA InitHolds == ASSUME Init PROVE IInv
<1>1. DOMAIN pads = {} /\ DOMAIN live = {}
  BY DEF Init
<1>2. todo \subseteq Slots
  BY LimitsAssumption DEF Init, Slots
<1>3. TypeOK
  BY <1>1, <1>2, TimesAssumption DEF Init, TypeOK
<1>4. Phases /\ Passes /\ OneInFlight /\ Distinct /\ Sides /\ Leases
  BY <1>1 DEF Init, Phases, Passes, OneInFlight, Distinct, Handles, Sides, Leases
<1> QED
  BY <1>3, <1>4 DEF IInv

-----------------------------------------------------------------------------
(* The steps of the client. *)

Stages == {"plugging", "running", "failed", "neutral", "unplug", "over", "hung", "dead"}

(* A step that moves the output thread or its pass on, and nothing else. *)
LEMMA StageStep ==
    ASSUME IInv, UNCHANGED <<pads, issued, conn, call, left, wire, hostside, silence>>,
           stage' \in Stages, todo' \subseteq Slots, Passes'
    PROVE  IInv'
<1> USE DEF hostside
<1>1. TypeOK'
  BY DEF IInv, TypeOK, Stages
<1>2. Phases' /\ Distinct' /\ Leases'
  BY DEF IInv, Phases, Distinct, Handles, Leases
<1>3. OneInFlight'
  BY DEF IInv, OneInFlight, IsRequest, Sent, Answered, Answers, Idle, HostGone
<1>4. Taken' = Taken /\ Answered' = Answered /\ Sound' = Sound /\ Given' = Given
  BY DEF Taken, Answered, IsRequest, Sound, Given
<1>5. Sides'
  BY <1>4 DEF IInv, Sides, Match, Handles
<1> QED
  BY <1>1, <1>2, <1>3, <1>5 DEF IInv

(* A request that fits the pads goes out. *)
LEMMA RequestStep ==
    ASSUME IInv, NEW kind \in Requests, NEW s \in Slots \cup {0}, NEW ctrl \in Ids \cup {0},
           NEW state \in States, NEW deadline \in 0 .. Patience,
           call = Nothing, Request(kind, s, ctrl, state, deadline), UNCHANGED <<stage, todo>>,
           kind = "create" => stage = "plugging" /\ s \in todo /\ state = Neutral,
           kind \in {"submit", "destroy"} => s \in DOMAIN pads /\ ctrl = pads[s].ctrl
    PROVE  IInv'
<1> USE DEF hostside
<1>1. /\ wire' \in Frames /\ wire' # Nothing /\ wire'.kind = kind /\ wire'.ctrl = ctrl
      /\ wire'.state = state
  BY FrameTyped DEF Request
<1>2. call' \in Calls /\ call' # Nothing /\ call'.kind = kind /\ call'.slot = s /\ call'.state = state
  BY CallTyped DEF Request
<1>3. conn = "open" /\ wire = Nothing /\ Idle /\ UNCHANGED <<pads, issued, conn, hostside, silence>>
  BY DEF Request, IInv, OneInFlight
<1>4. TypeOK'
  BY <1>1, <1>2, <1>3 DEF IInv, TypeOK, Request
<1>5. Phases' /\ Distinct' /\ Leases'
  BY <1>1, <1>2, <1>3 DEF IInv, Phases, Distinct, Handles, Leases, Requests
<1>6. Passes'
  BY <1>2, <1>3 DEF IInv, Passes
<1>7. s \in todo => s \in Slots
  BY DEF IInv, TypeOK
<1>8. OneInFlight'
  BY <1>1, <1>2, <1>3, <1>7 DEF IInv, Passes, OneInFlight, IsRequest, Sent, Idle
<1>9. ~Answered /\ Given = {} /\ ~Answered' /\ Given' = {}
  BY <1>1, <1>3 DEF Answered, IsRequest, Given, Requests
<1>10. Sides'
  BY <1>3, <1>9 DEF IInv, Sides, Match, Handles
<1> QED
  BY <1>4, <1>5, <1>6, <1>8, <1>10 DEF IInv

(* The conversation is closed for good: whatever the two sides owe each other is off. *)
LEMMA CloseStep ==
    ASSUME IInv, conn # "none", conn' = "closed", call' = Nothing,
           UNCHANGED <<pads, issued, left, hostside, silence>>, wire' \in {wire, Nothing},
           stage' \in Stages, todo' \subseteq Slots, Passes'
    PROVE  IInv'
<1> USE DEF hostside
<1>1. TypeOK'
  BY DEF IInv, TypeOK, Stages
<1>2. Phases' /\ Distinct' /\ Leases'
  BY DEF IInv, Phases, Distinct, Handles, Leases
<1>3. OneInFlight' /\ Sides'
  BY DEF OneInFlight, Sides
<1> QED
  BY <1>1, <1>2, <1>3 DEF IInv

LEMMA PoisonStep ==
    ASSUME IInv, Runs, conn = "open", Poisoned,
           call # Nothing \/ stage = "running",
           UNCHANGED <<hostside, silence>>, wire' \in {wire, Nothing}
    PROVE  IInv'
<1>1. stage' \in Stages /\ todo' \subseteq Slots
  BY DEF IInv, TypeOK, Poisoned, Stages
<1>2. conn' = "closed" /\ call' = Nothing /\ UNCHANGED <<pads, issued, left>>
  BY DEF Poisoned
<1>3. Passes'
  BY <1>2 DEF IInv, Passes, Poisoned, TypeOK
<1> QED
  BY <1>1, <1>2, <1>3, CloseStep

(* The request in flight is the one the answer is for. *)
LEMMA AnswerFits ==
    ASSUME IInv, call # Nothing, Answered
    PROVE  /\ conn = "open" /\ Answers(wire) /\ Idle
           /\ wire.kind \in {"fault", "bye", "created", "applied", "destroyed"}
<1>1. conn = "open" /\ Answers(wire) /\ Idle
  BY DEF IInv, Phases, OneInFlight, Answered
<1>2. wire \in Frames /\ wire.kind \notin Requests /\ wire.kind # "expire"
  BY DEF IInv, Phases, TypeOK, Answered, IsRequest
<1> QED
  BY <1>1, <1>2 DEF Frames, Requests

(* What an answer that is taken does to the pads. *)
LEMMA TakenPads ==
    ASSUME IInv, call # Nothing, Answered, Sound
    PROVE  /\ DOMAIN Taken \subseteq Slots
           /\ \A s \in DOMAIN Taken : Taken[s] \in [ctrl : Ids, state : States, due : BOOLEAN]
           /\ \A s, t \in DOMAIN Taken : Taken[s].ctrl = Taken[t].ctrl => s = t
           /\ Handles(Taken) \subseteq issued \cup Given
           /\ call.kind = "create" => DOMAIN Taken = DOMAIN pads \cup {call.slot}
           /\ call.kind = "submit" => DOMAIN Taken = DOMAIN pads
           /\ call.kind = "destroy" => DOMAIN Taken = DOMAIN pads \ {call.slot}
<1>1. Answers(wire) /\ wire.kind \in {"bye", "created", "applied", "destroyed"}
  BY AnswerFits DEF Sound
<1>2. CASE wire.kind = "created"
  <2>1. /\ call.kind = "create" /\ call.slot \in Slots /\ wire.ctrl \in Ids
        /\ wire.ctrl \notin issued /\ Given = {wire.ctrl}
    BY <1>1, <1>2 DEF Answers, Sound, Given, Answered
  <2> DEFINE pad == [ctrl |-> wire.ctrl, state |-> Neutral, due |-> FALSE]
  <2>2. Taken = Put(pads, call.slot, pad)
    BY <2>1 DEF Taken
  <2>3. pad \in [ctrl : Ids, state : States, due : BOOLEAN] /\ pad.ctrl = wire.ctrl
    BY <2>1, StatesAssumption
  <2> HIDE DEF pad
  <2>4. /\ DOMAIN Taken = DOMAIN pads \cup {call.slot}
        /\ Taken[call.slot] = pad
        /\ \A y \in DOMAIN pads \ {call.slot} : Taken[y] = pads[y]
    BY <2>2 DEF Put
  <2>5. ASSUME NEW s \in DOMAIN Taken
        PROVE  Taken[s] \in [ctrl : Ids, state : States, due : BOOLEAN]
    <3>1. CASE s = call.slot
      BY <2>3, <2>4, <3>1
    <3>2. CASE s # call.slot
      <4>1. s \in DOMAIN pads /\ Taken[s] = pads[s]
        BY <2>4, <3>2
      <4> QED
        BY <4>1 DEF IInv, TypeOK
    <3> QED
      BY <3>1, <3>2
  <2>6. \A s \in DOMAIN pads : pads[s].ctrl # wire.ctrl
    BY <2>1 DEF IInv, Distinct, Handles
  <2>7. \A s, t \in DOMAIN Taken : Taken[s].ctrl = Taken[t].ctrl => s = t
    <3> SUFFICES ASSUME NEW s \in DOMAIN Taken, NEW t \in DOMAIN Taken,
                        Taken[s].ctrl = Taken[t].ctrl
                 PROVE  s = t
      OBVIOUS
    <3>1. CASE s = call.slot \/ t = call.slot
      BY <2>3, <2>4, <2>6, <3>1
    <3>2. CASE s # call.slot /\ t # call.slot
      BY <2>4, <3>2 DEF IInv, Distinct
    <3> QED
      BY <3>1, <3>2
  <2>8. Handles(Taken) \subseteq issued \cup Given
    <3> SUFFICES ASSUME NEW s \in DOMAIN Taken PROVE Taken[s].ctrl \in issued \cup Given
      BY DEF Handles
    <3>1. CASE s = call.slot
      BY <2>1, <2>3, <2>4, <3>1
    <3>2. CASE s # call.slot
      BY <2>4, <3>2 DEF IInv, Distinct, Handles
    <3> QED
      BY <3>1, <3>2
  <2> QED
    BY <2>1, <2>4, <2>5, <2>7, <2>8 DEF IInv, TypeOK
<1>3. CASE wire.kind = "applied"
  <2>1. call.kind = "submit" /\ call.slot \in DOMAIN pads /\ call.state \in States
    BY <1>1, <1>3 DEF Answers, IInv, TypeOK, Calls
  <2>2. Taken = [pads EXCEPT ![call.slot] = [@ EXCEPT !.state = call.state, !.due = FALSE]]
    BY <2>1 DEF Taken
  <2>3. /\ DOMAIN Taken = DOMAIN pads
        /\ \A s \in DOMAIN pads : /\ Taken[s].ctrl = pads[s].ctrl
                                  /\ Taken[s] \in [ctrl : Ids, state : States, due : BOOLEAN]
    BY <2>1, <2>2 DEF IInv, TypeOK
  <2> QED
    BY <2>1, <2>3 DEF IInv, TypeOK, Distinct, Handles
<1>4. CASE wire.kind = "destroyed"
  <2>1. call.kind = "destroy" /\ Taken = Restrict(pads, DOMAIN pads \ {call.slot})
    BY <1>1, <1>4 DEF Answers, Taken
  <2>2. /\ DOMAIN Taken = DOMAIN pads \ {call.slot}
        /\ \A y \in DOMAIN Taken : Taken[y] = pads[y]
    BY <2>1, RestrictValue, DOMAIN pads \ {call.slot} \subseteq DOMAIN pads
  <2>3. DOMAIN Taken \subseteq DOMAIN pads /\ Handles(Taken) \subseteq Handles(pads)
    BY <2>2 DEF Handles
  <2>4. /\ \A s \in DOMAIN Taken : Taken[s] \in [ctrl : Ids, state : States, due : BOOLEAN]
        /\ \A s, t \in DOMAIN Taken : Taken[s].ctrl = Taken[t].ctrl => s = t
    BY <2>2, <2>3 DEF IInv, TypeOK, Distinct
  <2> QED
    BY <2>1, <2>2, <2>3, <2>4 DEF IInv, TypeOK, Distinct
<1>5. CASE wire.kind = "bye"
  <2>1. call.kind = "shutdown" /\ Taken = <<>>
    BY <1>1, <1>5 DEF Answers, Taken
  <2>2. DOMAIN Taken = {}
    BY <2>1
  <2> QED
    BY <2>1, <2>2 DEF Handles
<1> QED
  BY <1>1, <1>2, <1>3, <1>4, <1>5

LEMMA AcceptStep ==
    ASSUME IInv, Runs, call # Nothing, Answered, Sound, wire' = Nothing, Accept,
           UNCHANGED <<hostside, silence>>
    PROVE  IInv'
<1> USE DEF hostside
<1>1. /\ conn = "open" /\ Answers(wire) /\ Idle
      /\ wire.kind \in {"bye", "created", "applied", "destroyed"}
  BY AnswerFits DEF Sound
<1>2. call' = Nothing /\ pads' = Taken /\ wire' = Nothing
  BY DEF Accept
<1>3. issued' = issued \cup Given
  BY <1>1 DEF Accept, Given, Answers, Answered
<1>4. TypeOK'
  <2>1. stage' \in Stages /\ todo' \subseteq Slots /\ conn' \in {"open", "closed"} /\ left' = left
    BY <1>1 DEF Accept, IInv, TypeOK, Stages
  <2>2. issued' \subseteq Ids
    BY <1>1, <1>3 DEF IInv, TypeOK, Given, Answers
  <2> QED
    BY <1>2, <2>1, <2>2, TakenPads DEF IInv, TypeOK, Stages
<1>5. Phases' /\ Leases'
  BY <1>1, <1>2 DEF IInv, Phases, Leases, Accept
<1>6. Passes'
  <2>1. call.kind \in Requests
    BY DEF IInv, TypeOK, Calls
  <2> QED
    BY <1>2, <2>1, TakenPads DEF IInv, Passes, Accept, Requests
<1>7. OneInFlight'
  BY <1>1, <1>2 DEF OneInFlight, Idle
<1>8. Distinct'
  BY <1>2, <1>3, TakenPads DEF Distinct, Handles
<1>9. Sides'
  <2>1. Given' = {} /\ ~Answered'
    BY <1>2 DEF Given, Answered
  <2> QED
    BY <1>1, <1>2, <1>3, <2>1 DEF IInv, Sides, Match, Handles
<1> QED
  BY <1>4, <1>5, <1>6, <1>7, <1>8, <1>9 DEF IInv

LEMMA TakeStep == ASSUME IInv, Take PROVE IInv'
<1>1. conn = "open"
  BY AnswerFits DEF Take
<1> QED
  BY <1>1, AcceptStep, PoisonStep DEF Take

(* The passes of the output thread, one request per slot. *)
LEMMA PlugStep == ASSUME IInv, Plug PROVE IInv'
<1>1. CASE Cardinality(DOMAIN pads) >= Limit
  <2>1. /\ stage' = "unplug" /\ todo' = DOMAIN pads /\ UNCHANGED <<pads, call>> /\ call = Nothing
        /\ UNCHANGED <<pads, issued, conn, call, left, wire, hostside, silence>>
    BY <1>1 DEF Plug, Free
  <2>2. stage' \in Stages /\ todo' \subseteq Slots /\ Passes'
    BY <2>1 DEF IInv, TypeOK, Stages, Passes
  <2> QED
    BY <2>1, <2>2, StageStep
<1>2. CASE ~(Cardinality(DOMAIN pads) >= Limit)
  <2>1. PICK s \in Lowest(todo) : Request("create", s, 0, Neutral, Patience)
    BY <1>2 DEF Plug
  <2>2. s \in todo /\ s \in Slots
    BY DEF Lowest, IInv, TypeOK
  <2>3. call = Nothing /\ stage = "plugging" /\ UNCHANGED <<stage, todo>>
    BY <1>2 DEF Plug, Free
  <2>4. "create" \in Requests /\ Patience \in 0 .. Patience
    BY TimesAssumption DEF Requests
  <2> QED
    BY <2>1, <2>2, <2>3, <2>4, StatesAssumption, RequestStep
<1> QED
  BY <1>1, <1>2

LEMMA PadFits ==
    ASSUME IInv, NEW s \in DOMAIN pads
    PROVE  s \in Slots /\ pads[s].ctrl \in Ids /\ pads[s].state \in States
BY DEF IInv, TypeOK

LEMMA SubmitStep ==
    ASSUME IInv, NEW s \in DOMAIN pads, NEW state \in States,
           call = Nothing, Submit(s, state), UNCHANGED <<stage, todo>>
    PROVE  IInv'
<1>1. "submit" \in Requests /\ 0 \in 0 .. Patience
  BY TimesAssumption DEF Requests
<1>2. Request("submit", s, pads[s].ctrl, state, 0)
  BY DEF Submit
<1> QED
  BY <1>1, <1>2, PadFits, RequestStep

LEMMA RenewStep == ASSUME IInv, Renew PROVE IInv'
<1>1. PICK s \in Lowest(todo) : Submit(s, pads[s].state)
  BY DEF Renew
<1>2. s \in DOMAIN pads /\ call = Nothing /\ UNCHANGED <<stage, todo>>
  BY DEF Renew, Lowest, IInv, Passes, Free
<1> QED
  BY <1>1, <1>2, PadFits, SubmitStep

LEMMA NeutraliseStep == ASSUME IInv, Neutralise PROVE IInv'
<1>1. PICK s \in Lowest(todo) : Submit(s, Neutral)
  BY DEF Neutralise
<1>2. s \in DOMAIN pads /\ call = Nothing /\ UNCHANGED <<stage, todo>>
  BY DEF Neutralise, Lowest, IInv, Passes, Free
<1> QED
  BY <1>1, <1>2, StatesAssumption, SubmitStep

LEMMA UnplugStep == ASSUME IInv, Unplug PROVE IInv'
<1>1. PICK s \in Lowest(todo) : Request("destroy", s, pads[s].ctrl, Neutral, Patience)
  BY DEF Unplug
<1>2. s \in DOMAIN pads /\ call = Nothing /\ UNCHANGED <<stage, todo>>
  BY DEF Unplug, Lowest, IInv, Passes, Free
<1>3. "destroy" \in Requests /\ Patience \in 0 .. Patience
  BY TimesAssumption DEF Requests
<1> QED
  BY <1>1, <1>2, <1>3, PadFits, StatesAssumption, RequestStep

LEMMA DropStep == ASSUME IInv, Drop PROVE IInv'
<1>1. CASE conn = "open"
  <2>1. Request("shutdown", 0, 0, Neutral, Patience) /\ call = Nothing /\ UNCHANGED <<stage, todo>>
    BY <1>1 DEF Drop, Free
  <2>2. "shutdown" \in Requests /\ Patience \in 0 .. Patience
    BY TimesAssumption DEF Requests
  <2> QED
    BY <2>1, <2>2, StatesAssumption, RequestStep
<1>2. CASE conn # "open"
  <2>1. /\ stage' = "over" /\ call = Nothing
        /\ UNCHANGED <<todo, pads, issued, conn, call, left, wire, hostside, silence>>
    BY <1>2 DEF Drop, Free
  <2>2. stage' \in Stages /\ todo' \subseteq Slots /\ Passes'
    BY <2>1 DEF IInv, TypeOK, Stages, Passes
  <2> QED
    BY <2>1, <2>2, StageStep
<1> QED
  BY <1>1, <1>2

LEMMA ConnectStep == ASSUME IInv, Connect PROVE IInv'
<1> USE DEF hostside
<1>1. CASE conn' = "open" /\ host' = "serving" /\ UNCHANGED <<stage, todo>>
  <2>1. /\ call = Nothing /\ job = Nothing /\ wire = Nothing /\ DOMAIN pads = {} /\ DOMAIN live = {}
        /\ lapsed = {} /\ issued = {}
        /\ UNCHANGED <<pads, issued, call, left, wire, job, live, devices, lapsed, silence>>
    BY DEF Connect, Free, IInv, Phases
  <2>2. TypeOK' /\ Phases' /\ Passes' /\ OneInFlight' /\ Distinct' /\ Leases'
    BY <1>1, <2>1 DEF IInv, TypeOK, Phases, Passes, OneInFlight, Idle, Distinct, Handles, Leases
  <2>3. Sides'
    BY <1>1, <2>1 DEF Sides, Answered, Match, Handles
  <2> QED
    BY <2>2, <2>3 DEF IInv
<1>2. CASE stage' = "unplug" /\ todo' = {} /\ UNCHANGED <<conn, host>>
  <2>1. /\ UNCHANGED <<pads, issued, conn, call, left, wire, hostside, silence>>
        /\ stage' \in Stages /\ todo' \subseteq Slots /\ Passes'
    BY <1>2 DEF Connect, Free, Stages, Passes
  <2> QED
    BY <2>1, StageStep
<1> QED
  BY <1>1, <1>2 DEF Connect

(* Every other step of the client moves it on, or closes the conversation. *)
LEMMA MoveStep ==
    ASSUME IInv, PadsReady \/ Service \/ Stop \/ BeginUnplug \/ Skip \/ Hang
    PROVE  IInv'
<1>1. UNCHANGED <<pads, issued, conn, call, left, wire, hostside, silence>>
  BY DEF PadsReady, Service, Stop, BeginUnplug, Skip, Hang
<1>2. stage' \in Stages /\ todo' \subseteq Slots
  BY DEF IInv, TypeOK, Stages, PadsReady, Service, Stop, BeginUnplug, Skip, Hang
<1>3. Passes'
  BY <1>1 DEF IInv, Passes, Free, Runs, PadsReady, Service, Stop, BeginUnplug, Skip, Hang
<1> QED
  BY <1>1, <1>2, <1>3, StageStep

LEMMA FailStep == ASSUME IInv, Timeout \/ Broken \/ Die PROVE IInv'
<1>1. CASE Timeout \/ Broken
  <2>1. /\ Runs /\ conn = "open" /\ Poisoned /\ UNCHANGED <<hostside, silence>> /\ wire' = wire
        /\ call # Nothing \/ stage = "running"
    BY <1>1 DEF Timeout, Broken, IInv, Phases
  <2> QED
    BY <2>1, PoisonStep
<1>2. CASE Die
  <2>1. stage' \in Stages /\ todo' \subseteq Slots /\ Passes'
    BY <1>2 DEF Die, Stages, IInv, TypeOK, Passes
  <2> QED
    BY <1>2, <2>1, CloseStep DEF Die
<1> QED
  BY <1>1, <1>2

-----------------------------------------------------------------------------
(* The steps of the host. *)

(* A request is read: the host has it, and the client is not silent. *)
LEMMA ReadStep == ASSUME IInv, Read PROVE IInv'
<1> USE DEF client
<1>1. /\ wire # Nothing /\ wire \in Frames /\ wire.kind \in Requests /\ ~Answered /\ Given = {}
      /\ job' = wire /\ wire' = Nothing /\ host' = "busy" /\ silence' = 0
      /\ UNCHANGED <<client, live, devices, lapsed>> /\ host = "serving" /\ IsRequest(wire)
  BY DEF Read, IsRequest, Answered, Given, IInv, TypeOK, Requests
<1>2. TypeOK'
  BY <1>1, TimesAssumption DEF IInv, TypeOK
<1>3. Phases' /\ Passes' /\ Distinct' /\ Leases'
  BY <1>1 DEF IInv, Phases, Passes, Distinct, Handles, Leases, Runs
<1>4. OneInFlight'
  BY <1>1 DEF IInv, OneInFlight, Sent, Requests, Answered, HostGone
<1>5. ~Answered' /\ Given' = {}
  BY <1>1 DEF Answered, Given
<1>6. Sides'
  BY <1>1, <1>5 DEF IInv, Sides, Match, Handles
<1> QED
  BY <1>2, <1>3, <1>4, <1>6 DEF IInv

(* While the host is busy with a request, the client that waits for it waits *)
(* for that one.                                                             *)
LEMMA JobSent ==
    ASSUME IInv, host = "busy", job.kind \in Requests, conn = "open"
    PROVE  /\ call # Nothing /\ wire = Nothing /\ Sent(job) /\ Given = {}
           /\ DOMAIN live \cup lapsed \subseteq issued /\ Match(live, lapsed, pads)
<1>1. job # Nothing /\ job.kind # "expire"
  BY DEF IInv, Phases, Requests
<1>2. call # Nothing /\ wire = Nothing /\ Sent(job)
  BY <1>1 DEF IInv, OneInFlight, Idle
<1>3. ~Answered /\ Given = {}
  BY <1>2 DEF Answered, Given
<1> QED
  BY <1>2, <1>3 DEF IInv, Sides

Replies == {"created", "applied", "destroyed", "bye", "fault"}

(* A reply keeps the invariant if it fits the request in flight and the pool *)
(* it leaves is that of the pads once it is taken.                           *)
LEMMA ReplyStep ==
    ASSUME IInv, NEW kind \in Replies, NEW ctrl \in Ids \cup {0}, NEW pool,
           host = "busy", job.kind \in Requests, Reply(kind, ctrl, pool), devices' \subseteq Ids,
           DOMAIN pool \subseteq Ids,
           \A c \in DOMAIN pool : pool[c] \in [state : States, idle : 0 .. Lease],
           conn = "open" =>
              /\ kind = "bye" => call.kind = "shutdown"
              /\ kind = "created" => call.kind = "create" /\ call.slot \in Slots /\ ctrl \in Ids
              /\ kind = "applied" => call.kind = "submit" /\ call.slot \in DOMAIN pads
              /\ kind = "destroyed" => call.kind = "destroy" /\ call.slot \in DOMAIN pads,
           conn = "open" /\ kind \notin {"fault", "bye"} =>
              /\ DOMAIN pool \cup lapsed \subseteq issued \cup Given'
              /\ Sound' => Match(pool, lapsed, Taken')
    PROVE  IInv'
<1> USE DEF client
<1>1. /\ job' = Nothing /\ host' \in {"ending", "serving"} /\ UNCHANGED <<client, lapsed, silence>>
      /\ kind \in {"fault", "bye"} => host' = "ending"
      /\ live' = Restarted(pool)
  BY DEF Reply
<1>2. /\ Frame(kind, ctrl, Neutral) \in Frames /\ Frame(kind, ctrl, Neutral) # Nothing
      /\ Frame(kind, ctrl, Neutral).kind = kind /\ Frame(kind, ctrl, Neutral).ctrl = ctrl
  <2>1. kind \in Requests \cup {"created", "applied", "destroyed", "bye", "fault", "expire"}
    BY DEF Replies
  <2> QED
    BY <2>1, StatesAssumption, NothingAssumption DEF Frame, Frames
<1>3. conn = "open" => wire' # Nothing /\ wire'.kind = kind /\ wire'.ctrl = ctrl
  BY <1>2 DEF Reply
<1>4. wire' \in Frames \cup {Nothing} /\ (wire' # Nothing => wire'.kind # "expire")
  BY <1>2 DEF Reply, IInv, TypeOK, Phases, Replies
<1>5. /\ DOMAIN live' = DOMAIN pool
      /\ \A c \in DOMAIN pool : /\ live'[c] \in [state : States, idle : 0 .. Lease]
                               /\ live'[c].idle = 0 /\ live'[c].state = pool[c].state
  BY <1>1, TimesAssumption DEF Restarted
<1>6. TypeOK'
  BY <1>1, <1>4, <1>5 DEF IInv, TypeOK
<1>7. conn \in {"open", "closed"}
  BY DEF IInv, TypeOK, Phases
<1>8. Phases'
  BY <1>1, <1>4, <1>7 DEF IInv, Phases
<1>9. silence \in 0 .. Lease
  BY DEF IInv, TypeOK
<1>10. Passes' /\ Distinct' /\ Leases'
  BY <1>1, <1>5, <1>9 DEF IInv, Passes, Distinct, Handles, Leases, Runs
<1>11. conn = "open" => call # Nothing
  BY JobSent
<1>12. conn = "open" => Answered'
  BY <1>3 DEF Answered, IsRequest, Replies, Requests
<1>13. OneInFlight'
  BY <1>1, <1>3, <1>11, <1>12 DEF OneInFlight, Answers, Idle, Replies
<1>14. Sides'
  <2> SUFFICES ASSUME conn' = "open", host' \in {"serving", "busy"}
               PROVE  /\ DOMAIN live' \cup lapsed' \subseteq issued' \cup Given'
                      /\ Sound' => Match(live', lapsed', Taken')
    BY <1>1, <1>12 DEF Sides
  <2>1. conn = "open" /\ kind \notin {"fault", "bye"}
    BY <1>1
  <2>2. DOMAIN live' \cup lapsed' \subseteq issued' \cup Given'
    BY <1>1, <1>5, <2>1
  <2>3. ASSUME Match(pool, lapsed, Taken') PROVE Match(live', lapsed', Taken')
    BY <1>1, <1>5, <2>3 DEF Match
  <2> QED
    BY <2>1, <2>2, <2>3
<1> QED
  BY <1>6, <1>8, <1>10, <1>13, <1>14 DEF IInv

LEMMA CreateStep == ASSUME IInv, Create PROVE IInv'
<1>1. PICK id \in NextId :
          /\ Reply("created", id, Put(live, id, [state |-> Neutral, idle |-> 0]))
          /\ devices' = devices \cup {id}
  BY DEF Create
<1> DEFINE fresh == [state |-> Neutral, idle |-> 0]
           pool == Put(live, id, fresh)
<1>2. id \in Ids \ DOMAIN live
  BY DEF NextId, Lowest
<1>3. /\ DOMAIN pool = DOMAIN live \cup {id} /\ pool[id] = fresh
      /\ \A c \in DOMAIN live : pool[c] = live[c]
  BY <1>2 DEF Put
<1>4. fresh \in [state : States, idle : 0 .. Lease] /\ fresh.state = Neutral
  BY StatesAssumption, TimesAssumption
<1>5. DOMAIN pool \subseteq Ids
  BY <1>2, <1>3 DEF IInv, TypeOK
<1>6. ASSUME NEW c \in DOMAIN pool PROVE pool[c] \in [state : States, idle : 0 .. Lease]
  <2>1. CASE c = id
    BY <1>3, <1>4, <2>1
  <2>2. CASE c # id
    BY <1>3, <2>2 DEF IInv, TypeOK
  <2> QED
    BY <2>1, <2>2
<1>7. host = "busy" /\ job.kind = "create" /\ job.kind \in Requests
  BY DEF Create, Requests
<1>8. ASSUME conn = "open"
      PROVE  /\ call.kind = "create" /\ call.slot \in Slots
             /\ DOMAIN pool \cup lapsed \subseteq issued \cup Given'
             /\ Sound' => Match(pool, lapsed, Taken')
  <2>1. /\ call # Nothing /\ Sent(job) /\ DOMAIN live \cup lapsed \subseteq issued
        /\ Match(live, lapsed, pads)
    BY <1>7, <1>8, JobSent
  <2>2. call.kind = "create" /\ call.slot \in Slots \ DOMAIN pads
    BY <1>7, <2>1 DEF Sent
  <2>3. UNCHANGED <<call, pads, issued, conn>> /\ wire' = Frame("created", id, Neutral)
    BY <1>1, <1>8 DEF Reply, client
  <2>4. wire' # Nothing /\ wire'.kind = "created" /\ wire'.ctrl = id
    BY <1>2, <2>3, StatesAssumption, NothingAssumption DEF Frame, Frames
  <2>5. Given' = {id}
    BY <2>4 DEF Given
  <2>6. DOMAIN pool \cup lapsed \subseteq issued \cup Given'
    BY <1>3, <2>1, <2>5
  <2>7. ASSUME Sound' PROVE Match(pool, lapsed, Taken')
    <3> DEFINE pad == [ctrl |-> id, state |-> Neutral, due |-> FALSE]
    <3>1. id \notin issued /\ id \notin lapsed
      BY <2>1, <2>3, <2>4, <2>7 DEF Sound
    <3>2. Taken' = Put(pads, call.slot, pad)
      BY <2>2, <2>3, <2>4 DEF Taken
    <3>3. pad.ctrl = id /\ pad.state = Neutral
      OBVIOUS
    <3> HIDE DEF pad, pool, fresh
    <3>4. /\ DOMAIN Taken' = DOMAIN pads \cup {call.slot} /\ Taken'[call.slot] = pad
          /\ \A s \in DOMAIN pads : Taken'[s] = pads[s]
      BY <2>2, <3>2 DEF Put
    <3>5. Handles(Taken') = Handles(pads) \cup {id}
      BY <3>3, <3>4 DEF Handles
    <3>6. DOMAIN pool = Handles(Taken') \ lapsed
      BY <1>3, <2>1, <3>1, <3>5 DEF Match
    <3>7. ASSUME NEW s \in DOMAIN Taken', Taken'[s].ctrl \in DOMAIN pool
          PROVE  pool[Taken'[s].ctrl].state = Taken'[s].state
      <4>1. CASE s = call.slot
        BY <1>3, <1>4, <3>3, <3>4, <4>1
      <4>2. CASE s # call.slot
        <5>1. s \in DOMAIN pads /\ Taken'[s] = pads[s]
          BY <3>4, <4>2
        <5>2. pads[s].ctrl # id
          BY <3>1, <5>1 DEF IInv, Distinct, Handles
        <5>3. pads[s].ctrl \in DOMAIN live
          BY <1>3, <3>7, <5>1, <5>2
        <5> QED
          BY <1>3, <2>1, <5>1, <5>3 DEF Match
      <4> QED
        BY <4>1, <4>2
    <3> QED
      BY <3>6, <3>7 DEF Match
  <2> QED
    BY <2>2, <2>6, <2>7
<1>9. devices' \subseteq Ids
  BY <1>1, <1>2 DEF IInv, TypeOK
<1>10. "created" \in Replies /\ Reply("created", id, pool)
  BY <1>1 DEF Replies
<1> HIDE DEF pool
<1> QED
  BY <1>2, <1>5, <1>6, <1>7, <1>8, <1>9, <1>10, ReplyStep

LEMMA ApplyStep == ASSUME IInv, Apply PROVE IInv'
<1>0. PICK pool : pool = [live EXCEPT ![job.ctrl].state = job.state]
  OBVIOUS
<1>1. /\ host = "busy" /\ job.kind = "submit" /\ job.kind \in Requests /\ job.ctrl \in DOMAIN live
      /\ Reply("applied", job.ctrl, pool) /\ devices' = devices
  BY <1>0 DEF Apply, Requests
<1>2. job.state \in States /\ job.ctrl \in Ids
  BY <1>1, NothingAssumption DEF IInv, TypeOK, Phases, Frames
<1>3. DOMAIN pool = DOMAIN live
  BY <1>0
<1>7. ASSUME NEW c \in DOMAIN pool
      PROVE  /\ pool[c] \in [state : States, idle : 0 .. Lease]
             /\ c = job.ctrl => pool[c].state = job.state
             /\ c # job.ctrl => pool[c].state = live[c].state
  <2>1. live[c] \in [state : States, idle : 0 .. Lease]
    BY <1>3 DEF IInv, TypeOK
  <2> QED
    BY <1>0, <1>1, <1>2, <1>3, <2>1
<1>4. devices' \subseteq Ids /\ DOMAIN pool \subseteq Ids
  BY <1>1, <1>3 DEF IInv, TypeOK
<1>5. ASSUME conn = "open"
      PROVE  /\ call.kind = "submit" /\ call.slot \in DOMAIN pads
             /\ DOMAIN pool \cup lapsed \subseteq issued \cup Given'
             /\ Sound' => Match(pool, lapsed, Taken')
  <2>1. /\ call # Nothing /\ Sent(job) /\ DOMAIN live \cup lapsed \subseteq issued
        /\ Match(live, lapsed, pads)
    BY <1>1, <1>5, JobSent
  <2>2. /\ call.kind = "submit" /\ call.slot \in DOMAIN pads /\ job.ctrl = pads[call.slot].ctrl
        /\ job.state = call.state
    BY <1>1, <2>1 DEF Sent
  <2>3. UNCHANGED <<call, pads>>
    BY <1>1 DEF Reply, client
  <2> DEFINE pad == [pads[call.slot] EXCEPT !.state = call.state, !.due = FALSE]
  <2>4. Taken' = [pads EXCEPT ![call.slot] = pad]
    BY <2>2, <2>3 DEF Taken
  <2>5. pad.ctrl = job.ctrl /\ pad.state = job.state
    <3>1. pads[call.slot] \in [ctrl : Ids, state : States, due : BOOLEAN]
      BY <2>2 DEF IInv, TypeOK
    <3> QED
      BY <2>2, <3>1
  <2>6. \A s \in DOMAIN pads : s # call.slot => pads[s].ctrl # pads[call.slot].ctrl
    BY <2>2 DEF IInv, Distinct
  <2> HIDE DEF pad
  <2>7. /\ pad.ctrl = pads[call.slot].ctrl /\ DOMAIN pool = DOMAIN live
        /\ pool[pad.ctrl].state = pad.state
        /\ \A c \in DOMAIN live : c # pad.ctrl => pool[c].state = live[c].state
    BY <1>1, <1>3, <1>7, <2>2, <2>5
  <2>8. Match(pool, lapsed, [pads EXCEPT ![call.slot] = pad])
    BY <2>1, <2>2, <2>6, <2>7, MatchTold
  <2> QED
    BY <1>3, <2>1, <2>2, <2>4, <2>8
<1>6. "applied" \in Replies /\ job.ctrl \in Ids \cup {0}
  BY <1>2 DEF Replies
<1> QED
  BY <1>1, <1>4, <1>5, <1>6, <1>7, ReplyStep

LEMMA DestroyStep == ASSUME IInv, Destroy PROVE IInv'
<1> DEFINE pool == Restrict(live, DOMAIN live \ {job.ctrl})
<1>1. /\ host = "busy" /\ job.kind = "destroy" /\ job.kind \in Requests /\ job.ctrl \in DOMAIN live
      /\ Reply("destroyed", job.ctrl, pool) /\ devices' = devices \ {job.ctrl}
  BY DEF Destroy, Requests
<1>2. /\ DOMAIN pool = DOMAIN live \ {job.ctrl}
      /\ \A c \in DOMAIN pool : pool[c] = live[c]
  BY RestrictValue, DOMAIN live \ {job.ctrl} \subseteq DOMAIN live
<1> HIDE DEF pool
<1>3. /\ devices' \subseteq Ids /\ DOMAIN pool \subseteq Ids /\ job.ctrl \in Ids
      /\ \A c \in DOMAIN pool : pool[c] \in [state : States, idle : 0 .. Lease]
  BY <1>1, <1>2 DEF IInv, TypeOK
<1>4. ASSUME conn = "open"
      PROVE  /\ call.kind = "destroy" /\ call.slot \in DOMAIN pads
             /\ DOMAIN pool \cup lapsed \subseteq issued \cup Given'
             /\ Sound' => Match(pool, lapsed, Taken')
  <2>1. /\ call # Nothing /\ Sent(job) /\ DOMAIN live \cup lapsed \subseteq issued
        /\ Match(live, lapsed, pads)
    BY <1>1, <1>4, JobSent
  <2>2. call.kind = "destroy" /\ call.slot \in DOMAIN pads /\ job.ctrl = pads[call.slot].ctrl
    BY <1>1, <2>1 DEF Sent
  <2>3. UNCHANGED <<call, pads>>
    BY <1>1 DEF Reply, client
  <2>4. Taken' = Restrict(pads, DOMAIN pads \ {call.slot})
    BY <2>2, <2>3 DEF Taken
  <2>5. /\ DOMAIN Taken' = DOMAIN pads \ {call.slot}
        /\ \A s \in DOMAIN Taken' : Taken'[s] = pads[s]
    BY <2>4, RestrictValue, DOMAIN pads \ {call.slot} \subseteq DOMAIN pads
  <2>6. \A s \in DOMAIN Taken' : pads[s].ctrl # job.ctrl
    BY <2>2, <2>5 DEF IInv, Distinct
  <2>7. Handles(Taken') = Handles(pads) \ {job.ctrl}
    BY <2>2, <2>5, <2>6 DEF Handles
  <2>8. Match(pool, lapsed, Taken')
    BY <1>2, <2>1, <2>5, <2>6, <2>7 DEF Match
  <2> QED
    BY <1>2, <2>1, <2>2, <2>8
<1>5. "destroyed" \in Replies
  BY DEF Replies
<1> QED
  BY <1>1, <1>3, <1>4, <1>5, ReplyStep

LEMMA ShutdownStep == ASSUME IInv, Shutdown PROVE IInv'
<1>1. /\ host = "busy" /\ job.kind = "shutdown" /\ job.kind \in Requests
      /\ Reply("bye", 0, <<>>) /\ devices' \subseteq Ids /\ "bye" \in Replies
  BY DEF Shutdown, Requests, Replies
<1>2. DOMAIN <<>> = {}
  OBVIOUS
<1>3. conn = "open" => call.kind = "shutdown"
  BY <1>1, JobSent DEF Sent
<1> QED
  BY <1>1, <1>2, <1>3, ReplyStep

LEMMA RefuseStep == ASSUME IInv, Refuse PROVE IInv'
<1>1. PICK pool : /\ pool = live \/ pool = Restrict(live, DOMAIN live \ {job.ctrl})
                  /\ Reply("fault", 0, pool)
  BY DEF Refuse
<1>2. host = "busy" /\ job.kind \in Requests /\ "fault" \in Replies
  BY DEF Refuse, Requests, Replies
<1>3. NextId \subseteq Ids
  BY DEF NextId, Lowest
<1>4. devices' \subseteq Ids
  BY <1>3 DEF Refuse, IInv, TypeOK
<1>5. /\ DOMAIN pool \subseteq DOMAIN live
      /\ \A c \in DOMAIN pool : pool[c] = live[c]
  BY <1>1, RestrictValue, DOMAIN live \ {job.ctrl} \subseteq DOMAIN live
<1>6. /\ DOMAIN pool \subseteq Ids
      /\ \A c \in DOMAIN pool : pool[c] \in [state : States, idle : 0 .. Lease]
  BY <1>5 DEF IInv, TypeOK
<1> QED
  BY <1>1, <1>2, <1>4, <1>6, ReplyStep

(* Leases that have run out: the pads are gone from the pool, and their *)
(* controllers are lapsed.                                              *)
LEMMA ExpireStep == ASSUME IInv, NEW gone \in SUBSET DOMAIN live, Expire(gone) PROVE IInv'
<1> USE DEF client
<1>1. PICK pool : pool = Restrict(live, DOMAIN live \ gone)
  OBVIOUS
<1>2. /\ host = "serving" /\ host' = "busy" /\ live' = pool /\ lapsed' = lapsed \cup gone
      /\ job' = Frame("expire", 0, Neutral) /\ UNCHANGED <<client, wire, devices, silence>>
  BY <1>1 DEF Expire
<1>3. /\ DOMAIN pool = DOMAIN live \ gone
      /\ \A c \in DOMAIN pool : pool[c] = live[c]
  BY <1>1, RestrictValue, DOMAIN live \ gone \subseteq DOMAIN live
<1>4. job' \in Frames /\ job' # Nothing /\ job'.kind = "expire"
  BY <1>2, NothingAssumption, StatesAssumption DEF Frame, Frames
<1>5. job = Nothing
  BY <1>2 DEF IInv, Phases
<1>6. \A c \in DOMAIN pool : pool[c] \in [state : States, idle : 0 .. Lease]
  BY <1>3 DEF IInv, TypeOK
<1>7. TypeOK'
  BY <1>2, <1>3, <1>4, <1>6 DEF IInv, TypeOK
<1>8. Phases' /\ Passes' /\ Distinct' /\ Leases'
  BY <1>2, <1>3, <1>4 DEF IInv, Phases, Passes, Runs, Distinct, Handles, Leases
<1>9. OneInFlight'
  BY <1>2, <1>4, <1>5 DEF IInv, OneInFlight, Idle, IsRequest, Sent, Answered, Answers, HostGone
<1>10. Given' = Given /\ Answered' = Answered /\ Sound' = Sound /\ Taken' = Taken
  BY <1>2 DEF Given, Answered, IsRequest, Sound, Taken
<1>11. Sides'
  <2> SUFFICES ASSUME conn = "open"
               PROVE  /\ DOMAIN pool \cup (lapsed \cup gone) \subseteq issued \cup Given
                      /\ ~Answered => Match(pool, lapsed \cup gone, pads)
                      /\ Answered /\ Sound => Match(pool, lapsed \cup gone, Taken)
    BY <1>2, <1>10 DEF Sides
  <2>1. /\ DOMAIN live \cup lapsed \subseteq issued \cup Given
        /\ ~Answered => Match(live, lapsed, pads)
        /\ Answered /\ Sound => Match(live, lapsed, Taken)
    BY <1>2 DEF IInv, Sides
  <2>2. DOMAIN pool \cup (lapsed \cup gone) \subseteq issued \cup Given
    BY <1>3, <2>1
  <2> QED
    BY <1>1, <2>1, <2>2, MatchWithout
<1> QED
  BY <1>7, <1>8, <1>9, <1>11 DEF IInv

(* The expired pads are gone from Windows too, or the session ends. *)
LEMMA ExpiredStep == ASSUME IInv, Expired PROVE IInv'
<1> USE DEF client
<1>1. /\ host = "busy" /\ job.kind = "expire" /\ job' = Nothing /\ live' = Restarted(live)
      /\ host' \in {"serving", "ending"} /\ UNCHANGED <<client, wire, lapsed, silence>>
      /\ devices' = DOMAIN live \/ devices' = devices
  BY DEF Expired
<1>2. job # Nothing /\ Idle /\ ~(job # Nothing /\ job.kind # "expire") /\ ~HostGone
  BY <1>1 DEF IInv, Phases, Idle, HostGone
<1>3. \A c \in DOMAIN live : live[c] \in [state : States, idle : 0 .. Lease]
  BY DEF IInv, TypeOK
<1>4. /\ DOMAIN live' = DOMAIN live
      /\ \A c \in DOMAIN live : /\ live'[c] \in [state : States, idle : 0 .. Lease]
                               /\ live'[c].idle = 0 /\ live'[c].state = live[c].state
  BY <1>1, <1>3, TimesAssumption DEF Restarted
<1>5. TypeOK'
  BY <1>1, <1>4 DEF IInv, TypeOK
<1>6. Phases' /\ Passes' /\ Distinct'
  BY <1>1, <1>2 DEF IInv, Phases, Passes, Runs, Distinct, Handles
<1>7. Leases'
  BY <1>1, <1>4 DEF IInv, TypeOK, Leases
<1>8. OneInFlight'
  BY <1>1, <1>2 DEF IInv, OneInFlight, Idle, IsRequest, Sent, Answered, Answers, HostGone
<1>9. Given' = Given /\ Answered' = Answered /\ Sound' = Sound /\ Taken' = Taken
  BY <1>1 DEF Given, Answered, IsRequest, Sound, Taken
<1>10. ASSUME NEW p, Match(live, lapsed, p) PROVE Match(live', lapsed, p)
  BY <1>4, <1>10 DEF Match
<1>11. Sides'
  <2> SUFFICES ASSUME conn = "open"
               PROVE  /\ DOMAIN live' \cup lapsed \subseteq issued \cup Given
                      /\ ~Answered => Match(live', lapsed, pads)
                      /\ Answered /\ Sound => Match(live', lapsed, Taken)
    BY <1>1, <1>9 DEF Sides
  <2>1. /\ DOMAIN live \cup lapsed \subseteq issued \cup Given
        /\ ~Answered => Match(live, lapsed, pads)
        /\ Answered /\ Sound => Match(live, lapsed, Taken)
    BY <1>1 DEF IInv, Sides
  <2> QED
    BY <1>4, <1>10, <2>1
<1> QED
  BY <1>5, <1>6, <1>7, <1>8, <1>11 DEF IInv

(* A host that ends or is killed owes nothing any more. *)
LEMMA EndStep == ASSUME IInv, EndOfFile \/ Republish \/ Dispose \/ Killed PROVE IInv'
<1> USE DEF client
<1>1. /\ host' \in {"ending", "gone", "killed"} /\ UNCHANGED <<client, lapsed, silence>>
      /\ live' = live \/ live' = <<>>
      /\ devices' \in {devices, {}}
  BY DEF EndOfFile, Republish, Dispose, Killed
<1>2. /\ host # "none" /\ job' = Nothing
      /\ wire' = wire \/ wire' = Nothing
      /\ ~IsRequest(wire) => wire' = wire
  BY DEF EndOfFile, Republish, Dispose, Killed, IInv, Phases
<1>3. DOMAIN <<>> = {}
  OBVIOUS
<1>4. TypeOK'
  BY <1>1, <1>2, <1>3 DEF IInv, TypeOK
<1>5. Phases' /\ Passes' /\ Distinct' /\ Leases'
  BY <1>1, <1>2 DEF IInv, Phases, Passes, Runs, Distinct, Handles, Leases
<1>6. Sides'
  BY <1>1 DEF Sides
<1>7. OneInFlight'
  <2> SUFFICES ASSUME conn = "open" PROVE OneInFlight'
    BY <1>1 DEF OneInFlight
  <2>1. CASE EndOfFile
    BY <2>1 DEF EndOfFile
  <2>2. CASE Republish
    BY <1>2, <2>2 DEF Republish, IInv, Phases, OneInFlight, Idle, IsRequest, Sent, Answered, Answers, HostGone
  <2>3. CASE Dispose
    BY <1>1, <1>2, <2>3 DEF Dispose, IInv, Phases, OneInFlight, Idle, IsRequest, Sent, Answered, Answers, HostGone
  <2>4. CASE Killed
    BY <1>1, <1>2, <2>4 DEF Killed, IInv, Phases, OneInFlight, Idle, IsRequest, Sent, Answered, Answers, HostGone
  <2> QED
    BY <2>1, <2>2, <2>3, <2>4
<1> QED
  BY <1>4, <1>5, <1>6, <1>7 DEF IInv

-----------------------------------------------------------------------------
(* Time. *)

(* A unit makes leases older and pads due, and changes nothing the two sides agree on. *)
LEMMA TickStep == ASSUME IInv, Tick PROVE IInv'
<1>1. /\ live' = [c \in DOMAIN live |-> [live[c] EXCEPT !.idle = Up(@)]]
      /\ pads' = [s \in DOMAIN pads |-> [pads[s] EXCEPT !.due = TRUE]]
      /\ left' = IF left > 0 THEN left - 1 ELSE 0
      /\ silence' = IF Runs /\ call # Nothing /\ ~Answered THEN 0 ELSE Up(silence)
      /\ UNCHANGED <<stage, todo, issued, conn, call, wire, host, job, devices, lapsed>>
  BY DEF Tick
<1>2. ASSUME NEW c \in DOMAIN live
      PROVE  /\ live[c].idle \in 0 .. Lease /\ live'[c].state = live[c].state
             /\ live'[c].idle = Up(live[c].idle)
             /\ live'[c] \in [state : States, idle : 0 .. Lease]
  <2>1. live[c] \in [state : States, idle : 0 .. Lease]
    BY DEF IInv, TypeOK
  <2> QED
    BY <1>1, <2>1, TimesAssumption DEF Up
<1>3. ASSUME NEW s \in DOMAIN pads
      PROVE  /\ pads'[s].ctrl = pads[s].ctrl /\ pads'[s].state = pads[s].state
             /\ pads'[s] \in [ctrl : Ids, state : States, due : BOOLEAN]
  <2>1. pads[s] \in [ctrl : Ids, state : States, due : BOOLEAN]
    BY DEF IInv, TypeOK
  <2> QED
    BY <1>1, <2>1
<1>4. DOMAIN live' = DOMAIN live /\ DOMAIN pads' = DOMAIN pads
  BY <1>1
<1>5. silence \in 0 .. Lease /\ left \in 0 .. Patience
  BY DEF IInv, TypeOK
<1>6. silence' \in 0 .. Lease /\ left' \in 0 .. Patience
  BY <1>1, <1>5, TimesAssumption DEF Up
<1>7. TypeOK'
  BY <1>1, <1>2, <1>3, <1>4, <1>6 DEF IInv, TypeOK
<1>8. Phases' /\ Passes'
  BY <1>1, <1>4 DEF IInv, Phases, Passes, Runs
<1>9. Handles(pads') = Handles(pads)
  BY <1>3, <1>4 DEF Handles
<1>10. Distinct'
  BY <1>1, <1>3, <1>4, <1>9 DEF IInv, Distinct
<1>11. OneInFlight'
  BY <1>1, <1>3, <1>4 DEF IInv, OneInFlight, Idle, IsRequest, Sent, Answered, Answers, HostGone
<1>12. Leases'
  <2> SUFFICES ASSUME host = "serving", NEW c \in DOMAIN live
               PROVE  live'[c].idle <= silence'
    BY <1>1, <1>4 DEF Leases
  <2>1. ~IsRequest(wire) /\ conn = "open"
    BY DEF Tick, IInv, TypeOK, Phases
  <2>2. ~(Runs /\ call # Nothing /\ ~Answered)
    BY <2>1 DEF IInv, Phases, OneInFlight, Answered, HostGone
  <2>3. live[c].idle <= silence
    BY DEF IInv, Leases
  <2> QED
    BY <1>1, <1>2, <1>5, <2>2, <2>3, TimesAssumption DEF Up
<1>13. Given' = Given /\ Answered' = Answered /\ Sound' = Sound
  BY <1>1 DEF Given, Answered, IsRequest, Sound
<1>14. ASSUME conn = "open", Answered, Sound
       PROVE  /\ DOMAIN Taken' = DOMAIN Taken
              /\ \A s \in DOMAIN Taken : /\ Taken'[s].ctrl = Taken[s].ctrl
                                       /\ Taken'[s].state = Taken[s].state
  <2>1. call # Nothing /\ Answers(wire) /\ wire.kind \in {"bye", "created", "applied", "destroyed"}
    <3>1. call # Nothing
      BY <1>14 DEF IInv, OneInFlight, Answered
    <3> QED
      BY <1>14, <3>1, AnswerFits DEF Sound
  <2>2. UNCHANGED <<call, wire>>
    BY <1>1
  <2>3. CASE wire.kind = "created"
    <3> DEFINE pad == [ctrl |-> wire.ctrl, state |-> Neutral, due |-> FALSE]
    <3>1. Taken = Put(pads, call.slot, pad) /\ Taken' = Put(pads', call.slot, pad)
      BY <2>1, <2>2, <2>3 DEF Answers, Taken
    <3> HIDE DEF pad
    <3> QED
      BY <1>3, <1>4, <3>1 DEF Put
  <2>4. CASE wire.kind = "applied"
    <3>1. call.kind = "submit" /\ call.slot \in DOMAIN pads
      BY <2>1, <2>4 DEF Answers
    <3>2. PICK told, told2 :
             /\ told = [pads[call.slot] EXCEPT !.state = call.state, !.due = FALSE]
             /\ told2 = [pads'[call.slot] EXCEPT !.state = call.state, !.due = FALSE]
      OBVIOUS
    <3>3. Taken = [pads EXCEPT ![call.slot] = told] /\ Taken' = [pads' EXCEPT ![call.slot] = told2]
      BY <2>2, <3>1, <3>2 DEF Taken
    <3>4. pads[call.slot] \in [ctrl : Ids, state : States, due : BOOLEAN]
      BY <3>1 DEF IInv, TypeOK
    <3>5. told.ctrl = told2.ctrl /\ told.state = told2.state
      BY <1>3, <3>1, <3>2, <3>4
    <3> QED
      BY <1>3, <1>4, <3>1, <3>3, <3>5
  <2>5. CASE wire.kind = "destroyed"
    <3>1. /\ Taken = Restrict(pads, DOMAIN pads \ {call.slot})
          /\ Taken' = Restrict(pads', DOMAIN pads' \ {call.slot})
      BY <2>1, <2>2, <2>5 DEF Answers, Taken
    <3> QED
      BY <1>3, <1>4, <3>1 DEF Restrict
  <2>6. CASE wire.kind = "bye"
    <3>1. Taken = <<>> /\ Taken' = <<>>
      BY <2>1, <2>2, <2>6 DEF Answers, Taken
    <3> QED
      BY <3>1
  <2> QED
    BY <2>1, <2>3, <2>4, <2>5, <2>6
<1>15. ASSUME NEW p, NEW q, DOMAIN p = DOMAIN q, Match(live, lapsed, p),
              \A s \in DOMAIN p : p[s].ctrl = q[s].ctrl /\ p[s].state = q[s].state
       PROVE  Match(live', lapsed, q)
  BY <1>2, <1>4, <1>15, MatchSame
<1>16. Sides'
  <2> SUFFICES ASSUME conn = "open", host \in {"serving", "busy"}
               PROVE  /\ DOMAIN live \cup lapsed \subseteq issued \cup Given
                      /\ ~Answered => Match(live', lapsed, pads')
                      /\ Answered /\ Sound => Match(live', lapsed, Taken')
    BY <1>1, <1>4, <1>13 DEF Sides
  <2>1. /\ DOMAIN live \cup lapsed \subseteq issued \cup Given
        /\ ~Answered => Match(live, lapsed, pads)
        /\ Answered /\ Sound => Match(live, lapsed, Taken)
    BY DEF IInv, Sides
  <2>2. ASSUME ~Answered PROVE Match(live', lapsed, pads')
    BY <1>3, <1>4, <1>15, <2>1, <2>2
  <2>3. ASSUME Answered, Sound PROVE Match(live', lapsed, Taken')
    BY <1>14, <1>15, <2>1, <2>3
  <2> QED
    BY <2>1, <2>2, <2>3
<1> QED
  BY <1>7, <1>8, <1>10, <1>11, <1>12, <1>16 DEF IInv

-----------------------------------------------------------------------------
(* The theorems. *)

LEMMA NextStep == ASSUME IInv, [Next]_vars PROVE IInv'
<1>1. CASE Connect \/ Plug \/ Renew \/ Neutralise \/ Unplug \/ Drop \/ Take
  BY <1>1, ConnectStep, PlugStep, RenewStep, NeutraliseStep, UnplugStep, DropStep, TakeStep
<1>2. CASE PadsReady \/ Service \/ Stop \/ BeginUnplug \/ Skip \/ Hang
  BY <1>2, MoveStep
<1>3. CASE Timeout \/ Broken \/ Die
  BY <1>3, FailStep
<1>4. ASSUME NEW s \in Slots, NEW state \in States, Update(s, state) PROVE IInv'
  <2>1. /\ s \in DOMAIN pads /\ call = Nothing /\ Submit(s, state) /\ UNCHANGED <<stage, todo>>
    BY <1>4 DEF Update, Free
  <2> QED
    BY <2>1, SubmitStep
<1>5. CASE Read \/ Create \/ Apply \/ Destroy \/ Shutdown \/ Refuse \/ Expired
  BY <1>5, ReadStep, CreateStep, ApplyStep, DestroyStep, ShutdownStep, RefuseStep, ExpiredStep
<1>6. ASSUME NEW gone \in SUBSET DOMAIN live, Expire(gone) PROVE IInv'
  BY <1>6, ExpireStep
<1>7. CASE EndOfFile \/ Republish \/ Dispose \/ Killed
  BY <1>7, EndStep
<1>8. CASE Tick
  BY <1>8, TickStep
<1>9. CASE UNCHANGED vars
  <2>1. UNCHANGED <<pads, issued, conn, call, left, wire, hostside, silence>> /\ UNCHANGED <<stage, todo>>
    BY <1>9 DEF vars, hostside
  <2>2. stage' \in Stages /\ todo' \subseteq Slots /\ Passes'
    BY <2>1 DEF IInv, TypeOK, Stages, Passes, Runs
  <2> QED
    BY <2>1, <2>2, StageStep
<1> QED
  BY <1>1, <1>2, <1>3, <1>4, <1>5, <1>6, <1>7, <1>8, <1>9 DEF Next, Client, Host

(* The invariant the two theorems below rest on: one request is in flight at   *)
(* most, its frame is in one place, and the host's pool is that of the client's *)
(* pads once the answer under way is taken.                                     *)
THEOREM Inductive == Spec => []IInv
<1>1. Init => IInv
  BY InitHolds
<1>2. IInv /\ [Next]_vars => IInv'
  BY NextStep
<1> QED
  BY <1>1, <1>2, PTL DEF Spec

(* Every state is well-typed, and between two requests of an open conversation  *)
(* the client's pads and the host's live controllers agree (HostClient::create  *)
(* refuses an id it has seen; without that the handles could share one).        *)
THEOREM TwoSidesAgree == Spec => []Agreement
<1>1. ASSUME IInv PROVE Agreement
  <2>1. TypeOK
    BY <1>1 DEF IInv
  <2>2. ASSUME conn = "open", call = Nothing, host \in {"serving", "busy"}
        PROVE  /\ \A s, t \in DOMAIN pads : pads[s].ctrl = pads[t].ctrl => s = t
               /\ Match(live, lapsed, pads)
    <3>1. wire = Nothing
      BY <1>1, <2>2 DEF IInv, OneInFlight
    <3> QED
      BY <1>1, <2>2, <3>1 DEF IInv, Distinct, Sides, Answered
  <2>3. PadsMatchHandles
    BY <2>2 DEF PadsMatchHandles, Match, Handles
  <2> QED
    BY <2>1, <2>3 DEF Agreement
<1> QED
  BY <1>1, Inductive, PTL

(* A lease runs out only if the client was silent for all of it: the host restarts *)
(* every lease when it has answered (RestartLeaseClocks), and from then on each unit *)
(* that makes a lease older is one in which the client had nothing in flight.        *)
THEOREM LeasesNeedSilence == Spec => OnlySilenceCostsAPad
<1>1. ASSUME IInv, [Next]_vars PROVE [lapsed' # lapsed => silence >= Lease]_vars
  <2> SUFFICES ASSUME Next, lapsed' # lapsed PROVE silence >= Lease
    BY <1>1 DEF vars
  <2>1. PICK gone \in SUBSET DOMAIN live : Expire(gone)
    BY DEF Next, Client, Host, Connect, Plug, PadsReady, Service, Renew, Neutralise, BeginUnplug,
           Unplug, Skip, Drop, Take, Timeout, Broken, Read, Create, Apply, Destroy, Shutdown, Refuse,
           Expired, EndOfFile, Dispose, Tick, Stop, Die, Hang, Republish, Killed, Update, Submit,
           Request, Reply, hostside
  <2>2. PICK c \in gone : live[c].idle >= Lease
    BY <2>1 DEF Expire
  <2>3. live[c].idle <= silence /\ live[c].idle \in 0 .. Lease /\ silence \in 0 .. Lease
    BY <1>1, <2>1, <2>2 DEF Expire, IInv, Leases, TypeOK
  <2> QED
    BY <2>2, <2>3, TimesAssumption
<1> QED
  BY <1>1, Inductive, PTL DEF Spec, OnlySilenceCostsAPad

=============================================================================
