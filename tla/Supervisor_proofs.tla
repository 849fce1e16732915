-------------------------- MODULE Supervisor_proofs --------------------------
(* Proofs about the two modules of the session supervisor: Pipeline, its      *)
(* threads and channels, for any boards, slots, feeds, macros and channel     *)
(* sizes, and Session, what it does with escapes, health and presence, for    *)
(* any boards and bounds.  No theorem speaks of both.                         *)
EXTENDS Pipeline, Session, FiniteSetTheorems, SequenceTheorems, WellFoundedInduction, TLAPS

-----------------------------------------------------------------------------
(* Slots and their states. *)

\* Slots is finite, and there are at least as many as pads plugged.
LEMMA SlotsFinite ==
    \A T \in SUBSET Slots :
       /\ IsFiniteSet(T) /\ Cardinality(T) \in Nat
       /\ Cardinality(T) <= Cardinality(Slots)
       /\ Cardinality(T) = Cardinality(Slots) => T = Slots
  BY PipelineAssumption, FS_Subset, FS_CardinalityType

\* A pad state is made of boards and the macro.
LEMMA StateOfType ==
    ASSUME NEW h \in SUBSET Devices, NEW p \in SUBSET Slots
    PROVE  StateOf(h, p) \in [Slots -> States]
  BY DEF StateOf, States

\* What one pad is sent is a message.
LEMMA MsgType ==
    ASSUME NEW s \in Slots, NEW v \in [Slots -> States]
    PROVE  [slot |-> s, state |-> v[s]] \in OutMsg
  BY DEF OutMsg

-----------------------------------------------------------------------------
(* DeltaTx keeps the newest state of every slot. *)

\* x is what arrives last for s: on the wire w, or on the pad already.
Newest(w, s, x) ==
    \/ \E i \in DOMAIN w : /\ w[i] = [slot |-> s, state |-> x]
                           /\ \A j \in DOMAIN w : j > i => w[j].slot # s
    \/ (\A i \in DOMAIN w : w[i].slot # s) /\ pad[s] = x

\* link l carries the pad states v.
Carries(l, v) ==
    /\ l \in Links
    /\ \A i \in DOMAIN l.pending : l.pending[i].state = v[l.pending[i].slot]
    /\ \A i, j \in DOMAIN l.pending :
          l.pending[i].slot = l.pending[j].slot => i = j
    /\ \A s \in Slots \ Waiting(l) : Newest(l.wire, s, v[s])

\* A flush moves the first n pending states to the end of the wire.
LEMMA FlushShape ==
    ASSUME NEW l \in Links
    PROVE  /\ Flush(l) \in Links
           /\ \E n \in 0..Len(l.pending) :
                /\ Len(Flush(l).pending) = Len(l.pending) - n
                /\ \A i \in 1..(Len(l.pending) - n) :
                      Flush(l).pending[i] = l.pending[i + n]
                /\ Len(Flush(l).wire) = Len(l.wire) + n
                /\ \A i \in 1..Len(l.wire) : Flush(l).wire[i] = l.wire[i]
                /\ \A i \in 1..n : Flush(l).wire[Len(l.wire) + i] = l.pending[i]
<1> DEFINE room == Capacity - Len(l.wire)
           n == IF room < Len(l.pending) THEN room ELSE Len(l.pending)
           rest == SubSeq(l.pending, n + 1, Len(l.pending))
           sent == SubSeq(l.pending, 1, n)
<1>1. /\ l.pending \in Seq(OutMsg) /\ l.wire \in Seq(OutMsg)
      /\ Len(l.pending) \in Nat /\ Len(l.wire) \in 0..Capacity
  BY DEF Links
<1>2. Flush(l) = [pending |-> rest, wire |-> l.wire \o sent]
  BY DEF Flush
<1>3. n \in 0..Len(l.pending) /\ Len(l.wire) + n <= Capacity
  <2>1. \A a \in Nat, w \in 0..Capacity :
           LET m == IF Capacity - w < a THEN Capacity - w ELSE a
           IN  m \in 0..a /\ w + m <= Capacity
    BY PipelineAssumption
  <2> QED BY <1>1, <2>1
<1> HIDE DEF n
<1>4. /\ rest \in Seq(OutMsg) /\ Len(rest) = Len(l.pending) - n
      /\ \A i \in 1..(Len(l.pending) - n) : rest[i] = l.pending[i + n]
  <2>1. \A i \in (n + 1)..Len(l.pending) : l.pending[i] \in OutMsg
    BY <1>1, <1>3
  <2>2. /\ rest \in Seq(OutMsg)
        /\ Len(rest) = IF n + 1 <= Len(l.pending) THEN Len(l.pending) - (n + 1) + 1 ELSE 0
        /\ \A i \in 1..(Len(l.pending) - (n + 1) + 1) : rest[i] = l.pending[n + 1 + i - 1]
    BY <1>1, <1>3, <2>1, SubSeqProperties
  <2>3. /\ Len(l.pending) - (n + 1) + 1 = Len(l.pending) - n
        /\ ~(n + 1 <= Len(l.pending)) => Len(l.pending) - n = 0
        /\ \A i \in 1..(Len(l.pending) - n) : n + 1 + i - 1 = i + n
    BY <1>1, <1>3
  <2>4. Len(rest) = Len(l.pending) - n
    BY <2>2, <2>3
  <2> HIDE DEF rest
  <2> QED BY <2>2, <2>3, <2>4
<1>5. /\ sent \in Seq(OutMsg) /\ Len(sent) = n
      /\ \A i \in 1..n : sent[i] = l.pending[i]
  <2>1. \A i \in 1..n : l.pending[i] \in OutMsg
    BY <1>1, <1>3
  <2>2. /\ sent \in Seq(OutMsg)
        /\ Len(sent) = IF 1 <= n THEN n - 1 + 1 ELSE 0
        /\ \A i \in 1..(n - 1 + 1) : sent[i] = l.pending[1 + i - 1]
    BY <1>1, <1>3, <2>1, SubSeqProperties
  <2> QED BY <1>1, <1>3, <2>2
<1> HIDE DEF rest, sent
<1>6. /\ l.wire \o sent \in Seq(OutMsg) /\ Len(l.wire \o sent) = Len(l.wire) + n
      /\ \A i \in 1..(Len(l.wire) + n) :
            (l.wire \o sent)[i] = IF i <= Len(l.wire) THEN l.wire[i] ELSE sent[i - Len(l.wire)]
  <2>1. l.wire \in Seq(OutMsg) /\ sent \in Seq(OutMsg)
    BY <1>1, <1>5
  <2>2. /\ l.wire \o sent \in Seq(OutMsg)
        /\ Len(l.wire \o sent) = Len(l.wire) + Len(sent)
        /\ \A i \in 1..(Len(l.wire) + Len(sent)) :
              (l.wire \o sent)[i] = IF i <= Len(l.wire) THEN l.wire[i]
                                    ELSE sent[i - Len(l.wire)]
    BY <2>1, ConcatProperties, SMTT(20)
  <2> QED BY <1>5, <2>2
<1> DEFINE longer == l.wire \o sent
<1> HIDE DEF longer
<1>7. \A i \in 1..Len(l.wire) : longer[i] = l.wire[i]
  BY <1>1, <1>3, <1>6 DEF longer
<1>8. \A i \in 1..n : longer[Len(l.wire) + i] = l.pending[i]
  <2> TAKE i \in 1..n
  <2>1. /\ Len(l.wire) + i \in 1..(Len(l.wire) + n) /\ ~(Len(l.wire) + i <= Len(l.wire))
        /\ Len(l.wire) + i - Len(l.wire) = i
    BY <1>1, <1>3
  <2>2. longer[Len(l.wire) + i] = sent[i]
    BY <1>6, <2>1 DEF longer
  <2> QED BY <1>5, <2>2
<1>9. Flush(l).pending = rest /\ Flush(l).wire = longer
  BY <1>2 DEF longer
<1>10. Flush(l) \in Links
  BY <1>2, <1>3, <1>4, <1>6 DEF Links
<1>11. Len(longer) = Len(l.wire) + n
  BY <1>6 DEF longer
<1> QED BY <1>3, <1>4, <1>7, <1>8, <1>9, <1>10, <1>11

(* The domain of a sequence that a link is made of. *)
LEMMA LinkDomains ==
    ASSUME NEW l \in Links
    PROVE  /\ l.pending \in Seq(OutMsg) /\ l.wire \in Seq(OutMsg)
           /\ Len(l.pending) \in Nat /\ Len(l.wire) \in Nat
           /\ DOMAIN l.pending = 1..Len(l.pending) /\ DOMAIN l.wire = 1..Len(l.wire)
  BY DEF Links

LEMMA FlushCarries ==
    ASSUME NEW v \in [Slots -> States], NEW l, Carries(l, v)
    PROVE  Carries(Flush(l), v)
<1>1. l \in Links /\ Flush(l) \in Links
  BY FlushShape DEF Carries
<1> DEFINE f == Flush(l)
           a == Len(l.wire)
           b == Len(l.pending)
<1>2. PICK n \in 0..b :
         /\ Len(f.pending) = b - n
         /\ \A i \in 1..(b - n) : f.pending[i] = l.pending[i + n]
         /\ Len(f.wire) = a + n
         /\ \A i \in 1..a : f.wire[i] = l.wire[i]
         /\ \A i \in 1..n : f.wire[a + i] = l.pending[i]
  BY <1>1, FlushShape
<1>3. /\ a \in Nat /\ b \in Nat
      /\ DOMAIN l.pending = 1..b /\ DOMAIN l.wire = 1..a
      /\ DOMAIN f.pending = 1..(b - n) /\ DOMAIN f.wire = 1..(a + n)
  BY <1>1, <1>2, LinkDomains
<1>4. f \in Links
  BY <1>1
<1>5. /\ \A i \in 1..b : l.pending[i] \in OutMsg /\ l.pending[i].state = v[l.pending[i].slot]
      /\ \A i, j \in 1..b : l.pending[i].slot = l.pending[j].slot => i = j
      /\ \A s \in Slots \ Waiting(l) : Newest(l.wire, s, v[s])
  <2>1. l.pending \in Seq(OutMsg) /\ Len(l.pending) = b
    BY <1>1, LinkDomains
  <2>2. \A i \in 1..b : l.pending[i] \in OutMsg
    BY <2>1
  <2> QED BY <1>3, <2>2 DEF Carries
<1> HIDE DEF f, a, b
<1>n. n \in Nat /\ n <= b
  BY <1>2, <1>3
<1>d. \A i \in 1..(b - n) : i \in Int /\ i + n \in 1..b
  BY <1>3, <1>n
<1>6. \A i \in DOMAIN f.pending : f.pending[i].state = v[f.pending[i].slot]
  <2> TAKE i \in DOMAIN f.pending
  <2>1. i + n \in 1..b /\ f.pending[i] = l.pending[i + n]
    BY <1>2, <1>3, <1>d
  <2> QED BY <1>5, <2>1
<1>7. \A i, j \in DOMAIN f.pending : f.pending[i].slot = f.pending[j].slot => i = j
  <2> TAKE i, j \in DOMAIN f.pending
  <2> HAVE f.pending[i].slot = f.pending[j].slot
  <2>1. i \in Int /\ i + n \in 1..b /\ f.pending[i] = l.pending[i + n]
    BY <1>2, <1>3, <1>d
  <2>2. j \in Int /\ j + n \in 1..b /\ f.pending[j] = l.pending[j + n]
    BY <1>2, <1>3, <1>d
  <2>3. i + n = j + n
    BY <1>5, <2>1, <2>2
  <2> QED BY <1>n, <2>1, <2>2, <2>3
<1>8. ASSUME NEW s \in Slots \ Waiting(f)
      PROVE  Newest(f.wire, s, v[s])
  <2>1. CASE s \notin Waiting(l)
    <3>1. \A i \in 1..n : f.wire[a + i].slot # s
      <4>1. \A i \in 1..n : i \in 1..b
        BY <1>3, <1>n
      <4>2. \A i \in 1..b : l.pending[i].slot # s
        BY <1>3, <2>1 DEF Waiting
      <4> QED BY <1>2, <4>1, <4>2
    <3>2. \A j \in 1..(a + n) : j > a => f.wire[j].slot # s
      <4> TAKE j \in 1..(a + n)
      <4> HAVE j > a
      <4>1. j - a \in 1..n /\ a + (j - a) = j
        BY <1>2, <1>3
      <4> QED BY <3>1, <4>1
    <3>3. Newest(l.wire, s, v[s])
      BY <1>5, <2>1
    <3>4. CASE \E i \in 1..a : /\ l.wire[i] = [slot |-> s, state |-> v[s]]
                               /\ \A j \in 1..a : j > i => l.wire[j].slot # s
      <4>1. PICK i \in 1..a : /\ l.wire[i] = [slot |-> s, state |-> v[s]]
                              /\ \A j \in 1..a : j > i => l.wire[j].slot # s
        BY <3>4
      <4>2. i \in 1..(a + n) /\ f.wire[i] = [slot |-> s, state |-> v[s]]
        BY <1>2, <1>3, <4>1
      <4>3. \A j \in 1..(a + n) : j > i => f.wire[j].slot # s
        <5> TAKE j \in 1..(a + n)
        <5>1. CASE j \in 1..a
          BY <1>2, <4>1, <5>1
        <5>2. CASE j \notin 1..a
          BY <1>3, <3>2, <5>2
        <5> QED BY <5>1, <5>2
      <4> QED BY <1>3, <4>2, <4>3 DEF Newest
    <3>5. CASE (\A i \in 1..a : l.wire[i].slot # s) /\ pad[s] = v[s]
      <4>1. \A i \in 1..(a + n) : f.wire[i].slot # s
        <5> TAKE i \in 1..(a + n)
        <5>1. CASE i \in 1..a
          BY <1>2, <3>5, <5>1
        <5>2. CASE i \notin 1..a
          BY <1>3, <3>2, <5>2
        <5> QED BY <5>1, <5>2
      <4> QED BY <1>3, <3>5, <4>1 DEF Newest
    <3> QED BY <1>3, <3>3, <3>4, <3>5 DEF Newest
  <2>2. CASE s \in Waiting(l)
    <3>1. PICK k \in 1..b : l.pending[k].slot = s
      BY <1>3, <2>2 DEF Waiting
    <3>2. k \in 1..n
      <4> SUFFICES ASSUME k > n
                   PROVE  FALSE
        BY <1>2, <3>1
      <4>1. k - n \in 1..(b - n) /\ (k - n) + n = k
        BY <1>2, <1>3, <3>1
      <4>2. f.pending[k - n].slot = s
        BY <1>2, <3>1, <4>1
      <4> QED BY <1>3, <4>1, <4>2 DEF Waiting
    <3>3. f.wire[a + k] = [slot |-> s, state |-> v[s]]
      <4>1. l.pending[k] = [slot |-> s, state |-> v[s]]
        BY <1>5, <3>1 DEF OutMsg
      <4> QED BY <1>2, <3>2, <4>1
    <3>4. \A j \in 1..(a + n) : j > a + k => f.wire[j].slot # s
      <4> TAKE j \in 1..(a + n)
      <4> HAVE j > a + k
      <4>1. j - a \in 1..n /\ j - a # k /\ a + (j - a) = j
        BY <1>2, <1>3, <3>2
      <4>2. f.wire[j] = l.pending[j - a] /\ j - a \in 1..b
        BY <1>2, <1>3, <4>1
      <4> QED BY <1>5, <3>1, <4>1, <4>2
    <3>5. a + k \in 1..(a + n)
      BY <1>2, <1>3, <3>2
    <3> QED BY <1>3, <3>3, <3>4, <3>5 DEF Newest
  <2> QED BY <2>1, <2>2
<1>9. Carries(f, v)
  BY <1>4, <1>6, <1>7, <1>8 DEF Carries
<1> QED BY <1>9 DEF f

\* link c is l after m slots q have joined its queue, before the flush to l2
Batch(l, v, w, l2, c, m, q) ==
    /\ l2 = Flush(c)
    /\ c.wire = l.wire /\ Len(c.pending) = Len(l.pending) + m
    /\ \A i \in 1..Len(l.pending) :
          /\ c.pending[i].slot = l.pending[i].slot
          /\ c.pending[i].state =
               IF v[l.pending[i].slot] # w[l.pending[i].slot]
               THEN w[l.pending[i].slot] ELSE l.pending[i].state
    /\ \A i \in 1..m : c.pending[Len(l.pending) + i] =
                         [slot |-> q[i], state |-> w[q[i]]]
    /\ \A i, j \in 1..m : q[i] = q[j] => i = j
    /\ \A i \in 1..m : q[i] \notin Waiting(l)
    /\ \A s \in Slots : v[s] # w[s] /\ s \notin Waiting(l)
                          => \E i \in 1..m : q[i] = s

\* The link before the flush of a send: the slots that wait keep their
\* places, with their newest states, and the rest of the batch follows.
LEMMA BatchShape ==
    ASSUME NEW l \in Links, NEW v \in [Slots -> States], NEW w \in [Slots -> States],
           NEW l2 \in Send(l, v, w), l2 # l \/ v # w
    PROVE  \E m \in Nat : \E c \in Links, q \in [1..m -> Slots] :
             Batch(l, v, w, l2, c, m, q)
<1> DEFINE moved == {s \in Slots : v[s] # w[s]}
           fresh == moved \ Waiting(l)
           m == Cardinality(fresh)
           news(q) == [i \in DOMAIN q |-> [slot |-> q[i], state |-> w[q[i]]]]
<1>1. moved # {}
  <2>1. CASE v # w
    BY <2>1
  <2>2. CASE l2 # l
    BY <2>2 DEF Send
  <2> QED BY <2>1, <2>2
<1>2. PICK q \in Bijection(1..m, fresh) :
         l2 = Flush([wire    |-> l.wire,
                     pending |-> Coalesce(l, moved, w) \o news(q)])
  BY <1>1 DEF Send
<1>3. m \in Nat
  BY SlotsFinite
<1>4. /\ q \in [1..m -> fresh] /\ DOMAIN q = 1..m
      /\ \A i, j \in 1..m : q[i] = q[j] => i = j
      /\ \A s \in fresh : \E i \in 1..m : q[i] = s
  BY <1>2 DEF Bijection, Injection, Surjection, IsInjective
<1> HIDE DEF m
<1>5. /\ l.pending \in Seq(OutMsg) /\ DOMAIN l.pending = 1..Len(l.pending)
      /\ Len(l.pending) \in Nat
      /\ \A i \in 1..Len(l.pending) : l.pending[i] \in OutMsg
  BY LinkDomains
<1> DEFINE co == Coalesce(l, moved, w)
<1>6. \A i \in 1..Len(l.pending) :
         /\ co[i] \in OutMsg /\ co[i].slot = l.pending[i].slot
         /\ co[i].state = IF v[l.pending[i].slot] # w[l.pending[i].slot]
                          THEN w[l.pending[i].slot] ELSE l.pending[i].state
  <2> TAKE i \in 1..Len(l.pending)
  <2>1. l.pending[i].slot \in Slots /\ l.pending[i] \in OutMsg
    BY <1>5 DEF OutMsg
  <2>2. co[i] = IF l.pending[i].slot \in moved
                THEN [l.pending[i] EXCEPT !.state = w[l.pending[i].slot]]
                ELSE l.pending[i]
    BY <1>5 DEF Coalesce
  <2> QED BY <2>1, <2>2 DEF OutMsg
<1>7. co \in Seq(OutMsg) /\ Len(co) = Len(l.pending)
  <2>1. co \in [1..Len(l.pending) -> OutMsg]
    BY <1>5, <1>6 DEF Coalesce
  <2> QED BY <1>5, <2>1
<1>8. /\ news(q) \in Seq(OutMsg) /\ Len(news(q)) = m
      /\ \A i \in 1..m : news(q)[i] = [slot |-> q[i], state |-> w[q[i]]]
  <2>1. news(q) \in [1..m -> OutMsg]
    BY <1>4, MsgType
  <2> QED BY <1>3, <1>4, <2>1
<1> DEFINE nw == news(q)
<1>8n. nw \in Seq(OutMsg) /\ Len(nw) = m
  BY <1>8
<1> HIDE DEF co, nw, news
<1> DEFINE c == [wire |-> l.wire, pending |-> co \o nw]
<1>9. /\ co \o nw \in Seq(OutMsg)
      /\ Len(co \o nw) = Len(l.pending) + m
      /\ \A i \in 1..Len(l.pending) : (co \o nw)[i] = co[i]
      /\ \A i \in 1..m : (co \o nw)[Len(l.pending) + i] = nw[i]
  <2>1. /\ co \o nw \in Seq(OutMsg)
        /\ Len(co \o nw) = Len(co) + Len(nw)
        /\ \A i \in 1..(Len(co) + Len(nw)) :
              (co \o nw)[i] = IF i <= Len(co) THEN co[i] ELSE nw[i - Len(co)]
    BY <1>7, <1>8n, ConcatProperties
  <2>2. \A i \in 1..Len(l.pending) : i \in 1..(Len(l.pending) + m) /\ i <= Len(l.pending)
    BY <1>3, <1>5
  <2>3. \A i \in 1..m : /\ Len(l.pending) + i \in 1..(Len(l.pending) + m)
                        /\ ~(Len(l.pending) + i <= Len(l.pending))
                        /\ Len(l.pending) + i - Len(l.pending) = i
    BY <1>3, <1>5
  <2> QED BY <1>7, <1>8n, <2>1, <2>2, <2>3
<1>10. c \in Links
  BY <1>9 DEF Links
<1>11. l2 = Flush(c)
  BY <1>2 DEF co, nw
<1>12. q \in [1..m -> Slots]
  BY <1>4
<1>13. \A i \in 1..m : q[i] \notin Waiting(l)
  BY <1>4
<1>14. \A s \in Slots : v[s] # w[s] /\ s \notin Waiting(l) => \E i \in 1..m : q[i] = s
  BY <1>4
<1>15. /\ c.wire = l.wire /\ Len(c.pending) = Len(l.pending) + m
       /\ \A i \in 1..Len(l.pending) : c.pending[i] = co[i]
       /\ \A i \in 1..m : c.pending[Len(l.pending) + i] = [slot |-> q[i], state |-> w[q[i]]]
  <2>1. \A i \in 1..m : nw[i] = [slot |-> q[i], state |-> w[q[i]]]
    BY <1>8 DEF nw
  <2> QED BY <1>9, <2>1
<1> HIDE DEF c
<1>16. \A i \in 1..Len(l.pending) :
          /\ c.pending[i].slot = l.pending[i].slot
          /\ c.pending[i].state = IF v[l.pending[i].slot] # w[l.pending[i].slot]
                                  THEN w[l.pending[i].slot] ELSE l.pending[i].state
  BY <1>6, <1>15
<1>17. Batch(l, v, w, l2, c, m, q)
  BY <1>4, <1>11, <1>13, <1>14, <1>15, <1>16 DEF Batch
<1> QED BY <1>3, <1>10, <1>12, <1>17

\* Whatever is sent, the link stays a link.
LEMMA SendLinks ==
    ASSUME NEW l \in Links, NEW v \in [Slots -> States], NEW w \in [Slots -> States],
           NEW l2 \in Send(l, v, w)
    PROVE  l2 \in Links
<1>1. CASE l2 # l \/ v # w
  BY <1>1, BatchShape, FlushShape DEF Batch
<1>2. CASE l2 = l
  BY <1>2
<1> QED BY <1>1, <1>2

\* What a send leaves behind carries the new states.
LEMMA SendCarries ==
    ASSUME NEW l, NEW v \in [Slots -> States], NEW w \in [Slots -> States],
           Carries(l, v), NEW l2 \in Send(l, v, w)
    PROVE  Carries(l2, w)
<1>1. CASE ~(l2 # l \/ v # w)
  BY <1>1
<1>2. CASE l2 # l \/ v # w
  <2>0. l \in Links
    BY DEF Carries
  <2>b. PICK m \in Nat : \E c \in Links, q \in [1..m -> Slots] : Batch(l, v, w, l2, c, m, q)
    BY <1>2, <2>0, BatchShape
  <2>c. PICK c \in Links, q \in [1..m -> Slots] : Batch(l, v, w, l2, c, m, q)
    BY <2>b
  <2>1. /\ l2 = Flush(c)
        /\ c.wire = l.wire /\ Len(c.pending) = Len(l.pending) + m
        /\ \A i \in 1..Len(l.pending) :
              /\ c.pending[i].slot = l.pending[i].slot
              /\ c.pending[i].state =
                   IF v[l.pending[i].slot] # w[l.pending[i].slot]
                   THEN w[l.pending[i].slot] ELSE l.pending[i].state
        /\ \A i \in 1..m : c.pending[Len(l.pending) + i] =
                             [slot |-> q[i], state |-> w[q[i]]]
        /\ \A i, j \in 1..m : q[i] = q[j] => i = j
        /\ \A i \in 1..m : q[i] \notin Waiting(l)
        /\ \A s \in Slots : v[s] # w[s] /\ s \notin Waiting(l)
                              => \E i \in 1..m : q[i] = s
    BY <2>c DEF Batch
  <2> DEFINE b == Len(l.pending)
  <2>2. /\ b \in Nat /\ DOMAIN l.pending = 1..b
        /\ DOMAIN c.pending = 1..(b + m)
    BY <2>0, <2>1, LinkDomains
  <2>3. /\ \A i \in 1..b : l.pending[i].state = v[l.pending[i].slot]
        /\ \A i, j \in 1..b : l.pending[i].slot = l.pending[j].slot => i = j
        /\ \A s \in Slots \ Waiting(l) : Newest(l.wire, s, v[s])
    BY <2>2 DEF Carries
  <2>4. \A i \in 1..b : /\ c.pending[i].slot = l.pending[i].slot
                        /\ c.pending[i].slot \in Waiting(l)
                        /\ c.pending[i].state = w[c.pending[i].slot]
    <3> TAKE i \in 1..b
    <3>1. c.pending[i].slot = l.pending[i].slot /\ l.pending[i].slot \in Waiting(l)
      BY <2>1, <2>2 DEF Waiting
    <3>2. c.pending[i].state = w[l.pending[i].slot]
      BY <2>1, <2>3
    <3> QED BY <3>1, <3>2
  <2>5. \A i \in 1..m : /\ c.pending[b + i].slot = q[i]
                        /\ c.pending[b + i].slot \notin Waiting(l)
                        /\ c.pending[b + i].state = w[c.pending[b + i].slot]
    <3> TAKE i \in 1..m
    <3>1. c.pending[b + i] = [slot |-> q[i], state |-> w[q[i]]]
      BY <2>1
    <3>2. q[i] \notin Waiting(l)
      BY <2>1
    <3> QED BY <3>1, <3>2
  <2>m. m \in Nat
    OBVIOUS
  <2> HIDE DEF b
  <2>6. \A i \in 1..(b + m) : i \in 1..b \/ \E k \in 1..m : i = b + k
    <3> TAKE i \in 1..(b + m)
    <3>1. i \notin 1..b => i - b \in 1..m /\ i = b + (i - b)
      BY <2>2, <2>m
    <3> QED BY <3>1
  <2>7. \A i \in DOMAIN c.pending : c.pending[i].state = w[c.pending[i].slot]
    <3> TAKE i \in DOMAIN c.pending
    <3>1. CASE i \in 1..b
      BY <2>4, <3>1
    <3>2. CASE i \notin 1..b
      <4>1. PICK k \in 1..m : i = b + k
        BY <2>2, <2>6, <3>2
      <4> QED BY <2>5, <4>1
    <3> QED BY <3>1, <3>2
  <2>8. \A i, j \in DOMAIN c.pending : c.pending[i].slot = c.pending[j].slot => i = j
    <3> TAKE i, j \in DOMAIN c.pending
    <3> HAVE c.pending[i].slot = c.pending[j].slot
    <3>1. CASE i \in 1..b /\ j \in 1..b
      <4>1. l.pending[i].slot = l.pending[j].slot
        BY <2>4, <3>1
      <4> QED BY <2>3, <3>1, <4>1
    <3>2. CASE i \in 1..b /\ j \notin 1..b
      <4>1. PICK k \in 1..m : j = b + k
        BY <2>2, <2>6, <3>2
      <4> QED BY <2>4, <2>5, <3>2, <4>1
    <3>4. CASE i \notin 1..b /\ j \in 1..b
      <4>1. PICK k \in 1..m : i = b + k
        BY <2>2, <2>6, <3>4
      <4> QED BY <2>4, <2>5, <3>4, <4>1
    <3>3. CASE i \notin 1..b /\ j \notin 1..b
      <4>1. PICK k \in 1..m : i = b + k
        BY <2>2, <2>6, <3>3
      <4>2. PICK n \in 1..m : j = b + n
        BY <2>2, <2>6, <3>3
      <4> QED BY <2>1, <2>5, <4>1, <4>2
    <3> QED BY <3>1, <3>2, <3>3, <3>4
  <2>9. ASSUME NEW s \in Slots \ Waiting(c)
        PROVE  Newest(c.wire, s, w[s])
    <3>0. \A i \in 1..(b + m) : c.pending[i].slot # s
      BY <2>2 DEF Waiting
    <3>1. s \notin Waiting(l)
      <4>1. \A i \in 1..b : i \in 1..(b + m)
        BY <2>2, <2>m
      <4> QED BY <2>2, <2>4, <3>0, <4>1 DEF Waiting
    <3>2. v[s] = w[s]
      <4>1. \A i \in 1..m : b + i \in 1..(b + m)
        BY <2>2, <2>m
      <4>2. \A i \in 1..m : q[i] # s
        BY <2>5, <3>0, <4>1
      <4> QED BY <2>1, <3>1, <4>2
    <3> QED BY <2>1, <2>3, <3>1, <3>2
  <2>10. Carries(c, w)
    BY <2>7, <2>8, <2>9 DEF Carries
  <2> QED BY <2>1, <2>10, FlushCarries
<1> QED BY <1>1, <1>2

\* The pad takes the oldest state on the wire; the newest ones stay behind it.
LEMMA DeliverCarries ==
    ASSUME NEW v \in [Slots -> States], pad \in [Slots -> States],
           Carries(link, v), link.wire # << >>,
           link' = [link EXCEPT !.wire = Tail(@)],
           pad' = [pad EXCEPT ![Head(link.wire).slot] = Head(link.wire).state]
    PROVE  Carries(link, v)'
<1> DEFINE w == link.wire
           t == Tail(link.wire)
           h == Head(link.wire)
           n == Len(link.wire)
<1>1. link \in Links /\ w \in Seq(OutMsg) /\ n \in Nat /\ DOMAIN w = 1..n /\ n <= Capacity
  BY DEF Carries, Links
<1>2. /\ t \in Seq(OutMsg) /\ Len(t) = n - 1 /\ n > 0 /\ h \in OutMsg /\ h = w[1]
      /\ \A i \in 1..(n - 1) : t[i] = w[i + 1]
  BY <1>1, HeadTailProperties
<1>3. DOMAIN t = 1..(n - 1)
  BY <1>1, <1>2
<1>4. /\ link' = [pending |-> link.pending, wire |-> t]
      /\ link' \in Links /\ link'.pending = link.pending /\ link'.wire = t
  <2>1. link' = [pending |-> link.pending, wire |-> t]
    BY <1>1 DEF Links
  <2>2. Len(t) <= Capacity
    BY <1>1, <1>2, PipelineAssumption
  <2> QED BY <1>1, <1>2, <2>1, <2>2 DEF Links
<1>5. Waiting(link') = Waiting(link)
  BY <1>4 DEF Waiting
<1> HIDE DEF w, t, h, n
<1>6. ASSUME NEW s \in Slots \ Waiting(link)
      PROVE  \/ \E i \in 1..(n - 1) : /\ t[i] = [slot |-> s, state |-> v[s]]
                                      /\ \A j \in 1..(n - 1) : j > i => t[j].slot # s
             \/ (\A i \in 1..(n - 1) : t[i].slot # s) /\ pad'[s] = v[s]
  <2>0. /\ pad' = [pad EXCEPT ![h.slot] = h.state] /\ h.slot \in Slots
    BY <1>2 DEF h, OutMsg
  <2>1. \/ \E i \in 1..n : /\ w[i] = [slot |-> s, state |-> v[s]]
                           /\ \A j \in 1..n : j > i => w[j].slot # s
        \/ (\A i \in 1..n : w[i].slot # s) /\ pad[s] = v[s]
    <3>1. Newest(w, s, v[s])
      BY DEF Carries, w
    <3> QED BY <1>1, <3>1 DEF Newest
  <2>2. \A i \in 1..(n - 1) : i + 1 \in 1..n /\ i + 1 > i /\ i + 1 > 1 /\ i \in Nat
    BY <1>1
  <2>3. 1 \in 1..n
    BY <1>1, <1>2
  <2>4. CASE (\A i \in 1..n : w[i].slot # s) /\ pad[s] = v[s]
    <3>1. h.slot # s
      BY <1>2, <2>3, <2>4
    <3>2. pad'[s] = v[s]
      BY <2>0, <2>4, <3>1
    <3>3. \A i \in 1..(n - 1) : t[i].slot # s
      BY <1>2, <2>2, <2>4
    <3> QED BY <3>2, <3>3
  <2>5. ASSUME NEW i \in 1..n, w[i] = [slot |-> s, state |-> v[s]],
               \A j \in 1..n : j > i => w[j].slot # s
        PROVE  \/ \E k \in 1..(n - 1) : /\ t[k] = [slot |-> s, state |-> v[s]]
                                        /\ \A j \in 1..(n - 1) : j > k => t[j].slot # s
               \/ (\A k \in 1..(n - 1) : t[k].slot # s) /\ pad'[s] = v[s]
    <3>1. CASE i = 1
      <4>1. h = [slot |-> s, state |-> v[s]]
        BY <1>2, <2>5, <3>1
      <4>2. pad'[s] = v[s]
        BY <2>0, <4>1
      <4>3. \A k \in 1..(n - 1) : t[k].slot # s
        BY <1>2, <2>2, <2>5, <3>1
      <4> QED BY <4>2, <4>3
    <3>2. CASE i # 1
      <4>1. i - 1 \in 1..(n - 1) /\ (i - 1) + 1 = i
        BY <1>1, <3>2
      <4>2. t[i - 1] = [slot |-> s, state |-> v[s]]
        BY <1>2, <2>5, <4>1
      <4>3. \A j \in 1..(n - 1) : j > i - 1 => t[j].slot # s
        <5> TAKE j \in 1..(n - 1)
        <5> HAVE j > i - 1
        <5>1. j + 1 \in 1..n /\ j + 1 > i
          BY <1>1
        <5> QED BY <1>2, <2>5, <5>1
      <4> QED BY <4>1, <4>2, <4>3
    <3> QED BY <3>1, <3>2
  <2> QED BY <2>1, <2>4, <2>5
<1>7. ASSUME NEW s \in Slots \ Waiting(link')
      PROVE  Newest(link.wire, s, v[s])'
  <2>1. s \in Slots \ Waiting(link)
    BY <1>5
  <2>2. \/ \E i \in DOMAIN t : /\ t[i] = [slot |-> s, state |-> v[s]]
                              /\ \A j \in DOMAIN t : j > i => t[j].slot # s
        \/ (\A i \in DOMAIN t : t[i].slot # s) /\ pad'[s] = v[s]
    BY <1>3, <1>6, <2>1
  <2> QED BY <1>4, <2>2 DEF Newest
<1>8. /\ \A i \in DOMAIN link'.pending : link'.pending[i].state = v[link'.pending[i].slot]
      /\ \A i, j \in DOMAIN link'.pending :
            link'.pending[i].slot = link'.pending[j].slot => i = j
  BY <1>4 DEF Carries
<1> QED BY <1>4, <1>7, <1>8 DEF Carries, Waiting

-----------------------------------------------------------------------------
(* The inductive invariant. *)

\* the link carries the engine's pad states
Carried ==
    engine = "on" /\ output = "on" => Carries(link, StateOf(held, playing))

\* nothing has happened yet
Quiet ==
    engine = "idle" => /\ held = {} /\ playing = {}
                       /\ link = [pending |-> << >>, wire |-> << >>]
                       /\ \A s \in Slots : pad[s] = Neutral

\* each thread's stage, as the others may rely on it
Stage ==
    /\ output = "plugging" => engine = "idle"
    /\ sup = "starting" => engine = "idle"
    /\ output \in {"on", "failed", "closing"} => plugged = Slots
    /\ output \in {"refused", "done", "dead"} => plugged = {}
    /\ output \in {"unplugging", "done"} => \A s \in Slots \ refused : pad[s] = Neutral
    /\ capture = "on" => /\ sup \in {"running", "stopping"}
                         /\ output \in {"on", "failed", "dead"}
    /\ sup = "done" => output \in {"refused", "done", "dead"}

IInv == TypeOK /\ Carried /\ Quiet /\ Stage

\* What a step of the engine thread that ends it does.
Ends == /\ engine = "on" /\ engine' = "done" /\ keys' = << >> /\ ctl' = << >>
        /\ held' = {} /\ playing' = {} /\ link' \in Links
        /\ UNCHANGED <<capture, back, sup>>

\* What any other step of it does.
Goes == /\ engine = "on" /\ engine' = "on"
        /\ keys' \in Seq([dev : Devices, down : BOOLEAN]) /\ ctl' \in Seq(Commands)
        /\ held' \in SUBSET Devices /\ playing' \in SUBSET Slots /\ link' \in Links
        /\ Carries(link, StateOf(held, playing))
             => Carries(link', StateOf(held', playing'))
        /\ UNCHANGED <<capture, back, sup>>

\* The end of the engine thread.
LEMMA EngineEndsEffect ==
    ASSUME TypeOK, EngineRuns, NEW w \in Seq(OutMsg), Len(w) <= Capacity, EngineEnds(w)
    PROVE  Ends
  BY EmptySeq DEF Ends, EngineRuns, EngineEnds, Links

\* Sending on a link, or ending because its reader is gone.
LEMMA ForwardEffect ==
    ASSUME TypeOK, EngineRuns, NEW h \in SUBSET Devices, NEW p \in SUBSET Slots,
           NEW ks \in Seq([dev : Devices, down : BOOLEAN]), NEW cs \in Seq(Commands),
           NEW l \in Links,
           Carries(link, StateOf(held, playing)) => Carries(l, StateOf(h, p)),
           Forward(l, h, p, ks, cs)
    PROVE  Ends \/ Goes
<1>1. CASE output = "dead" /\ l # link
  <2>1. EngineEnds(<< >>)
    BY <1>1 DEF Forward
  <2>2. << >> \in Seq(OutMsg) /\ Len(<< >>) <= Capacity
    BY PipelineAssumption, EmptySeq
  <2> QED BY <2>1, <2>2, EngineEndsEffect
<1>2. CASE ~(output = "dead" /\ l # link)
  <2>1. UNCHANGED engine /\ keys' = ks /\ ctl' = cs /\ held' = h /\ playing' = p /\ link' = l
    BY <1>2 DEF Forward
  <2> QED BY <2>1 DEF Goes, EngineRuns
<1> QED BY <1>1, <1>2

\* A wake of the engine, whatever it handled.
LEMMA WakeEffect ==
    ASSUME TypeOK, EngineRuns, NEW h \in SUBSET Devices, NEW p \in SUBSET Slots,
           NEW ks \in Seq([dev : Devices, down : BOOLEAN]), NEW cs \in Seq(Commands),
           Wake(h, p, ks, cs)
    PROVE  Ends \/ Goes
<1>1. PICK due \in SUBSET p, l1 \in Send(link, StateOf(held, playing), StateOf(h, p)) :
      \E l2 \in Send(l1, StateOf(h, p), StateOf(h, p \ due)) :
         Forward(l2, h, p \ due, ks, cs)
  BY DEF Wake
<1>2. PICK l2 \in Send(l1, StateOf(h, p), StateOf(h, p \ due)) :
         Forward(l2, h, p \ due, ks, cs)
  BY <1>1
<1>3. /\ link \in Links
      /\ StateOf(held, playing) \in [Slots -> States]
      /\ StateOf(h, p) \in [Slots -> States]
      /\ StateOf(h, p \ due) \in [Slots -> States]
  BY StateOfType DEF TypeOK
<1>4. l1 \in Links /\ l2 \in Links
  BY <1>2, <1>3, SendLinks
<1>5. Carries(link, StateOf(held, playing)) => Carries(l2, StateOf(h, p \ due))
  BY <1>2, <1>3, SendCarries
<1> QED BY <1>2, <1>4, <1>5, ForwardEffect

\* Every step of the engine thread.
LEMMA EngineEffect ==
    ASSUME TypeOK, EngineStep \/ EnginePanics
    PROVE  Ends \/ Goes
<1>0. /\ link \in Links /\ link.wire \in Seq(OutMsg) /\ Len(link.wire) <= Capacity
      /\ held \in SUBSET Devices /\ playing \in SUBSET Slots
      /\ keys \in Seq([dev : Devices, down : BOOLEAN]) /\ ctl \in Seq(Commands)
  BY DEF TypeOK, Links
<1>1. CASE EngineKey
  <2>1. /\ EngineRuns /\ keys # << >> /\ Head(keys) \in [dev : Devices, down : BOOLEAN]
        /\ Tail(keys) \in Seq([dev : Devices, down : BOOLEAN])
    BY <1>0, <1>1, HeadTailProperties DEF EngineKey
  <2>2. Head(keys).dev \in Devices /\ Feeds[Head(keys).dev] \cap MacroSlots \in SUBSET Slots
    BY <2>1, PipelineAssumption
  <2>3. CASE Head(keys).down
    <3> DEFINE p == IF Head(keys).dev \in held THEN playing
                    ELSE playing \cup (Feeds[Head(keys).dev] \cap MacroSlots)
    <3>1. Wake(held \cup {Head(keys).dev}, p, Tail(keys), ctl)
      BY <1>1, <2>3 DEF EngineKey
    <3>2. p \in SUBSET Slots /\ held \cup {Head(keys).dev} \in SUBSET Devices
      BY <1>0, <2>2
    <3> HIDE DEF p
    <3> QED BY <1>0, <2>1, <3>1, <3>2, WakeEffect
  <2>4. CASE ~Head(keys).down
    <3>1. Wake(held \ {Head(keys).dev}, playing, Tail(keys), ctl)
      BY <1>1, <2>4 DEF EngineKey
    <3>2. held \ {Head(keys).dev} \in SUBSET Devices
      BY <1>0
    <3> QED BY <1>0, <2>1, <3>1, <3>2, WakeEffect
  <2> QED BY <2>3, <2>4
<1>2. CASE EngineHangsUp
  BY <1>0, <1>2, EngineEndsEffect DEF EngineHangsUp
<1>3. CASE EngineCommand
  <2>1. /\ EngineRuns /\ ctl # << >> /\ Head(ctl) \in Commands
        /\ Tail(ctl) \in Seq(Commands)
    BY <1>0, <1>3, HeadTailProperties DEF EngineCommand
  <2>2. CASE Head(ctl).op = "release" /\ Release(Head(ctl).dev)
    <3> DEFINE h == held \ {Head(ctl).dev}
               p == playing \ Feeds[Head(ctl).dev]
    <3>1. Wake(h, p, keys, Tail(ctl)) /\ h \in SUBSET Devices /\ p \in SUBSET Slots
      BY <1>0, <2>2 DEF Release
    <3> HIDE DEF h, p
    <3> QED BY <1>0, <2>1, <3>1, WakeEffect
  <2>3. CASE Swap
    <3>1. {} \in SUBSET Devices /\ {} \in SUBSET Slots
      OBVIOUS
    <3> QED BY <1>0, <2>1, <2>3, <3>1, WakeEffect DEF Swap
  <2>4. CASE Cancel
    <3>1. {} \in SUBSET Slots
      OBVIOUS
    <3> QED BY <1>0, <2>1, <2>4, <3>1, WakeEffect DEF Cancel
  <2> QED BY <1>3, <2>2, <2>3, <2>4 DEF EngineCommand
<1>4. CASE EngineStops
  <2>1. PICK l \in Send(link, StateOf(held, playing), StateOf(held, {})) :
           EngineEnds(IF output = "dead" THEN << >> ELSE l.wire)
    BY <1>4 DEF EngineStops
  <2>2. /\ StateOf(held, playing) \in [Slots -> States]
        /\ StateOf(held, {}) \in [Slots -> States]
    BY <1>0, StateOfType
  <2>3. l \in Links
    BY <1>0, <2>2, SendLinks
  <2> DEFINE w == IF output = "dead" THEN << >> ELSE l.wire
  <2>4. << >> \in Seq(OutMsg) /\ Len(<< >>) <= Capacity
    BY PipelineAssumption, EmptySeq
  <2>5. w \in Seq(OutMsg) /\ Len(w) <= Capacity /\ EngineRuns
    BY <1>4, <2>3, <2>4 DEF Links, EngineStops
  <2>6. EngineEnds(w)
    BY <2>1
  <2> HIDE DEF w
  <2> QED BY <2>5, <2>6, EngineEndsEffect
<1>5. CASE EngineIdle
  <2>1. PICK due \in SUBSET playing : Idle(due)
    BY <1>5 DEF EngineIdle
  <2>2. PICK l \in Send(Flush(link), StateOf(held, playing), StateOf(held, playing \ due)) :
           EngineRuns /\ Forward(l, held, playing \ due, keys, ctl)
    BY <2>1 DEF Idle
  <2>3. /\ StateOf(held, playing) \in [Slots -> States]
        /\ StateOf(held, playing \ due) \in [Slots -> States]
        /\ playing \ due \in SUBSET Slots /\ Flush(link) \in Links
    BY <1>0, StateOfType, FlushShape
  <2>4. l \in Links
    BY <2>2, <2>3, SendLinks
  <2>5. Carries(link, StateOf(held, playing)) => Carries(l, StateOf(held, playing \ due))
    BY <2>2, <2>3, FlushCarries, SendCarries
  <2> QED BY <1>0, <2>2, <2>3, <2>4, <2>5, ForwardEffect
<1>6. CASE EnginePanics
  BY <1>0, <1>6, EngineEndsEffect DEF EnginePanics
<1> QED BY <1>1, <1>2, <1>3, <1>4, <1>5, <1>6 DEF EngineStep

-----------------------------------------------------------------------------
(* Every step keeps the invariant. *)

LEMMA InvInit == Init => IInv
<1> SUFFICES ASSUME Init PROVE IInv
  OBVIOUS
<1> USE DEF Init
<1>1. << >> \in Seq([dev : Devices, down : BOOLEAN]) /\ << >> \in Seq(Commands)
  BY EmptySeq
<1>2. link \in Links
  BY PipelineAssumption, EmptySeq DEF Links
<1>3. pad \in [Slots -> States]
  BY DEF States, Neutral
<1>4. TypeOK
  BY <1>1, <1>2, <1>3 DEF TypeOK, Stages, Supervision
<1>5. Carried /\ Quiet /\ Stage
  BY DEF Carried, Quiet, Stage
<1> QED BY <1>4, <1>5 DEF IInv

\* What the other threads see of a step that leaves the link and the pads.
LEMMA CarriedUnchanged ==
    ASSUME Carried, engine' = engine, output' = output,
           UNCHANGED <<held, playing, link, pad>>
    PROVE  Carried'
<1> SUFFICES ASSUME engine' = "on", output' = "on"
             PROVE  Carries(link, StateOf(held, playing))'
  BY DEF Carried
<1>1. Carries(link, StateOf(held, playing))
  BY DEF Carried
<1> QED BY <1>1 DEF Carries, Newest, Waiting, StateOf

LEMMA EngineKeeps == IInv /\ (EngineStep \/ EnginePanics) => IInv'
<1> SUFFICES ASSUME IInv, EngineStep \/ EnginePanics PROVE IInv'
  OBVIOUS
<1>1. TypeOK /\ Carried /\ Quiet /\ Stage /\ (Ends \/ Goes)
  BY EngineEffect DEF IInv
<1>2. UNCHANGED <<capture, output, plugged, pad, refused, sup>>
  BY <1>1 DEF Ends, Goes, back
<1>3. TypeOK'
  <2>1. CASE Ends
    BY <1>1, <1>2, <2>1, EmptySeq DEF TypeOK, Ends
  <2>2. CASE Goes
    BY <1>1, <1>2, <2>2 DEF TypeOK, Goes
  <2> QED BY <1>1, <2>1, <2>2
<1>4. Carried'
  <2>1. CASE Ends
    BY <2>1 DEF Carried, Ends
  <2>2. CASE Goes
    <3> SUFFICES ASSUME output' = "on"
                 PROVE  Carries(link, StateOf(held, playing))'
      BY DEF Carried
    <3>1. Carries(link', StateOf(held', playing'))
      BY <1>1, <1>2, <2>2 DEF Carried, Goes
    <3> QED BY <1>2, <3>1 DEF Carries, Newest, Waiting, StateOf
  <2> QED BY <1>1, <2>1, <2>2
<1>5. Quiet'
  BY <1>1 DEF Quiet, Ends, Goes
<1>6. Stage'
  BY <1>1, <1>2 DEF Stage, Ends, Goes
<1> QED BY <1>3, <1>4, <1>5, <1>6 DEF IInv

LEMMA DeliverKeeps == IInv /\ Deliver => IInv'
<1> SUFFICES ASSUME IInv, Deliver PROVE IInv'
  OBVIOUS
<1>1. TypeOK /\ Carried /\ Quiet /\ Stage
  BY DEF IInv
<1>2. /\ UNCHANGED <<keys, capture, ctl, engine, held, playing, plugged, refused, sup>>
      /\ output \in {"on", "failed"} /\ link.wire # << >>
      /\ link' = [link EXCEPT !.wire = Tail(@)]
      /\ \/ /\ output = "on" /\ output' = "on"
            /\ pad' = [pad EXCEPT ![Head(link.wire).slot] = Head(link.wire).state]
         \/ output' = "failed" /\ pad' = pad
  BY DEF Deliver, front
<1>3. /\ link.wire \in Seq(OutMsg) /\ Tail(link.wire) \in Seq(OutMsg)
      /\ Head(link.wire) \in OutMsg
      /\ Len(link.wire) \in Nat /\ Len(Tail(link.wire)) = Len(link.wire) - 1
      /\ Len(link.wire) <= Capacity
  BY <1>1, <1>2, HeadTailProperties DEF TypeOK, Links
<1>4. link' \in Links
  <2>1. Len(Tail(link.wire)) <= Capacity
    BY <1>3, PipelineAssumption
  <2> QED BY <1>1, <1>2, <1>3, <2>1 DEF TypeOK, Links
<1>5. pad' \in [Slots -> States]
  BY <1>1, <1>2, <1>3 DEF TypeOK, OutMsg
<1>6. TypeOK'
  BY <1>1, <1>2, <1>4, <1>5 DEF TypeOK, Stages
<1>7. Carried'
  <2> SUFFICES ASSUME engine' = "on", output' = "on"
               PROVE  Carries(link, StateOf(held, playing))'
    BY DEF Carried
  <2> DEFINE v == StateOf(held, playing)
  <2>1. v \in [Slots -> States] /\ pad \in [Slots -> States]
    BY <1>1, StateOfType DEF TypeOK
  <2>2. Carries(link, v)
    BY <1>1, <1>2 DEF Carried
  <2>3. v' = v
    BY <1>2 DEF StateOf
  <2>4. \A x \in [Slots -> States] : Carries(link, x) => Carries(link, x)'
    BY <1>2, <2>1, DeliverCarries
  <2> QED BY <2>1, <2>2, <2>3, <2>4 DEF Carries
<1>8. Quiet'
  BY <1>1, <1>2 DEF Quiet
<1>9. Stage'
  BY <1>1, <1>2 DEF Stage
<1> QED BY <1>6, <1>7, <1>8, <1>9 DEF IInv

LEMMA OutputKeeps == IInv /\ (OutputStep \/ ServiceFails \/ OutputPanics) => IInv'
<1> SUFFICES ASSUME IInv, OutputStep \/ ServiceFails \/ OutputPanics PROVE IInv'
  OBVIOUS
<1>1. TypeOK /\ Carried /\ Quiet /\ Stage
  BY DEF IInv
<1>2. CASE Plug
  <2>1. /\ UNCHANGED <<keys, capture, ctl, engine, held, playing, link, pad, refused, sup>>
        /\ output = "plugging" /\ output' \in {"plugging", "on", "refused"}
        /\ output' = "on" => plugged = Slots /\ plugged' = Slots
        /\ output' = "refused" => plugged' = {}
    BY <1>2 DEF Plug, front, core
  <2>2. plugged' \subseteq Slots
    <3>1. CASE plugged = Slots
      BY <1>2, <3>1 DEF Plug
    <3>2. CASE plugged # Slots
      <4>1. Cardinality(plugged) + 1 \in 1..Cardinality(Slots)
        <5>1. /\ Cardinality(plugged) \in Nat /\ Cardinality(Slots) \in Nat
              /\ Cardinality(plugged) <= Cardinality(Slots)
              /\ Cardinality(plugged) # Cardinality(Slots)
          BY <1>1, <3>2, SlotsFinite DEF TypeOK
        <5> QED BY <5>1
      <4>2. NextPad \in Slots
        BY <4>1, PipelineAssumption DEF NextPad
      <4> QED BY <1>1, <1>2, <3>2, <4>2 DEF Plug, TypeOK
    <3> QED BY <3>1, <3>2
  <2>3. TypeOK'
    BY <1>1, <2>1, <2>2 DEF TypeOK, Stages
  <2>4. engine' = "idle"
    BY <1>1, <2>1 DEF Stage
  <2>5. Carried' /\ Quiet'
    BY <1>1, <2>1, <2>4 DEF Carried, Quiet
  <2>6. Stage'
    BY <1>1, <2>1, <2>4 DEF Stage
  <2> QED BY <2>3, <2>5, <2>6 DEF IInv
<1>3. CASE OutputStops
  <2>1. /\ UNCHANGED <<keys, capture, ctl, engine, held, playing, plugged, pad, refused, sup>>
        /\ output \in {"on", "failed"} /\ sup = "ending" /\ output' = "closing"
        /\ link' = [link EXCEPT !.wire = << >>]
    BY <1>3 DEF OutputStops, front
  <2>e. link' \in Links
    <3>1. link \in Links /\ << >> \in Seq(OutMsg) /\ Len(<< >>) <= Capacity
      BY <1>1, EmptySeq, PipelineAssumption DEF TypeOK
    <3> QED BY <2>1, <3>1 DEF Links
  <2>2. TypeOK'
    BY <1>1, <2>1, <2>e DEF TypeOK, Stages
  <2>3. Carried' /\ Stage'
    BY <1>1, <2>1 DEF Carried, Stage
  <2>4. Quiet'
    BY <1>1, <2>1 DEF Quiet
  <2> QED BY <2>2, <2>3, <2>4 DEF IInv
<1>4. CASE Neutralise
  <2>1. /\ UNCHANGED <<keys, capture, ctl, engine, held, playing, link, plugged, sup>>
        /\ output = "closing" /\ output' = "unplugging"
    BY <1>4 DEF Neutralise, front, core
  <2>2. /\ refused' \subseteq Slots
        /\ pad' = [s \in Slots |-> IF s \in refused' THEN pad[s] ELSE Neutral]
    BY <1>4 DEF Neutralise
  <2>3. TypeOK'
    BY <1>1, <2>1, <2>2 DEF TypeOK, Stages, States, Neutral
  <2>4. Carried' /\ Quiet'
    BY <1>1, <2>1, <2>2 DEF Carried, Quiet
  <2>5. Stage'
    BY <1>1, <2>1, <2>2 DEF Stage
  <2> QED BY <2>3, <2>4, <2>5 DEF IInv
<1>5. CASE Unplug
  <2>1. /\ UNCHANGED <<keys, capture, ctl, engine, held, playing, link, pad, refused, sup>>
        /\ output = "unplugging" /\ output' \in {"unplugging", "done"}
        /\ plugged' \subseteq plugged
        /\ output' = "done" => plugged' = {}
    BY <1>5 DEF Unplug, front, core
  <2>2. TypeOK'
    BY <1>1, <2>1 DEF TypeOK, Stages
  <2>3. Carried' /\ Quiet'
    BY <1>1, <2>1 DEF Carried, Quiet
  <2>4. Stage'
    BY <1>1, <2>1 DEF Stage
  <2> QED BY <2>2, <2>3, <2>4 DEF IInv
<1>6. CASE ServiceFails
  <2>1. /\ UNCHANGED <<keys, capture, ctl, engine, held, playing, link, plugged, pad,
                       refused, sup>>
        /\ output = "on" /\ output' = "failed"
    BY <1>6 DEF ServiceFails, front, core
  <2>2. TypeOK' /\ Carried' /\ Quiet' /\ Stage'
    BY <1>1, <2>1 DEF TypeOK, Stages, Carried, Quiet, Stage
  <2> QED BY <2>2 DEF IInv
<1>7. CASE OutputPanics
  <2>1. /\ UNCHANGED <<keys, capture, ctl, engine, held, playing, pad, refused, sup>>
        /\ output \in {"plugging", "on", "failed"} /\ output' = "dead" /\ plugged' = {}
        /\ link' = [link EXCEPT !.wire = << >>]
    BY <1>7 DEF OutputPanics, front
  <2>e. link' \in Links
    <3>1. link \in Links /\ << >> \in Seq(OutMsg) /\ Len(<< >>) <= Capacity
      BY <1>1, EmptySeq, PipelineAssumption DEF TypeOK
    <3> QED BY <2>1, <3>1 DEF Links
  <2>2. TypeOK'
    BY <1>1, <2>1, <2>e DEF TypeOK, Stages
  <2>3. Carried' /\ Stage'
    BY <1>1, <2>1 DEF Carried, Stage
  <2>4. Quiet'
    BY <1>1, <2>1 DEF Quiet
  <2> QED BY <2>2, <2>3, <2>4 DEF IInv
<1> QED BY <1>2, <1>3, <1>4, <1>5, <1>6, <1>7 DEF OutputStep

LEMMA KeysKeep ==
    ASSUME IInv, (\E d \in Devices : Key(d)) \/ CaptureEnds \/ (\E c \in Commands : Command(c))
    PROVE  IInv'
<1>1. TypeOK /\ Carried /\ Quiet /\ Stage
  BY DEF IInv
<1>2. /\ UNCHANGED <<engine, held, playing, link, output, plugged, pad, refused, sup>>
      /\ capture' = capture \/ capture' = "off"
  BY DEF Key, CaptureEnds, Command, core, back
<1>3. /\ keys' \in Seq([dev : Devices, down : BOOLEAN])
      /\ ctl' \in Seq(Commands)
  <2>1. keys \in Seq([dev : Devices, down : BOOLEAN]) /\ ctl \in Seq(Commands)
    BY <1>1 DEF TypeOK
  <2>2. CASE \E d \in Devices : Key(d)
    <3>1. PICK d \in Devices, b \in BOOLEAN : keys' = Append(keys, [dev |-> d, down |-> b])
      BY <2>2 DEF Key
    <3>2. [dev |-> d, down |-> b] \in [dev : Devices, down : BOOLEAN]
      OBVIOUS
    <3>3. UNCHANGED ctl
      BY <2>2 DEF Key
    <3> QED BY <2>1, <3>1, <3>2, <3>3, AppendProperties
  <2>3. CASE \E c \in Commands : Command(c)
    BY <2>1, <2>3, AppendProperties DEF Command
  <2>4. CASE CaptureEnds
    BY <2>1, <2>4 DEF CaptureEnds
  <2> QED BY <2>2, <2>3, <2>4
<1>4. TypeOK'
  BY <1>1, <1>2, <1>3 DEF TypeOK
<1>5. Carried'
  BY <1>1, <1>2, CarriedUnchanged
<1>6. Quiet' /\ Stage'
  BY <1>1, <1>2 DEF Quiet, Stage
<1> QED BY <1>4, <1>5, <1>6 DEF IInv

LEMMA SupervisorKeeps ==
    ASSUME IInv, Starting \/ Teardown \/ EndSession
    PROVE  IInv'
<1>1. TypeOK /\ Carried /\ Quiet /\ Stage
  BY DEF IInv
<1>2. CASE StartSession
  <2>1. /\ UNCHANGED <<keys, ctl, held, playing, link, output, plugged, pad, refused>>
        /\ output \in {"on", "failed"}
        /\ sup' = "running" /\ capture' = "on" /\ engine' = "on" /\ sup = "starting"
    BY <1>2 DEF StartSession, back
  <2>2. TypeOK'
    BY <1>1, <2>1 DEF TypeOK, Supervision
  <2>3. Quiet' /\ Stage'
    BY <1>1, <2>1 DEF Quiet, Stage
  <2>4. Carried'
    <3> DEFINE v == StateOf(held, playing)
    <3>1. /\ link = [pending |-> << >>, wire |-> << >>] /\ held = {} /\ playing = {}
          /\ \A s \in Slots : pad[s] = {}
      BY <1>1, <2>1 DEF Quiet, Neutral, Stage
    <3>2. \A s \in Slots : v[s] = {}
      BY <3>1 DEF StateOf
    <3>3. link \in Links
      BY <1>1 DEF TypeOK
    <3>4. DOMAIN link.pending = {} /\ DOMAIN link.wire = {}
      BY <3>1
    <3> HIDE DEF v
    <3>5. Carries(link, v)
      <4>1. \A s \in Slots : Newest(link.wire, s, v[s])
        BY <3>1, <3>2, <3>4 DEF Newest
      <4> QED BY <3>3, <3>4, <4>1 DEF Carries
    <3>6. v' = v
      BY <2>1 DEF v, StateOf
    <3>7. Carries(link, v)'
      BY <2>1, <3>5, <3>6 DEF Carries, Newest, Waiting
    <3> QED BY <3>7 DEF v, Carried
  <2> QED BY <2>2, <2>3, <2>4 DEF IInv
<1>3. CASE GiveUp \/ EndSession \/ EngineJoined \/ OutputJoined
  <2>1. /\ UNCHANGED <<keys, capture, ctl, engine, held, playing, link, output, plugged,
                       pad, refused>>
        /\ sup' \in Supervision
        /\ sup' = "done" => output \in {"refused", "done", "dead"}
        /\ sup \in {"running", "stopping"} => sup' \in {"running", "stopping"}
        /\ sup' # "starting"
    BY <1>3 DEF GiveUp, EndSession, EngineJoined, OutputJoined, OutputFinished,
                Supervision, front, core, back
  <2>2. TypeOK'
    BY <1>1, <2>1 DEF TypeOK
  <2>3. Carried'
    BY <1>1, <2>1, CarriedUnchanged
  <2>4. Quiet' /\ Stage'
    BY <1>1, <2>1 DEF Quiet, Stage
  <2> QED BY <2>2, <2>3, <2>4 DEF IInv
<1>4. CASE Uncapture
  <2>1. /\ UNCHANGED <<keys, engine, held, playing, link, output, plugged, pad, refused>>
        /\ sup' = "joining" /\ capture' = "off"
        /\ ctl' = ctl \/ ctl' = Append(ctl, [op |-> "stop"])
    BY <1>4 DEF Uncapture, core, back
  <2>2. ctl' \in Seq(Commands)
    <3>1. [op |-> "stop"] \in Commands /\ ctl \in Seq(Commands)
      BY <1>1 DEF Commands, TypeOK
    <3> QED BY <2>1, <3>1, AppendProperties
  <2>3. TypeOK'
    BY <1>1, <2>1, <2>2 DEF TypeOK, Supervision
  <2>4. Carried'
    BY <1>1, <2>1, CarriedUnchanged
  <2>5. Quiet' /\ Stage'
    BY <1>1, <2>1 DEF Quiet, Stage
  <2> QED BY <2>3, <2>4, <2>5 DEF IInv
<1>5. CASE EndBroken
  BY <1>3, <1>5 DEF EndBroken
<1> QED BY <1>2, <1>3, <1>4, <1>5 DEF Starting, Teardown

LEMMA InvNext == IInv /\ [Next]_vars => IInv'
<1> SUFFICES ASSUME IInv, [Next]_vars PROVE IInv'
  OBVIOUS
<1>1. CASE UNCHANGED vars
  <2>1. TypeOK /\ Carried /\ Quiet /\ Stage
    BY DEF IInv
  <2>2. UNCHANGED <<keys, capture, ctl, engine, held, playing, link, output, plugged, pad,
                    refused, sup>>
    BY <1>1 DEF vars
  <2>3. TypeOK'
    BY <2>1, <2>2 DEF TypeOK
  <2>4. Carried'
    BY <2>1, <2>2, CarriedUnchanged
  <2>5. Quiet' /\ Stage'
    BY <2>1, <2>2 DEF Quiet, Stage
  <2> QED BY <2>3, <2>4, <2>5 DEF IInv
<1>2. CASE EngineStep \/ EnginePanics
  BY <1>2, EngineKeeps
<1>3. CASE OutputStep \/ ServiceFails \/ OutputPanics
  BY <1>3, OutputKeeps
<1>4. CASE Deliver
  BY <1>4, DeliverKeeps
<1>5. CASE (\E d \in Devices : Key(d)) \/ CaptureEnds \/ (\E c \in Commands : Command(c))
  BY <1>5, KeysKeep
<1>6. CASE Starting \/ Teardown \/ EndSession
  BY <1>6, SupervisorKeeps
<1>7. CASE Finished
  BY <1>1, <1>7 DEF Finished
<1> QED BY <1>1, <1>2, <1>3, <1>4, <1>5, <1>6, <1>7 DEF Next, Environment

LEMMA Invariant == Spec => []IInv
  BY InvInit, InvNext, PTL DEF Spec

-----------------------------------------------------------------------------
(* The theorems. *)

\* Every variable keeps its type: the bounded channel never overflows, the
\* pads are plugged in order and never beyond the last slot.
THEOREM TypeCorrect == Spec => []TypeOK
<1>1. IInv => TypeOK
  BY DEF IInv
<1> QED BY <1>1, Invariant, PTL

\* DeltaTx never loses the newest state of a slot: whatever the channel's
\* size, it is pending, or last on the wire for its slot, or on the pad.
THEOREM NewestNeverLost == Spec => []NewestIsNeverLost
<1>1. IInv => NewestIsNeverLost
  <2> SUFFICES ASSUME IInv, engine = "on", output = "on"
               PROVE  /\ PendingIsCurrent
                      /\ \A s \in Slots \ Waiting(link) :
                            ArrivesLast(s, StateOf(held, playing)[s])
    BY DEF NewestIsNeverLost
  <2>1. Carries(link, StateOf(held, playing))
    BY DEF IInv, Carried
  <2> QED BY <2>1 DEF Carries, PendingIsCurrent, Newest, ArrivesLast
<1> QED BY <1>1, Invariant, PTL

\* The keyboards are never captured without the pads that stand in for them:
\* teardown releases capture before a pad is unplugged.
THEOREM PadsOutlive == Spec => []PadsOutliveCapture
<1>1. IInv => PadsOutliveCapture
  BY DEF IInv, Stage, PadsOutliveCapture
<1> QED BY <1>1, Invariant, PTL

\* A session that is over has unplugged every pad, after a neutral update.
THEOREM NothingHeld == Spec => []NothingIsLeftHeld
<1>1. IInv => NothingIsLeftHeld
  BY DEF IInv, Stage, NothingIsLeftHeld
<1> QED BY <1>1, Invariant, PTL

-----------------------------------------------------------------------------
(* What a queue holds for one slot.  StatesFor picks the places of the slot  *)
(* with CHOOSE; Reads says which choice it is.                               *)

\* A nonempty set of naturals has a least element.
LessThan == {o \in Nat \X Nat : o[1] < o[2]}

LEMMA LeastOf ==
    ASSUME NEW T \in SUBSET Nat, T # {}
    PROVE  \E x \in T : \A y \in T : x <= y
<1>1. IsWellFoundedOn(LessThan, Nat)
  BY NatLessThanWellFounded DEF OpToRel, LessThan
<1>2. PICK x \in T : \A y \in T : ~(<<y, x>> \in LessThan)
  BY <1>1, WFMin
<1>3. \A y \in T : ~(y < x)
  BY <1>2 DEF LessThan
<1> QED BY <1>3

\* f leads in order to the places of w that are for slot s, and q is what
\* they hold.
Reads(w, s, q, f) ==
    /\ q \in Seq(States) /\ f \in [1..Len(q) -> 1..Len(w)]
    /\ \A i, j \in 1..Len(q) : i < j => f[i] < f[j]
    /\ \A k \in 1..Len(q) : w[f[k]].slot = s /\ w[f[k]].state = q[k]
    /\ \A i \in 1..Len(w) : w[i].slot = s => \E k \in 1..Len(q) : f[k] = i

\* Where two readings of a queue agree so far, the second goes on no later.
LEMMA ReadsBehind ==
    ASSUME NEW w, Len(w) \in Nat, NEW s, NEW q1, NEW q2, NEW f1, NEW f2,
           Reads(w, s, q1, f1), Reads(w, s, q2, f2), NEW k \in 1..Len(q1),
           \A j \in 1..(k - 1) : j \in 1..Len(q2) /\ f1[j] = f2[j]
    PROVE  k \in 1..Len(q2) /\ f2[k] <= f1[k]
<1>1. /\ Len(q1) \in Nat /\ Len(q2) \in Nat
      /\ f1 \in [1..Len(q1) -> 1..Len(w)] /\ f2 \in [1..Len(q2) -> 1..Len(w)]
  BY DEF Reads
<1>2. f1[k] \in 1..Len(w) /\ w[f1[k]].slot = s
  BY <1>1 DEF Reads
<1>3. PICK j \in 1..Len(q2) : f2[j] = f1[k]
  BY <1>2 DEF Reads
<1>4. ~(j < k)
  <2> SUFFICES ASSUME j < k PROVE FALSE
    OBVIOUS
  <2>1. j \in 1..(k - 1) /\ j \in 1..Len(q1)
    BY <1>1
  <2>2. f1[j] < f1[k]
    BY <2>1 DEF Reads
  <2> QED BY <1>1, <1>2, <1>3, <2>1, <2>2
<1>5. k \in 1..Len(q2)
  BY <1>1, <1>4
<1>6. j = k \/ f2[k] < f2[j]
  BY <1>1, <1>4, <1>5 DEF Reads
<1> QED BY <1>1, <1>2, <1>3, <1>5, <1>6

\* What a queue holds for a slot is determined.
LEMMA ReadsUnique ==
    ASSUME NEW w, Len(w) \in Nat, NEW s, NEW q1, NEW q2, NEW f1, NEW f2,
           Reads(w, s, q1, f1), Reads(w, s, q2, f2)
    PROVE  q1 = q2
<1> DEFINE Differ == {k \in Nat \ {0} : /\ k \in 1..Len(q1) \/ k \in 1..Len(q2)
                                        /\ ~(/\ k \in 1..Len(q1) /\ k \in 1..Len(q2)
                                             /\ f1[k] = f2[k])}
<1>1. /\ Len(q1) \in Nat /\ Len(q2) \in Nat /\ q1 \in Seq(States) /\ q2 \in Seq(States)
      /\ f1 \in [1..Len(q1) -> 1..Len(w)] /\ f2 \in [1..Len(q2) -> 1..Len(w)]
  BY DEF Reads
<1>2. Differ = {}
  <2> SUFFICES ASSUME Differ # {} PROVE FALSE
    OBVIOUS
  <2>1. PICK k \in Differ : \A j \in Differ : k <= j
    BY LeastOf
  <2>2. \A j \in 1..(k - 1) : j \notin Differ
    BY <2>1
  <2>3. \A j \in 1..(k - 1) : j \in Nat \ {0}
    OBVIOUS
  <2>4. \A j \in 1..(k - 1) : j \in 1..Len(q1) /\ j \in 1..Len(q2) /\ f1[j] = f2[j]
    <3> TAKE j \in 1..(k - 1)
    <3>1. j \in 1..Len(q1) \/ j \in 1..Len(q2)
      BY <1>1
    <3> QED BY <2>2, <2>3, <3>1
  <2>5. k \in 1..Len(q1) /\ k \in 1..Len(q2)
    BY <2>4, ReadsBehind
  <2>6. f2[k] <= f1[k] /\ f1[k] <= f2[k]
    BY <2>4, <2>5, ReadsBehind
  <2> QED BY <1>1, <2>5, <2>6
<1>3. \A k \in 1..Len(q1) : k \in 1..Len(q2) /\ f1[k] = f2[k]
  BY <1>1, <1>2
<1>4. \A k \in 1..Len(q2) : k \in 1..Len(q1)
  BY <1>1, <1>2
<1>5. Len(q1) = Len(q2)
  <2>1. Len(q1) > 0 => Len(q1) \in 1..Len(q2)
    BY <1>1, <1>3
  <2>2. Len(q2) > 0 => Len(q2) \in 1..Len(q1)
    BY <1>1, <1>4
  <2> QED BY <1>1, <2>1, <2>2
<1>6. \A k \in 1..Len(q1) : q1[k] = q2[k]
  BY <1>3 DEF Reads
<1> QED BY <1>1, <1>5, <1>6

\* What two queues hold, one behind the other.
LEMMA ReadsConcat ==
    ASSUME NEW w1 \in Seq(OutMsg), NEW w2 \in Seq(OutMsg), NEW s,
           NEW q1, NEW q2, NEW f1, NEW f2, Reads(w1, s, q1, f1), Reads(w2, s, q2, f2)
    PROVE  \E f : Reads(w1 \o w2, s, q1 \o q2, f)
<1> DEFINE a == Len(q1)
           b == Len(q2)
           n == Len(w1)
           f == [k \in 1..(a + b) |-> IF k <= a THEN f1[k] ELSE n + f2[k - a]]
           w == w1 \o w2
           q == q1 \o q2
<1>1. /\ q1 \in Seq(States) /\ q2 \in Seq(States) /\ a \in Nat /\ b \in Nat
      /\ n \in Nat /\ Len(w2) \in Nat
      /\ f1 \in [1..a -> 1..n] /\ f2 \in [1..b -> 1..Len(w2)]
  BY DEF Reads
<1>2. /\ w \in Seq(OutMsg) /\ Len(w) = n + Len(w2)
      /\ \A i \in 1..(n + Len(w2)) : w[i] = IF i <= n THEN w1[i] ELSE w2[i - n]
  BY ConcatProperties
<1>3. /\ q \in Seq(States) /\ Len(q) = a + b
      /\ \A i \in 1..(a + b) : q[i] = IF i <= a THEN q1[i] ELSE q2[i - a]
  BY <1>1, ConcatProperties
<1> HIDE DEF a, b, n, w, q
<1>k. /\ \A k \in 1..a : k \in 1..(a + b) /\ k <= a
      /\ \A k \in 1..b : a + k \in 1..(a + b) /\ ~(a + k <= a) /\ (a + k) - a = k
      /\ \A i \in 1..n : i \in 1..(n + Len(w2)) /\ i <= n
      /\ \A i \in 1..Len(w2) : /\ n + i \in 1..(n + Len(w2)) /\ ~(n + i <= n)
                               /\ (n + i) - n = i /\ n + i > n
  BY <1>1
<1>f. /\ \A k \in 1..a : f[k] = f1[k]
      /\ \A k \in 1..b : f[a + k] = n + f2[k]
      /\ DOMAIN f = 1..(a + b)
  BY <1>k
<1>g. f = [k \in 1..(a + b) |-> f[k]]
  OBVIOUS
<1> HIDE DEF f
<1>4. \A k \in 1..a : /\ k \in 1..(a + b) /\ f[k] = f1[k] /\ f[k] \in 1..n
                      /\ f[k] \in 1..(n + Len(w2))
                      /\ w[f[k]] = w1[f1[k]] /\ q[k] = q1[k]
  BY <1>1, <1>2, <1>3, <1>k, <1>f
<1>5. \A k \in 1..b : /\ a + k \in 1..(a + b) /\ f[a + k] = n + f2[k]
                      /\ f[a + k] \in 1..(n + Len(w2)) /\ f[a + k] > n
                      /\ w[f[a + k]] = w2[f2[k]] /\ q[a + k] = q2[k]
  <2> TAKE k \in 1..b
  <2>1. f2[k] \in 1..Len(w2)
    BY <1>1
  <2> QED BY <1>2, <1>3, <1>k, <1>f, <2>1
<1>6. \A k \in 1..(a + b) : k \in 1..a \/ \E j \in 1..b : k = a + j
  <2> TAKE k \in 1..(a + b)
  <2>1. k \in 1..a \/ (k - a \in 1..b /\ k = a + (k - a))
    BY <1>1
  <2> QED BY <2>1
<1>7. f \in [1..(a + b) -> 1..(n + Len(w2))]
  <2>1. \A k \in 1..(a + b) : f[k] \in 1..(n + Len(w2))
    BY <1>4, <1>5, <1>6
  <2> QED BY <1>g, <2>1
<1>8. \A i, j \in 1..(a + b) : i < j => f[i] < f[j]
  <2> TAKE i, j \in 1..(a + b)
  <2> HAVE i < j
  <2>1. CASE i \in 1..a /\ j \in 1..a
    BY <1>4, <2>1 DEF Reads, a
  <2>2. CASE i \in 1..a /\ j \notin 1..a
    <3>1. PICK k \in 1..b : j = a + k
      BY <1>6, <2>2
    <3>2. f[i] \in 1..n /\ f[j] > n /\ f[j] \in 1..(n + Len(w2))
      BY <1>4, <1>5, <2>2, <3>1
    <3> QED BY <1>1, <3>2
  <2>3. CASE i \notin 1..a
    <3>1. PICK k \in 1..b : i = a + k
      BY <1>6, <2>3
    <3>2. j \notin 1..a
      BY <1>1, <3>1
    <3>3. PICK m \in 1..b : j = a + m
      BY <1>6, <3>2
    <3>4. k < m
      BY <1>1, <3>1, <3>3
    <3>5. f2[k] < f2[m] /\ f2[k] \in 1..Len(w2) /\ f2[m] \in 1..Len(w2)
      BY <1>1, <3>4 DEF Reads, b
    <3> QED BY <1>1, <1>5, <3>1, <3>3, <3>5
  <2> QED BY <2>1, <2>2, <2>3
<1>9. \A k \in 1..(a + b) : w[f[k]].slot = s /\ w[f[k]].state = q[k]
  <2> TAKE k \in 1..(a + b)
  <2>1. CASE k \in 1..a
    BY <1>4, <2>1 DEF Reads, a
  <2>2. ASSUME NEW j \in 1..b, k = a + j
        PROVE  w[f[k]].slot = s /\ w[f[k]].state = q[k]
    <3>1. w2[f2[j]].slot = s /\ w2[f2[j]].state = q2[j]
      BY DEF Reads, b
    <3>2. w[f[k]] = w2[f2[j]] /\ q[k] = q2[j]
      BY <1>5, <2>2
    <3> QED BY <3>1, <3>2
  <2> QED BY <1>6, <2>1, <2>2
<1>10. \A i \in 1..(n + Len(w2)) : w[i].slot = s => \E k \in 1..(a + b) : f[k] = i
  <2> TAKE i \in 1..(n + Len(w2))
  <2> HAVE w[i].slot = s
  <2>1. CASE i <= n
    <3>1. i \in 1..n /\ w1[i].slot = s
      BY <1>1, <1>2, <2>1
    <3>2. PICK k \in 1..a : f1[k] = i
      BY <3>1 DEF Reads, a, n
    <3> QED BY <1>4, <3>2
  <2>2. CASE ~(i <= n)
    <3>1. i - n \in 1..Len(w2) /\ w2[i - n].slot = s
      BY <1>1, <1>2, <2>2
    <3>2. PICK k \in 1..b : f2[k] = i - n
      BY <3>1 DEF Reads, b
    <3>3. f[a + k] = n + f2[k] /\ a + k \in 1..(a + b)
      BY <1>5
    <3>4. n + (i - n) = i
      BY <1>1
    <3> QED BY <3>2, <3>3, <3>4
  <2> QED BY <2>1, <2>2
<1>11. Reads(w, s, q, f)
  BY <1>2, <1>3, <1>7, <1>8, <1>9, <1>10 DEF Reads
<1> QED BY <1>11 DEF w, q

\* What a queue without a message for s holds for it.
LEMMA ReadsNone ==
    ASSUME NEW w \in Seq(OutMsg), NEW s, \A i \in 1..Len(w) : w[i].slot # s
    PROVE  Reads(w, s, << >>, [k \in 1..0 |-> 0])
<1>1. << >> \in Seq(States) /\ Len(<< >>) = 0 /\ [k \in 1..0 |-> 0] \in [1..0 -> 1..Len(w)]
  OBVIOUS
<1> QED BY <1>1 DEF Reads

\* What a queue with one message for s holds for it.
LEMMA ReadsOne ==
    ASSUME NEW w \in Seq(OutMsg), NEW s, NEW p \in 1..Len(w), w[p].slot = s,
           \A i \in 1..Len(w) : w[i].slot = s => i = p
    PROVE  \E f : Reads(w, s, << w[p].state >>, f)
<1>1. w[p] \in OutMsg /\ w[p].state \in States
  <2>1. w[p] \in OutMsg
    BY ElementOfSeq
  <2> QED BY <2>1 DEF OutMsg
<1> DEFINE q == << w[p].state >>
           f == [k \in 1..1 |-> p]
<1>2. q \in Seq(States) /\ Len(q) = 1 /\ q[1] = w[p].state
  BY <1>1
<1>3. 1..1 = {1} /\ f \in [1..1 -> 1..Len(w)] /\ f[1] = p
  OBVIOUS
<1> HIDE DEF q, f
<1>4. \A i, j \in 1..Len(q) : ~(i < j)
  BY <1>2
<1>5. Reads(w, s, q, f)
  BY <1>2, <1>3, <1>4 DEF Reads
<1> QED BY <1>5 DEF q

\* Every queue can be read.
LEMMA ReadsExist ==
    ASSUME NEW w \in Seq(OutMsg), NEW s
    PROVE  \E q, f : Reads(w, s, q, f)
<1> DEFINE Bad == {n \in Nat : \E u \in Seq(OutMsg) : Len(u) = n /\ ~\E q, f : Reads(u, s, q, f)}
<1> SUFFICES Bad = {}
  <2>1. Len(w) \in Nat
    OBVIOUS
  <2> QED BY <2>1
<1> SUFFICES ASSUME Bad # {} PROVE FALSE
  OBVIOUS
<1>1. PICK n \in Bad : \A k \in Bad : n <= k
  BY LeastOf
<1>2. PICK u \in Seq(OutMsg) : Len(u) = n /\ ~\E q, f : Reads(u, s, q, f)
  BY <1>1
<1>3. CASE n = 0
  <2>1. \A i \in 1..Len(u) : u[i].slot # s
    BY <1>2, <1>3
  <2> QED BY <1>2, <2>1, ReadsNone
<1>4. CASE n # 0
  <2> DEFINE start == SubSeq(u, 1, n - 1)
             end   == << u[n] >>
  <2>1. n \in Nat \ {0} /\ n \in 1..n /\ \A i \in 1..n : u[i] \in OutMsg
    BY <1>1, <1>2, <1>4
  <2>2. n - 1 \in Nat /\ \A i \in 1..(n - 1) : u[i] \in OutMsg /\ 1 + i - 1 = i
    BY <2>1
  <2>3. /\ start \in Seq(OutMsg) /\ Len(start) = n - 1
        /\ \A i \in 1..(n - 1) : start[i] = u[i]
    BY <2>2, SubSeqProperties
  <2>4. end \in Seq(OutMsg) /\ Len(end) = 1 /\ end[1] = u[n] /\ 1 \in 1..1
    BY <2>1
  <2> HIDE DEF start, end
  <2>5. u = start \o end
    <3>1. /\ start \o end \in Seq(OutMsg) /\ Len(start \o end) = n
          /\ \A i \in 1..n : (start \o end)[i] = u[i]
      <4>1. /\ start \o end \in Seq(OutMsg)
            /\ Len(start \o end) = (n - 1) + 1
            /\ \A i \in 1..((n - 1) + 1) :
                  (start \o end)[i] = IF i <= n - 1 THEN start[i] ELSE end[i - (n - 1)]
        <5>1. /\ start \o end \in Seq(OutMsg)
              /\ Len(start \o end) = Len(start) + Len(end)
              /\ \A i \in 1..(Len(start) + Len(end)) :
                    (start \o end)[i] = IF i <= Len(start) THEN start[i] ELSE end[i - Len(start)]
          BY <2>3, <2>4, ConcatProperties
        <5> QED BY <2>3, <2>4, <5>1
      <4>2. \A i \in 1..n : i \in 1..(n - 1) \/ (i = n /\ i - (n - 1) = 1 /\ ~(i <= n - 1))
        BY <2>1
      <4>3. (n - 1) + 1 = n /\ \A i \in 1..(n - 1) : i <= n - 1
        BY <2>1
      <4> QED BY <2>3, <2>4, <4>1, <4>2, <4>3
    <3> QED BY <1>2, <3>1, SeqEqual
  <2>6. PICK q1, f1 : Reads(start, s, q1, f1)
    <3>1. n - 1 \notin Bad
      <4>1. ~(n <= n - 1)
        BY <2>1
      <4> QED BY <1>1, <4>1
    <3> QED BY <2>2, <2>3, <3>1
  <2>7. PICK q2, f2 : Reads(end, s, q2, f2)
    <3>0. \A i \in 1..Len(end) : i = 1
      BY <2>4
    <3>1. CASE end[1].slot = s
      <4>1. 1 \in 1..Len(end)
        BY <2>4
      <4>2. \E f : Reads(end, s, << end[1].state >>, f)
        BY <2>4, <3>0, <3>1, <4>1, ReadsOne
      <4> QED BY <4>2
    <3>2. CASE end[1].slot # s
      <4>1. Reads(end, s, << >>, [k \in 1..0 |-> 0])
        BY <2>4, <3>0, <3>2, ReadsNone
      <4> QED BY <4>1
    <3> QED BY <3>1, <3>2
  <2>8. \E f : Reads(u, s, q1 \o q2, f)
    BY <2>3, <2>4, <2>5, <2>6, <2>7, ReadsConcat
  <2> QED BY <1>2, <2>8
<1> QED BY <1>3, <1>4

\* What the model takes for the states on a queue is what it holds.
LEMMA StatesForReads ==
    ASSUME NEW w \in Seq(OutMsg), NEW s, NEW q, NEW f, Reads(w, s, q, f)
    PROVE  StatesFor(w, s) = q
<1> DEFINE P == {i \in DOMAIN w : w[i].slot = s}
           n == Cardinality(P)
           at == Places(w, s)
           r == [k \in DOMAIN at |-> w[at[k]].state]
<1>1. /\ DOMAIN w = 1..Len(w) /\ Len(w) \in Nat /\ Len(q) \in Nat
      /\ f \in [1..Len(q) -> 1..Len(w)] /\ DOMAIN f = 1..Len(q)
  BY DEF Reads
<1>2. f \in Bijection(1..Len(q), P)
  <2>1. f \in [1..Len(q) -> P]
    <3>1. \A k \in 1..Len(q) : f[k] \in P
      BY <1>1 DEF Reads
    <3> QED BY <1>1, <3>1
  <2>2. \A i, j \in 1..Len(q) : f[i] = f[j] => i = j
    <3> TAKE i, j \in 1..Len(q)
    <3>1. i < j \/ j < i \/ i = j
      BY <1>1
    <3>2. /\ i < j => f[i] < f[j]
          /\ j < i => f[j] < f[i]
      BY DEF Reads
    <3>3. f[i] \in Nat /\ f[j] \in Nat
      BY <1>1
    <3> QED BY <3>1, <3>2, <3>3
  <2>3. \A i \in P : \E k \in 1..Len(q) : f[k] = i
    BY <1>1 DEF Reads
  <2> QED BY <2>1, <2>2, <2>3 DEF Bijection, Injection, Surjection, IsInjective
<1>3. n = Len(q)
  BY <1>1, <1>2, FS_CountingElements DEF ExistsBijection
<1> HIDE DEF n
<1>4. \E g \in Bijection(1..n, P) : \A i, j \in DOMAIN g : i < j => g[i] < g[j]
  <2>1. \A i, j \in DOMAIN f : i < j => f[i] < f[j]
    BY <1>1 DEF Reads
  <2> QED BY <1>2, <1>3, <2>1
<1>5. at = CHOOSE g \in Bijection(1..n, P) : \A i, j \in DOMAIN g : i < j => g[i] < g[j]
  BY DEF Places, n
<1> HIDE DEF at
<1>6. at \in Bijection(1..n, P) /\ \A i, j \in DOMAIN at : i < j => at[i] < at[j]
  BY <1>4, <1>5
<1>7. /\ at \in [1..n -> P] /\ DOMAIN at = 1..n
      /\ \A i \in P : \E k \in 1..n : at[k] = i
  BY <1>6 DEF Bijection, Injection, Surjection
<1>8. \A k \in 1..n : at[k] \in 1..Len(w) /\ w[at[k]].slot = s
  BY <1>1, <1>7
<1>9. r \in Seq(States) /\ Len(r) = n /\ \A k \in 1..n : r[k] = w[at[k]].state
  <2>1. \A k \in 1..n : w[at[k]] \in OutMsg
    BY <1>8, ElementOfSeq
  <2>2. r \in [1..n -> States]
    BY <1>7, <2>1 DEF OutMsg
  <2> QED BY <1>1, <1>3, <1>7, <2>2
<1>10. StatesFor(w, s) = r
  BY DEF StatesFor, at
<1> HIDE DEF r
<1>11. Reads(w, s, r, at)
  <2>1. at \in [1..Len(r) -> 1..Len(w)]
    BY <1>7, <1>8, <1>9
  <2>2. \A i \in 1..Len(w) : w[i].slot = s => \E k \in 1..Len(r) : at[k] = i
    BY <1>1, <1>7, <1>9
  <2> QED BY <1>6, <1>7, <1>8, <1>9, <2>1, <2>2 DEF Reads
<1> QED BY <1>1, <1>10, <1>11, ReadsUnique

\* They are pad states.
LEMMA StatesForType ==
    ASSUME NEW w \in Seq(OutMsg), NEW s
    PROVE  StatesFor(w, s) \in Seq(States)
<1>1. PICK q, f : Reads(w, s, q, f)
  BY ReadsExist
<1>2. q \in Seq(States)
  BY <1>1 DEF Reads
<1> QED BY <1>1, <1>2, StatesForReads

\* Those of the queue behind come behind.
LEMMA StatesForConcat ==
    ASSUME NEW u \in Seq(OutMsg), NEW w \in Seq(OutMsg), NEW s
    PROVE  StatesFor(u \o w, s) = StatesFor(u, s) \o StatesFor(w, s)
<1>1. PICK q1, f1 : Reads(u, s, q1, f1)
  BY ReadsExist
<1>2. PICK q2, f2 : Reads(w, s, q2, f2)
  BY ReadsExist
<1>3. PICK f : Reads(u \o w, s, q1 \o q2, f)
  BY <1>1, <1>2, ReadsConcat
<1>4. u \o w \in Seq(OutMsg)
  BY ConcatProperties
<1>5. StatesFor(u \o w, s) = q1 \o q2
  BY <1>3, <1>4, StatesForReads
<1>6. StatesFor(u, s) = q1 /\ StatesFor(w, s) = q2
  BY <1>1, <1>2, StatesForReads
<1> QED BY <1>5, <1>6

\* No message for s holds no state for it.
LEMMA StatesForNone ==
    ASSUME NEW w \in Seq(OutMsg), NEW s, \A i \in 1..Len(w) : w[i].slot # s
    PROVE  StatesFor(w, s) = << >>
  BY ReadsNone, StatesForReads

\* One message for s holds one.
LEMMA StatesForOne ==
    ASSUME NEW w \in Seq(OutMsg), NEW s, NEW p \in 1..Len(w), w[p].slot = s,
           \A i \in 1..Len(w) : w[i].slot = s => i = p
    PROVE  StatesFor(w, s) = << w[p].state >>
<1>1. PICK f : Reads(w, s, << w[p].state >>, f)
  BY ReadsOne
<1> QED BY <1>1, StatesForReads

\* The head of a queue is the first state of its slot and of no other.
LEMMA StatesForTail ==
    ASSUME NEW w \in Seq(OutMsg), w # << >>, NEW s
    PROVE  /\ Head(w) \in OutMsg /\ Tail(w) \in Seq(OutMsg)
           /\ StatesFor(w, s) = IF Head(w).slot = s
                                THEN << Head(w).state >> \o StatesFor(Tail(w), s)
                                ELSE StatesFor(Tail(w), s)
<1> DEFINE h == << Head(w) >>
           t == Tail(w)
<1>1. /\ Head(w) \in OutMsg /\ t \in Seq(OutMsg) /\ Len(t) = Len(w) - 1
      /\ Head(w) = w[1] /\ Len(w) \in Nat \ {0}
      /\ \A i \in 1..Len(t) : t[i] = w[i + 1]
  BY HeadTailProperties, EmptySeq
<1>2. h \in Seq(OutMsg) /\ Len(h) = 1 /\ h[1] = Head(w)
  BY <1>1
<1> HIDE DEF h, t
<1>3. w = h \o t
  <2>1. /\ h \o t \in Seq(OutMsg) /\ Len(h \o t) = Len(h) + Len(t)
        /\ \A i \in 1..(Len(h) + Len(t)) :
              (h \o t)[i] = IF i <= Len(h) THEN h[i] ELSE t[i - Len(h)]
    BY <1>1, <1>2, ConcatProperties
  <2>2. Len(h) + Len(t) = Len(w)
    BY <1>1, <1>2
  <2>3. \A i \in 1..Len(w) : i = 1 \/ (i - 1 \in 1..Len(t) /\ (i - 1) + 1 = i /\ ~(i <= 1))
    BY <1>1
  <2>4. \A i \in 1..Len(w) : (h \o t)[i] = w[i]
    BY <1>1, <1>2, <2>1, <2>2, <2>3
  <2> QED BY <2>1, <2>2, <2>4, SeqEqual
<1>4. StatesFor(w, s) = StatesFor(h, s) \o StatesFor(t, s)
  BY <1>1, <1>2, <1>3, StatesForConcat
<1>5. StatesFor(t, s) \in Seq(States)
  BY <1>1, StatesForType
<1>6. \A i \in 1..Len(h) : i = 1
  BY <1>2
<1>7. CASE Head(w).slot = s
  <2>1. 1 \in 1..Len(h) /\ h[1].slot = s
    BY <1>2, <1>7
  <2>2. StatesFor(h, s) = << h[1].state >>
    BY <1>2, <1>6, <2>1, StatesForOne
  <2> QED BY <1>1, <1>2, <1>4, <1>7, <2>2 DEF t
<1>8. CASE Head(w).slot # s
  <2>1. StatesFor(h, s) = << >>
    BY <1>2, <1>6, <1>8, StatesForNone
  <2>2. << >> \o StatesFor(t, s) = StatesFor(t, s)
    BY <1>5, ConcatEmptySeq
  <2> QED BY <1>1, <1>4, <1>8, <2>1, <2>2 DEF t
<1> QED BY <1>7, <1>8

-----------------------------------------------------------------------------
(* What DeltaTx does to the states ahead of a pad.                           *)

\* What a link holds for a slot.
Under(l, s) == StatesFor(l.wire \o l.pending, s)

\* new is old with another state in place of the last ones, or behind it.
Replaces(old, new) ==
    \E n \in 0..Len(old) : Len(new) = n + 1 /\ SubSeq(new, 1, n) = SubSeq(old, 1, n)

\* A beginning of a sequence, element by element.
LEMMA Beginning ==
    ASSUME NEW q \in Seq(States), NEW n \in 0..Len(q)
    PROVE  /\ SubSeq(q, 1, n) \in Seq(States) /\ Len(SubSeq(q, 1, n)) = n
           /\ \A i \in 1..n : SubSeq(q, 1, n)[i] = q[i]
<1>1. n \in Nat /\ n \in Int /\ 1 \in Int /\ \A i \in 1..n : q[i] \in States /\ 1 + i - 1 = i
  <2>1. \A i \in 1..n : i \in 1..Len(q)
    OBVIOUS
  <2> QED BY <2>1, ElementOfSeq
<1>2. /\ SubSeq(q, 1, n) \in Seq(States)
      /\ Len(SubSeq(q, 1, n)) = IF 1 <= n THEN n - 1 + 1 ELSE 0
      /\ \A i \in 1..(n - 1 + 1) : SubSeq(q, 1, n)[i] = q[1 + i - 1]
  BY <1>1, SubSeqProperties
<1>3. n - 1 + 1 = n /\ (~(1 <= n) => n = 0)
  BY <1>1
<1> QED BY <1>1, <1>2, <1>3

\* Two sequences begin alike when their elements do.
LEMMA SameBeginning ==
    ASSUME NEW p \in Seq(States), NEW q \in Seq(States), NEW n \in 0..Len(p), n \in 0..Len(q)
    PROVE  SubSeq(p, 1, n) = SubSeq(q, 1, n) <=> \A i \in 1..n : p[i] = q[i]
<1>1. /\ SubSeq(p, 1, n) \in Seq(States) /\ Len(SubSeq(p, 1, n)) = n
      /\ \A i \in 1..n : SubSeq(p, 1, n)[i] = p[i]
  BY Beginning
<1>2. /\ SubSeq(q, 1, n) \in Seq(States) /\ Len(SubSeq(q, 1, n)) = n
      /\ \A i \in 1..n : SubSeq(q, 1, n)[i] = q[i]
  BY Beginning
<1>3. ASSUME \A i \in 1..n : p[i] = q[i] PROVE SubSeq(p, 1, n) = SubSeq(q, 1, n)
  <2>1. \A i \in 1..Len(SubSeq(p, 1, n)) : SubSeq(p, 1, n)[i] = SubSeq(q, 1, n)[i]
    BY <1>1, <1>2, <1>3
  <2> QED BY <1>1, <1>2, <2>1, SeqEqual
<1>4. ASSUME SubSeq(p, 1, n) = SubSeq(q, 1, n), NEW i \in 1..n PROVE p[i] = q[i]
  BY <1>1, <1>2, <1>4
<1> QED BY <1>3, <1>4

\* The same, of Replaces and of the abstract register.
LEMMA ReplacesShape ==
    ASSUME NEW old \in Seq(States), NEW new \in Seq(States)
    PROVE  Replaces(old, new) <=> /\ Len(new) # 0 /\ Len(new) - 1 <= Len(old)
                                  /\ \A i \in 1..(Len(new) - 1) : new[i] = old[i]
<1>0. Len(new) \in Nat /\ Len(old) \in Nat
  OBVIOUS
<1>1. ASSUME Replaces(old, new)
      PROVE  /\ Len(new) # 0 /\ Len(new) - 1 <= Len(old)
             /\ \A i \in 1..(Len(new) - 1) : new[i] = old[i]
  <2>1. PICK n \in 0..Len(old) : Len(new) = n + 1 /\ SubSeq(new, 1, n) = SubSeq(old, 1, n)
    BY <1>1 DEF Replaces
  <2>2. n = Len(new) - 1 /\ n \in 0..Len(new)
    BY <1>0, <2>1
  <2>3. \A i \in 1..n : new[i] = old[i]
    BY <2>1, <2>2, SameBeginning
  <2> QED BY <1>0, <2>1, <2>2, <2>3
<1>2. ASSUME Len(new) # 0, Len(new) - 1 <= Len(old),
             \A i \in 1..(Len(new) - 1) : new[i] = old[i]
      PROVE  Replaces(old, new)
  <2> DEFINE n == Len(new) - 1
  <2>1. n \in 0..Len(old) /\ n \in 0..Len(new) /\ Len(new) = n + 1
    BY <1>0, <1>2
  <2>2. SubSeq(new, 1, n) = SubSeq(old, 1, n)
    BY <1>2, <2>1, SameBeginning
  <2> QED BY <2>1, <2>2 DEF Replaces
<1> QED BY <1>1, <1>2

\* What a wake may do to what is ahead, element by element.
LEMMA SupersedesShape ==
    ASSUME NEW old \in Seq(States), NEW new \in Seq(States), NEW n \in Nat,
           n = Len(new) - 1 \/ n = Len(new) - 2, n <= Len(old),
           \A i \in 1..n : new[i] = old[i]
    PROVE  Register!Supersedes(old, new)
<1>1. n \in 0..Len(old) /\ n \in 0..Len(new)
  <2>1. Len(old) \in Nat /\ Len(new) \in Nat
    OBVIOUS
  <2> QED BY <2>1
<1>2. SubSeq(new, 1, n) = SubSeq(old, 1, n)
  BY <1>1, SameBeginning
<1> QED BY <1>1, <1>2 DEF Register!Supersedes

\* A state behind a sequence.
LEMMA ReplacesBehind ==
    ASSUME NEW a \in Seq(States), NEW y \in States
    PROVE  Replaces(a, a \o << y >>)
<1>1. << y >> \in Seq(States) /\ Len(<< y >>) = 1
  OBVIOUS
<1>2. /\ a \o << y >> \in Seq(States) /\ Len(a \o << y >>) = Len(a) + 1 /\ Len(a) \in Nat
      /\ \A i \in 1..(Len(a) + 1) : i <= Len(a) => (a \o << y >>)[i] = a[i]
  BY <1>1, ConcatProperties
<1> DEFINE new == a \o << y >>
<1> HIDE DEF new
<1>3. new \in Seq(States) /\ Len(new) # 0 /\ Len(new) - 1 <= Len(a)
  BY <1>2 DEF new
<1>4. \A i \in 1..(Len(new) - 1) : new[i] = a[i]
  <2>1. Len(new) - 1 = Len(a) /\ \A i \in 1..Len(a) : i \in 1..(Len(a) + 1) /\ i <= Len(a)
    BY <1>2 DEF new
  <2> QED BY <1>2, <2>1 DEF new
<1> QED BY <1>3, <1>4, ReplacesShape DEF new

\* A state in the place of the last.
LEMMA ReplacesEnd ==
    ASSUME NEW a \in Seq(States), NEW x \in States, NEW y \in States
    PROVE  Replaces(a \o << x >>, a \o << y >>)
<1> DEFINE old == a \o << x >>
           new == a \o << y >>
           n   == Len(a)
<1>1. Replaces(a, new) /\ Replaces(a, old)
  BY ReplacesBehind
<1>2. << y >> \in Seq(States) /\ << x >> \in Seq(States) /\ Len(<< y >>) = 1 /\ Len(<< x >>) = 1
  OBVIOUS
<1>3. /\ new \in Seq(States) /\ Len(new) = n + 1
      /\ old \in Seq(States) /\ Len(old) = n + 1 /\ n \in Nat
  BY <1>2, ConcatProperties
<1> HIDE DEF old, new, n
<1>4. /\ \A i \in 1..(Len(new) - 1) : new[i] = a[i]
      /\ \A i \in 1..(Len(old) - 1) : old[i] = a[i]
  BY <1>1, <1>3, ReplacesShape
<1>5. Len(new) # 0 /\ Len(new) - 1 <= Len(old)
  BY <1>3
<1>6. \A i \in 1..(Len(new) - 1) : new[i] = old[i]
  BY <1>3, <1>4
<1> QED BY <1>3, <1>5, <1>6, ReplacesShape DEF old, new

\* One replacement is what the register allows of a wake.
LEMMA ReplacesOnce ==
    ASSUME NEW old \in Seq(States), NEW new \in Seq(States), Replaces(old, new)
    PROVE  Register!Supersedes(old, new)
<1>1. /\ Len(new) # 0 /\ Len(new) - 1 <= Len(old)
      /\ \A i \in 1..(Len(new) - 1) : new[i] = old[i]
  BY ReplacesShape
<1>2. Len(new) - 1 \in Nat
  BY <1>1
<1> QED BY <1>1, <1>2, SupersedesShape

\* Two of them, one after the other: the macro's deadline in the same wake.
LEMMA ReplacesTwice ==
    ASSUME NEW a \in Seq(States), NEW b \in Seq(States), NEW c \in Seq(States),
           Replaces(a, b), Replaces(b, c)
    PROVE  Register!Supersedes(a, c)
<1>1. /\ Len(b) # 0 /\ Len(b) - 1 <= Len(a) /\ \A i \in 1..(Len(b) - 1) : b[i] = a[i]
      /\ Len(c) # 0 /\ Len(c) - 1 <= Len(b) /\ \A i \in 1..(Len(c) - 1) : c[i] = b[i]
      /\ Len(a) \in Nat /\ Len(b) \in Nat /\ Len(c) \in Nat
  BY ReplacesShape
<1>2. CASE Len(c) - 1 <= Len(b) - 1
  <2>1. Len(c) - 1 \in Nat /\ Len(c) - 1 <= Len(a)
    BY <1>1, <1>2
  <2>2. \A i \in 1..(Len(c) - 1) : c[i] = a[i]
    BY <1>1, <1>2
  <2> QED BY <2>1, <2>2, SupersedesShape
<1>3. CASE ~(Len(c) - 1 <= Len(b) - 1)
  <2>1. Len(c) - 2 \in Nat /\ Len(c) - 2 <= Len(a) /\ Len(c) - 2 = Len(b) - 1
    BY <1>1, <1>3
  <2>2. \A i \in 1..(Len(c) - 2) : c[i] = a[i]
    <3> TAKE i \in 1..(Len(c) - 2)
    <3>1. i \in 1..(Len(c) - 1) /\ i \in 1..(Len(b) - 1)
      BY <1>1, <2>1
    <3> QED BY <1>1, <3>1
  <2> QED BY <2>1, <2>2, SupersedesShape
<1> QED BY <1>2, <1>3

\* What a link holds.
LEMMA UnderType ==
    ASSUME NEW l \in Links, NEW s
    PROVE  /\ l.wire \o l.pending \in Seq(OutMsg)
           /\ Under(l, s) \in Seq(States) /\ StatesFor(l.wire, s) \in Seq(States)
           /\ StatesFor(l.pending, s) \in Seq(States)
           /\ Under(l, s) = StatesFor(l.wire, s) \o StatesFor(l.pending, s)
<1>1. l.wire \in Seq(OutMsg) /\ l.pending \in Seq(OutMsg)
  BY DEF Links
<1>2. l.wire \o l.pending \in Seq(OutMsg)
  BY <1>1, ConcatProperties
<1>3. /\ StatesFor(l.wire \o l.pending, s) \in Seq(States)
      /\ StatesFor(l.wire, s) \in Seq(States) /\ StatesFor(l.pending, s) \in Seq(States)
  BY <1>1, <1>2, StatesForType
<1>4. StatesFor(l.wire \o l.pending, s) = StatesFor(l.wire, s) \o StatesFor(l.pending, s)
  BY <1>1, StatesForConcat
<1> QED BY <1>2, <1>3, <1>4 DEF Under

\* A flush moves nothing in front of anything.
LEMMA FlushUnder ==
    ASSUME NEW l \in Links, NEW s
    PROVE  Under(Flush(l), s) = Under(l, s)
<1> DEFINE f == Flush(l)
           a == Len(l.wire)
           b == Len(l.pending)
<1>1. /\ f \in Links /\ l.wire \in Seq(OutMsg) /\ l.pending \in Seq(OutMsg)
      /\ a \in Nat /\ b \in Nat
  <2>1. Flush(l) \in Links
    BY FlushShape
  <2> QED BY <2>1, LinkDomains
<1>2. f.wire \in Seq(OutMsg) /\ f.pending \in Seq(OutMsg)
  <2>1. Flush(l) \in Links
    BY FlushShape
  <2> QED BY <2>1, LinkDomains
<1>3. PICK n \in 0..b :
         /\ Len(f.pending) = b - n
         /\ \A i \in 1..(b - n) : f.pending[i] = l.pending[i + n]
         /\ Len(f.wire) = a + n
         /\ \A i \in 1..a : f.wire[i] = l.wire[i]
         /\ \A i \in 1..n : f.wire[a + i] = l.pending[i]
  BY FlushShape
<1> HIDE DEF f, a, b
<1>4. /\ l.wire \o l.pending \in Seq(OutMsg) /\ Len(l.wire \o l.pending) = a + b
      /\ \A i \in 1..(a + b) :
            (l.wire \o l.pending)[i] = IF i <= a THEN l.wire[i] ELSE l.pending[i - a]
  BY <1>1, ConcatProperties DEF a, b
<1>5. /\ f.wire \o f.pending \in Seq(OutMsg)
      /\ Len(f.wire \o f.pending) = (a + n) + (b - n)
      /\ \A i \in 1..((a + n) + (b - n)) :
            (f.wire \o f.pending)[i] = IF i <= a + n THEN f.wire[i] ELSE f.pending[i - (a + n)]
  <2>1. /\ f.wire \o f.pending \in Seq(OutMsg)
        /\ Len(f.wire \o f.pending) = Len(f.wire) + Len(f.pending)
        /\ \A i \in 1..(Len(f.wire) + Len(f.pending)) :
              (f.wire \o f.pending)[i] =
                 IF i <= Len(f.wire) THEN f.wire[i] ELSE f.pending[i - Len(f.wire)]
    BY <1>2, ConcatProperties
  <2>2. Len(f.wire) = a + n /\ Len(f.pending) = b - n
    BY <1>3
  <2> QED BY <2>1, <2>2
<1>6. \A i \in 1..(a + b) : (f.wire \o f.pending)[i] = (l.wire \o l.pending)[i]
  <2> TAKE i \in 1..(a + b)
  <2>0. i \in 1..((a + n) + (b - n))
    BY <1>1, <1>3
  <2>1. CASE i <= a
    <3>1. i \in 1..a /\ i <= a + n
      BY <1>1, <1>3, <2>1
    <3> QED BY <1>3, <1>4, <1>5, <2>0, <2>1, <3>1
  <2>2. CASE ~(i <= a) /\ i <= a + n
    <3>1. i - a \in 1..n /\ a + (i - a) = i
      BY <1>1, <1>3, <2>2
    <3>2. f.wire[i] = l.pending[i - a]
      BY <1>3, <3>1
    <3> QED BY <1>4, <1>5, <2>0, <2>2, <3>2
  <2>3. CASE ~(i <= a + n)
    <3>1. i - (a + n) \in 1..(b - n) /\ i - (a + n) + n = i - a /\ ~(i <= a)
      BY <1>1, <1>3, <2>3
    <3>2. f.pending[i - (a + n)] = l.pending[i - a]
      BY <1>3, <3>1
    <3> QED BY <1>4, <1>5, <2>0, <2>3, <3>1, <3>2
  <2> QED BY <2>1, <2>2, <2>3
<1>7. (a + n) + (b - n) = a + b
  BY <1>1, <1>3
<1>8. f.wire \o f.pending = l.wire \o l.pending
  BY <1>4, <1>5, <1>6, <1>7, SeqEqual
<1> QED BY <1>8 DEF Under, f

\* A send takes back at most what waits for a slot and puts its newest state
\* last; where nothing moved it changes nothing.
LEMMA SendUnder ==
    ASSUME NEW l \in Links, NEW v \in [Slots -> States], NEW w \in [Slots -> States],
           \A i, j \in DOMAIN l.pending : l.pending[i].slot = l.pending[j].slot => i = j,
           NEW l2 \in Send(l, v, w), NEW s \in Slots
    PROVE  \/ Under(l2, s) = Under(l, s)
           \/ Replaces(Under(l, s), Under(l2, s))
<1>1. CASE ~(l2 # l \/ v # w)
  BY <1>1
<1>2. CASE l2 # l \/ v # w
  <2>1. PICK m \in Nat : \E c \in Links, q \in [1..m -> Slots] : Batch(l, v, w, l2, c, m, q)
    BY <1>2, BatchShape
  <2>2. PICK c \in Links, q \in [1..m -> Slots] : Batch(l, v, w, l2, c, m, q)
    BY <2>1
  <2> DEFINE b == Len(l.pending)
             p == l.pending
             d == c.pending
  <2>3. /\ l2 = Flush(c) /\ c.wire = l.wire /\ Len(d) = b + m
        /\ \A i \in 1..b : /\ d[i].slot = p[i].slot
                           /\ d[i].state = IF v[p[i].slot] # w[p[i].slot]
                                           THEN w[p[i].slot] ELSE p[i].state
        /\ \A i \in 1..m : d[b + i] = [slot |-> q[i], state |-> w[q[i]]]
        /\ \A i, j \in 1..m : q[i] = q[j] => i = j
        /\ \A i \in 1..m : q[i] \notin Waiting(l)
    BY <2>2 DEF Batch
  <2>4. /\ p \in Seq(OutMsg) /\ d \in Seq(OutMsg) /\ b \in Nat /\ m \in Nat
        /\ b = Len(p) /\ DOMAIN p = 1..b /\ \A i \in 1..b : p[i].slot \in Waiting(l)
    BY LinkDomains DEF Waiting
  <2>5. Under(l2, s) = Under(c, s)
    BY <2>3, FlushUnder
  <2>6. /\ Under(c, s) = StatesFor(l.wire, s) \o StatesFor(d, s)
        /\ Under(l, s) = StatesFor(l.wire, s) \o StatesFor(p, s)
        /\ StatesFor(l.wire, s) \in Seq(States)
    <3>1. Under(c, s) = StatesFor(c.wire, s) \o StatesFor(c.pending, s)
      BY UnderType
    <3>2. /\ Under(l, s) = StatesFor(l.wire, s) \o StatesFor(l.pending, s)
          /\ StatesFor(l.wire, s) \in Seq(States)
      BY UnderType
    <3>3. c.wire = l.wire
      BY <2>3
    <3> QED BY <3>1, <3>2, <3>3
  <2>7. \A i \in 1..(b + m) : i \in 1..b \/ \E k \in 1..m : i = b + k
    <3> TAKE i \in 1..(b + m)
    <3>1. i \in 1..b \/ (i - b \in 1..m /\ i = b + (i - b))
      BY <2>4
    <3> QED BY <3>1
  <2>8. \A i \in 1..b : i \in 1..(b + m)
    BY <2>4
  <2>9. \A i \in 1..m : b + i \in 1..(b + m) /\ ~(b + i \in 1..b)
    BY <2>4
  <2> HIDE DEF b, p, d
  <2>10. \A i \in 1..m : d[b + i].slot = q[i] /\ d[b + i].state = w[q[i]]
    <3> TAKE i \in 1..m
    <3>1. d[b + i] = [slot |-> q[i], state |-> w[q[i]]]
      BY <2>3
    <3> QED BY <3>1
  <2>11. CASE \E i \in 1..b : p[i].slot = s
    <3>1. PICK i \in 1..b : p[i].slot = s
      BY <2>11
    <3>2. \A j \in 1..b : p[j].slot = s => j = i
      BY <2>4, <3>1 DEF p
    <3>3. StatesFor(p, s) = << p[i].state >>
      BY <2>4, <3>1, <3>2, StatesForOne
    <3>4. \A j \in 1..(b + m) : d[j].slot = s => j = i
      <4> TAKE j \in 1..(b + m)
      <4> HAVE d[j].slot = s
      <4>1. CASE j \in 1..b
        BY <2>3, <3>2, <4>1
      <4>2. ASSUME NEW k \in 1..m, j = b + k PROVE FALSE
        <5>1. q[k] = s
          BY <2>10, <4>2
        <5>2. s \in Waiting(l)
          BY <2>4, <3>1
        <5> QED BY <2>3, <5>1, <5>2
      <4> QED BY <2>7, <4>1, <4>2
    <3>5. StatesFor(d, s) = << d[i].state >>
      <4>1. i \in 1..Len(d) /\ d[i].slot = s /\ \A j \in 1..Len(d) : d[j].slot = s => j = i
        BY <2>3, <2>8, <3>1, <3>4
      <4> QED BY <2>4, <4>1, StatesForOne
    <3>6. d[i].state \in States
      <4>1. i \in 1..Len(d)
        BY <2>3, <2>8, <3>1
      <4>2. d[i] \in OutMsg
        BY <2>4, <4>1, ElementOfSeq
      <4> QED BY <4>2 DEF OutMsg
    <3>7. p[i].state \in States
      <4>1. p[i] \in OutMsg
        BY <2>4, <3>1, ElementOfSeq
      <4> QED BY <4>1 DEF OutMsg
    <3>8. Replaces(Under(l, s), Under(c, s))
      BY <2>6, <3>3, <3>5, <3>6, <3>7, ReplacesEnd
    <3> QED BY <2>5, <3>8
  <2>12. CASE ~(\E i \in 1..b : p[i].slot = s) /\ \E k \in 1..m : q[k] = s
    <3>1. PICK k \in 1..m : q[k] = s
      BY <2>12
    <3>2. StatesFor(p, s) = << >>
      BY <2>4, <2>12, StatesForNone
    <3>3. \A j \in 1..(b + m) : d[j].slot = s => j = b + k
      <4> TAKE j \in 1..(b + m)
      <4> HAVE d[j].slot = s
      <4>1. CASE j \in 1..b
        BY <2>3, <2>12, <4>1
      <4>2. ASSUME NEW i \in 1..m, j = b + i PROVE j = b + k
        BY <2>3, <2>10, <3>1, <4>2
      <4> QED BY <2>7, <4>1, <4>2
    <3>4. b + k \in 1..Len(d) /\ d[b + k].slot = s /\ \A j \in 1..Len(d) : d[j].slot = s => j = b + k
      BY <2>3, <2>9, <2>10, <3>1, <3>3
    <3>5. StatesFor(d, s) = << d[b + k].state >>
      BY <2>4, <3>4, StatesForOne
    <3>6. d[b + k].state \in States
      <4>1. d[b + k] \in OutMsg
        BY <2>4, <3>4, ElementOfSeq
      <4> QED BY <4>1 DEF OutMsg
    <3>7. Replaces(Under(l, s), Under(c, s))
      <4>1. Under(l, s) = StatesFor(l.wire, s)
        BY <2>6, <3>2, ConcatEmptySeq
      <4> QED BY <2>6, <3>5, <3>6, <4>1, ReplacesBehind
    <3> QED BY <2>5, <3>7
  <2>13. CASE ~(\E i \in 1..b : p[i].slot = s) /\ ~(\E k \in 1..m : q[k] = s)
    <3>1. StatesFor(p, s) = << >>
      BY <2>4, <2>13, StatesForNone
    <3>2. \A j \in 1..(b + m) : d[j].slot # s
      <4> TAKE j \in 1..(b + m)
      <4>1. CASE j \in 1..b
        BY <2>3, <2>13, <4>1
      <4>2. ASSUME NEW i \in 1..m, j = b + i PROVE d[j].slot # s
        BY <2>10, <2>13, <4>2
      <4> QED BY <2>7, <4>1, <4>2
    <3>3. StatesFor(d, s) = << >>
      BY <2>3, <2>4, <3>2, StatesForNone
    <3> QED BY <2>5, <2>6, <3>1, <3>3
  <2> QED BY <2>11, <2>12, <2>13
<1> QED BY <1>1, <1>2

-----------------------------------------------------------------------------
(* The pipeline as the abstract register. *)

\* the register's live
Up == engine # "done" /\ output \in {"plugging", "on"}

\* The first of two parts is a beginning of the whole.
LEMMA FirstPart ==
    ASSUME NEW a \in Seq(States), NEW b \in Seq(States)
    PROVE  /\ a \o b \in Seq(States) /\ Len(a) \in 0..Len(a \o b)
           /\ SubSeq(a \o b, 1, Len(a)) = a
<1>1. /\ a \o b \in Seq(States) /\ Len(a \o b) = Len(a) + Len(b)
      /\ Len(a) \in Nat /\ Len(b) \in Nat
      /\ \A i \in 1..(Len(a) + Len(b)) : i <= Len(a) => (a \o b)[i] = a[i]
  BY ConcatProperties
<1>2. Len(a) \in 0..Len(a \o b) /\ Len(a) \in 0..Len(a)
  BY <1>1
<1>3. \A i \in 1..Len(a) : (a \o b)[i] = a[i]
  BY <1>1
<1>4. SubSeq(a \o b, 1, Len(a)) = SubSeq(a, 1, Len(a))
  BY <1>1, <1>2, <1>3, SameBeginning
<1> QED BY <1>1, <1>2, <1>4, SubSeqFull

\* Of nothing, nothing is a beginning; of anything, nothing is one.
LEMMA NothingAhead ==
    ASSUME NEW q \in Seq(States)
    PROVE  << >> \in Seq(States) /\ \E k \in 0..Len(q) : << >> = SubSeq(q, 1, k)
<1>1. SubSeq(q, 1, 0) = << >>
  BY SubSeqEmpty
<1>2. 0 \in 0..Len(q) /\ << >> \in Seq(States)
  OBVIOUS
<1> QED BY <1>1, <1>2

\* What is ahead is what the link holds, while a pad may still show it.
LEMMA AheadIs ==
    /\ \A s : Ahead(s) = IF output \in {"plugging", "on"} THEN Under(link, s) ELSE << >>
    /\ \A s : Ahead(s)' = IF output' \in {"plugging", "on"} THEN Under(link', s) ELSE << >>
  BY DEF Ahead, Under

\* Nothing that a reader of the register sees.
LEMMA Stutters ==
    ASSUME pad' = pad, \A s \in Slots : Ahead(s)' = Ahead(s), Up' = Up
    PROVE  UNCHANGED Register!vars
  BY DEF Register!vars, Up

\* The end of the register: a worker is gone.
LEMMA EndsRegister ==
    ASSUME ~Up', pad' \in [Slots -> States], \A s \in Slots : pad'[s] \in {pad[s], Neutral},
           \A s \in Slots : Ahead(s)' \in Seq(States),
           \A s \in Slots : \/ \E k \in 0..Len(Ahead(s)) : Ahead(s)' = SubSeq(Ahead(s), 1, k)
                            \/ Up /\ Register!Supersedes(Ahead(s), Ahead(s)')
    PROVE  Register!End
<1> DEFINE old == [s \in Slots |-> Ahead(s)]
           new == [s \in Slots |-> Ahead(s)']
<1>1. new \in [Slots -> Seq(States)]
  OBVIOUS
<1>2. ASSUME NEW s \in Slots
      PROVE  \/ \E i \in 1..(Len(old[s]) + 1), j \in 0..Len(old[s]) :
                   new[s] = SubSeq(old[s], i, j)
             \/ Up /\ Register!Supersedes(old[s], new[s])
  <2>1. CASE \E k \in 0..Len(Ahead(s)) : Ahead(s)' = SubSeq(Ahead(s), 1, k)
    <3>1. PICK k \in 0..Len(Ahead(s)) : Ahead(s)' = SubSeq(Ahead(s), 1, k)
      BY <2>1
    <3>2. Len(Ahead(s)) >= 0 \/ 0..Len(Ahead(s)) = {}
      OBVIOUS
    <3>3. 1 \in 1..(Len(Ahead(s)) + 1)
      BY <3>1
    <3> QED BY <3>1, <3>3
  <2>2. CASE Up /\ Register!Supersedes(Ahead(s), Ahead(s)')
    BY <2>2
  <2> QED BY <2>1, <2>2
<1>3. (Up <=> engine # "done" /\ output \in {"plugging", "on"}) /\ ~Up'
  BY DEF Up
<1> QED BY <1>1, <1>2, <1>3 DEF Register!End, Up

\* What the engine forwards is asked of the register.
LEMMA ForwardAsks ==
    ASSUME IInv, EngineRuns, NEW h, NEW p, NEW ks, NEW cs, NEW l \in Links,
           Forward(l, h, p, ks, cs),
           output = "on" => \A s \in Slots : \/ Under(l, s) = Under(link, s)
                                             \/ Register!Supersedes(Under(link, s), Under(l, s))
    PROVE  [Register!Next]_(Register!vars)
<1>1. engine = "on" /\ output # "plugging" /\ pad' = pad /\ output' = output
  BY DEF IInv, Stage, EngineRuns, back
<1>2. CASE output = "on"
  <2>1. engine' = engine /\ link' = l
    BY <1>2 DEF Forward
  <2>2. \A s \in Slots : Ahead(s) = Under(link, s) /\ Ahead(s)' = Under(l, s)
    BY <1>1, <1>2, <2>1, AheadIs
  <2>3. \A s \in Slots : Under(l, s) \in Seq(States)
    BY UnderType
  <2>4. Register!Ask
    <3> DEFINE old == [s \in Slots |-> Ahead(s)]
               new == [s \in Slots |-> Ahead(s)']
    <3>1. new \in [Slots -> Seq(States)]
      BY <2>2, <2>3
    <3>2. \A s \in Slots : new[s] = old[s] \/ Register!Supersedes(old[s], new[s])
      BY <1>2, <2>2
    <3> QED BY <1>1, <1>2, <2>1, <3>1, <3>2 DEF Register!Ask
  <2> QED BY <2>4 DEF Register!Next
<1>3. CASE output # "on"
  <2>1. \A s \in Slots : Ahead(s) = << >> /\ Ahead(s)' = << >>
    BY <1>1, <1>3, AheadIs
  <2>2. Up' = Up
    BY <1>1, <1>3 DEF Up
  <2> QED BY <1>1, <2>1, <2>2, Stutters
<1> QED BY <1>2, <1>3

\* A link that carries its states holds one at most for a slot.
LEMMA CarriesOnce ==
    ASSUME NEW l, NEW v, Carries(l, v)
    PROVE  /\ l \in Links
           /\ \A i, j \in DOMAIN l.pending : l.pending[i].slot = l.pending[j].slot => i = j
  BY DEF Carries

\* A wake asks twice at most.
LEMMA WakeAsks ==
    ASSUME IInv, EngineRuns, NEW h \in SUBSET Devices, NEW p \in SUBSET Slots,
           NEW ks, NEW cs, Wake(h, p, ks, cs)
    PROVE  [Register!Next]_(Register!vars)
<1>1. PICK due \in SUBSET p, l1 \in Send(link, StateOf(held, playing), StateOf(h, p)) :
      \E l2 \in Send(l1, StateOf(h, p), StateOf(h, p \ due)) :
         Forward(l2, h, p \ due, ks, cs)
  BY DEF Wake
<1>2. PICK l2 \in Send(l1, StateOf(h, p), StateOf(h, p \ due)) :
         Forward(l2, h, p \ due, ks, cs)
  BY <1>1
<1>3. /\ link \in Links
      /\ StateOf(held, playing) \in [Slots -> States]
      /\ StateOf(h, p) \in [Slots -> States]
      /\ StateOf(h, p \ due) \in [Slots -> States]
  BY StateOfType DEF IInv, TypeOK
<1>4. l1 \in Links /\ l2 \in Links
  BY <1>2, <1>3, SendLinks
<1>5. ASSUME output = "on", NEW s \in Slots
      PROVE  \/ Under(l2, s) = Under(link, s)
             \/ Register!Supersedes(Under(link, s), Under(l2, s))
  <2>1. Carries(link, StateOf(held, playing))
    BY <1>5 DEF IInv, Carried, EngineRuns
  <2>2. Carries(l1, StateOf(h, p))
    BY <1>3, <2>1, SendCarries
  <2>3. Under(l1, s) = Under(link, s) \/ Replaces(Under(link, s), Under(l1, s))
    BY <1>3, <2>1, CarriesOnce, SendUnder
  <2>4. Under(l2, s) = Under(l1, s) \/ Replaces(Under(l1, s), Under(l2, s))
    BY <1>2, <1>3, <2>2, CarriesOnce, SendUnder
  <2>5. /\ Under(link, s) \in Seq(States) /\ Under(l1, s) \in Seq(States)
        /\ Under(l2, s) \in Seq(States)
    BY <1>3, <1>4, UnderType
  <2> QED BY <2>3, <2>4, <2>5, ReplacesOnce, ReplacesTwice
<1> QED BY <1>2, <1>4, <1>5, ForwardAsks

\* The engine ends with w on the wire: what it holds for a slot is the
\* beginning of what was ahead, or of what the last send asked for.
LEMMA EngineEndsRegister ==
    ASSUME IInv, EngineRuns, NEW w \in Seq(OutMsg), EngineEnds(w),
           output = "on" => \A s \in Slots :
              \/ \E k \in 0..Len(Under(link, s)) : StatesFor(w, s) = SubSeq(Under(link, s), 1, k)
              \/ Register!Supersedes(Under(link, s), StatesFor(w, s))
    PROVE  [Register!Next]_(Register!vars)
<1>1. /\ engine = "on" /\ output # "plugging" /\ pad' = pad /\ output' = output
      /\ engine' = "done" /\ link' = [pending |-> << >>, wire |-> w] /\ pad \in [Slots -> States]
  BY DEF IInv, TypeOK, Stage, EngineRuns, EngineEnds, back
<1>2. ~Up'
  BY <1>1 DEF Up
<1>3. \A s : Under(link', s) = StatesFor(w, s)
  <2>1. w \o << >> = w
    BY ConcatEmptySeq
  <2> QED BY <1>1, <2>1 DEF Under
<1>4. ASSUME NEW s \in Slots
      PROVE  /\ Ahead(s)' \in Seq(States)
             /\ \/ \E k \in 0..Len(Ahead(s)) : Ahead(s)' = SubSeq(Ahead(s), 1, k)
                \/ Up /\ Register!Supersedes(Ahead(s), Ahead(s)')
  <2>1. CASE output = "on"
    <3>1. Ahead(s) = Under(link, s) /\ Ahead(s)' = StatesFor(w, s) /\ Up
      BY <1>1, <1>3, <2>1, AheadIs DEF Up
    <3>2. StatesFor(w, s) \in Seq(States)
      BY StatesForType
    <3> QED BY <2>1, <3>1, <3>2
  <2>2. CASE output # "on"
    <3>1. Ahead(s) = << >> /\ Ahead(s)' = << >>
      BY <1>1, <2>2, AheadIs
    <3>2. << >> \in Seq(States)
      BY EmptySeq
    <3> QED BY <3>1, <3>2, NothingAhead
  <2> QED BY <2>1, <2>2
<1>5. Register!End
  BY <1>1, <1>2, <1>4, EndsRegister
<1> QED BY <1>5 DEF Register!Next

\* What the last send of an engine that ends gets on the wire.
LEMMA CutOff ==
    ASSUME NEW old \in Seq(States), NEW full \in Seq(States), NEW a \in Seq(States),
           full = old \/ Replaces(old, full),
           Len(a) \in 0..Len(full), SubSeq(full, 1, Len(a)) = a
    PROVE  \/ \E k \in 0..Len(old) : a = SubSeq(old, 1, k)
           \/ Register!Supersedes(old, a)
<1>1. CASE full = old
  BY <1>1
<1>2. CASE Replaces(old, full) /\ Len(a) = Len(full)
  <2>1. a = full
    BY <1>2, SubSeqFull
  <2> QED BY <1>2, <2>1, ReplacesOnce
<1>3. CASE Replaces(old, full) /\ Len(a) # Len(full)
  <2>1. /\ Len(full) # 0 /\ Len(full) - 1 <= Len(old)
        /\ \A i \in 1..(Len(full) - 1) : full[i] = old[i]
        /\ Len(full) \in Nat /\ Len(old) \in Nat /\ Len(a) \in Nat
    BY <1>3, ReplacesShape
  <2>2. Len(a) \in 0..Len(old) /\ Len(a) <= Len(full) - 1
    BY <1>3, <2>1
  <2>3. \A i \in 1..Len(a) : full[i] = old[i]
    BY <2>1, <2>2
  <2>4. SubSeq(full, 1, Len(a)) = SubSeq(old, 1, Len(a))
    BY <2>2, <2>3, SameBeginning
  <2> QED BY <2>2, <2>4
<1> QED BY <1>1, <1>2, <1>3

\* A sequence with one element put before it.
LEMMA OneBefore ==
    ASSUME NEW x \in States, NEW q \in Seq(States), NEW r, r = << x >> \o q
    PROVE  r # << >> /\ Head(r) = x /\ Tail(r) = q
<1>1. << x >> \in Seq(States) /\ Len(<< x >>) = 1 /\ << x >>[1] = x /\ Len(q) \in Nat
  OBVIOUS
<1>2. /\ r \in Seq(States) /\ Len(r) = 1 + Len(q)
      /\ \A i \in 1..(1 + Len(q)) : r[i] = IF i <= 1 THEN << x >>[i] ELSE q[i - 1]
  BY <1>1, ConcatProperties
<1>3. r # << >> /\ 1 \in 1..(1 + Len(q))
  BY <1>1, <1>2
<1>4. r[1] = x
  BY <1>1, <1>2, <1>3
<1>5. /\ Head(r) = r[1] /\ Tail(r) \in Seq(States) /\ Len(Tail(r)) = Len(q)
      /\ \A i \in 1..Len(q) : Tail(r)[i] = r[i + 1]
  BY <1>1, <1>2, <1>3, HeadTailProperties
<1>6. \A i \in 1..Len(q) : i + 1 \in 1..(1 + Len(q)) /\ ~(i + 1 <= 1) /\ (i + 1) - 1 = i
  BY <1>1
<1>7. \A i \in 1..Len(q) : Tail(r)[i] = q[i]
  BY <1>2, <1>5, <1>6
<1>8. Tail(r) = q
  BY <1>5, <1>7, SeqEqual
<1> QED BY <1>3, <1>4, <1>5, <1>8

\* The pads may not show any more of what was ahead.
LEMMA GoneEnds ==
    ASSUME TypeOK, ~Up', \A s \in Slots : Ahead(s)' = << >>,
           pad' \in [Slots -> States], \A s \in Slots : pad'[s] \in {pad[s], Neutral}
    PROVE  [Register!Next]_(Register!vars)
<1>1. ASSUME NEW s \in Slots
      PROVE  /\ Ahead(s)' \in Seq(States)
             /\ \E k \in 0..Len(Ahead(s)) : Ahead(s)' = SubSeq(Ahead(s), 1, k)
  <2>1. Ahead(s) \in Seq(States)
    <3>1. Under(link, s) \in Seq(States)
      BY UnderType DEF TypeOK
    <3>2. << >> \in Seq(States)
      BY EmptySeq
    <3> QED BY <3>1, <3>2, AheadIs
  <2> QED BY <2>1, NothingAhead
<1>2. Register!End
  BY <1>1, EndsRegister
<1> QED BY <1>2 DEF Register!Next

\* Every step of the engine thread.
LEMMA EngineIsRegister ==
    ASSUME IInv, EngineStep \/ EnginePanics
    PROVE  [Register!Next]_(Register!vars)
<1>0. /\ link \in Links /\ link.wire \in Seq(OutMsg)
      /\ held \in SUBSET Devices /\ playing \in SUBSET Slots
      /\ keys \in Seq([dev : Devices, down : BOOLEAN]) /\ ctl \in Seq(Commands)
  BY DEF IInv, TypeOK, Links
<1>w. \A s \in Slots : \E k \in 0..Len(Under(link, s)) :
         StatesFor(link.wire, s) = SubSeq(Under(link, s), 1, k)
  <2> TAKE s \in Slots
  <2>1. /\ StatesFor(link.wire, s) \in Seq(States) /\ StatesFor(link.pending, s) \in Seq(States)
        /\ Under(link, s) = StatesFor(link.wire, s) \o StatesFor(link.pending, s)
    BY <1>0, UnderType
  <2>2. /\ Len(StatesFor(link.wire, s)) \in 0..Len(Under(link, s))
        /\ SubSeq(Under(link, s), 1, Len(StatesFor(link.wire, s))) = StatesFor(link.wire, s)
    BY <2>1, FirstPart
  <2> QED BY <2>2
<1>1. CASE EngineKey
  <2>0. EngineRuns /\ Head(keys) \in [dev : Devices, down : BOOLEAN]
    BY <1>0, <1>1, HeadTailProperties DEF EngineKey
  <2>1. /\ EngineRuns /\ Head(keys).dev \in Devices
        /\ Feeds[Head(keys).dev] \cap MacroSlots \in SUBSET Slots
    BY <2>0, PipelineAssumption
  <2>2. CASE Head(keys).down
    <3> DEFINE p == IF Head(keys).dev \in held THEN playing
                    ELSE playing \cup (Feeds[Head(keys).dev] \cap MacroSlots)
    <3>1. Wake(held \cup {Head(keys).dev}, p, Tail(keys), ctl)
      BY <1>1, <2>2 DEF EngineKey
    <3>2. p \in SUBSET Slots /\ held \cup {Head(keys).dev} \in SUBSET Devices
      BY <1>0, <2>1
    <3> HIDE DEF p
    <3> QED BY <2>1, <3>1, <3>2, WakeAsks
  <2>3. CASE ~Head(keys).down
    <3>1. Wake(held \ {Head(keys).dev}, playing, Tail(keys), ctl)
      BY <1>1, <2>3 DEF EngineKey
    <3>2. held \ {Head(keys).dev} \in SUBSET Devices
      BY <1>0
    <3> QED BY <1>0, <2>1, <3>1, <3>2, WakeAsks
  <2> QED BY <2>2, <2>3
<1>2. CASE EngineHangsUp
  BY <1>0, <1>2, <1>w, EngineEndsRegister DEF EngineHangsUp
<1>3. CASE EngineCommand
  <2>1. EngineRuns
    BY <1>3 DEF EngineCommand
  <2>2. CASE Release(Head(ctl).dev)
    <3> DEFINE h == held \ {Head(ctl).dev}
               p == playing \ Feeds[Head(ctl).dev]
    <3>1. Wake(h, p, keys, Tail(ctl)) /\ h \in SUBSET Devices /\ p \in SUBSET Slots
      BY <1>0, <2>2 DEF Release
    <3> HIDE DEF h, p
    <3> QED BY <2>1, <3>1, WakeAsks
  <2>3. CASE Swap
    <3>1. {} \in SUBSET Devices /\ {} \in SUBSET Slots
      OBVIOUS
    <3> QED BY <2>1, <2>3, <3>1, WakeAsks DEF Swap
  <2>4. CASE Cancel
    <3>1. {} \in SUBSET Slots
      OBVIOUS
    <3> QED BY <1>0, <2>1, <2>4, <3>1, WakeAsks DEF Cancel
  <2> QED BY <1>3, <2>2, <2>3, <2>4 DEF EngineCommand
<1>4. CASE EngineStops
  <2>1. PICK l \in Send(link, StateOf(held, playing), StateOf(held, {})) :
           EngineEnds(IF output = "dead" THEN << >> ELSE l.wire)
    BY <1>4 DEF EngineStops
  <2>2. /\ StateOf(held, playing) \in [Slots -> States]
        /\ StateOf(held, {}) \in [Slots -> States]
    BY <1>0, StateOfType
  <2>3. l \in Links /\ l.wire \in Seq(OutMsg) /\ EngineRuns
    <3>1. l \in Links
      BY <1>0, <2>2, SendLinks
    <3> QED BY <1>4, <3>1 DEF Links, EngineStops
  <2> DEFINE w == IF output = "dead" THEN << >> ELSE l.wire
  <2>4. w \in Seq(OutMsg) /\ (output = "on" => w = l.wire)
    <3>1. << >> \in Seq(OutMsg)
      BY EmptySeq
    <3> QED BY <2>3, <3>1
  <2>5. EngineEnds(w)
    BY <2>1
  <2> HIDE DEF w
  <2>6. ASSUME output = "on", NEW s \in Slots
        PROVE  \/ \E k \in 0..Len(Under(link, s)) :
                     StatesFor(w, s) = SubSeq(Under(link, s), 1, k)
               \/ Register!Supersedes(Under(link, s), StatesFor(w, s))
    <3>1. Carries(link, StateOf(held, playing))
      BY <2>3, <2>6 DEF IInv, Carried, EngineRuns
    <3>2. Under(l, s) = Under(link, s) \/ Replaces(Under(link, s), Under(l, s))
      BY <2>2, <3>1, CarriesOnce, SendUnder
    <3>3. /\ StatesFor(l.wire, s) \in Seq(States) /\ StatesFor(l.pending, s) \in Seq(States)
          /\ Under(l, s) = StatesFor(l.wire, s) \o StatesFor(l.pending, s)
          /\ Under(l, s) \in Seq(States) /\ Under(link, s) \in Seq(States)
      BY <1>0, <2>3, UnderType
    <3>4. /\ Len(StatesFor(l.wire, s)) \in 0..Len(Under(l, s))
          /\ SubSeq(Under(l, s), 1, Len(StatesFor(l.wire, s))) = StatesFor(l.wire, s)
      BY <3>3, FirstPart
    <3>5. StatesFor(w, s) = StatesFor(l.wire, s)
      BY <2>4, <2>6
    <3> QED BY <3>2, <3>3, <3>4, <3>5, CutOff
  <2> QED BY <2>3, <2>4, <2>5, <2>6, EngineEndsRegister
<1>5. CASE EngineIdle
  <2>1. PICK due \in SUBSET playing : Idle(due)
    BY <1>5 DEF EngineIdle
  <2>2. PICK l \in Send(Flush(link), StateOf(held, playing), StateOf(held, playing \ due)) :
           EngineRuns /\ Forward(l, held, playing \ due, keys, ctl)
    BY <2>1 DEF Idle
  <2>3. /\ StateOf(held, playing) \in [Slots -> States]
        /\ StateOf(held, playing \ due) \in [Slots -> States]
        /\ playing \ due \in SUBSET Slots /\ Flush(link) \in Links
    BY <1>0, StateOfType, FlushShape
  <2>4. l \in Links
    BY <2>2, <2>3, SendLinks
  <2>5. ASSUME output = "on", NEW s \in Slots
        PROVE  \/ Under(l, s) = Under(link, s)
               \/ Register!Supersedes(Under(link, s), Under(l, s))
    <3>1. Carries(link, StateOf(held, playing))
      BY <2>2, <2>5 DEF IInv, Carried, EngineRuns
    <3>2. Carries(Flush(link), StateOf(held, playing))
      BY <2>3, <3>1, FlushCarries
    <3>3. Under(l, s) = Under(Flush(link), s) \/ Replaces(Under(Flush(link), s), Under(l, s))
      BY <2>2, <2>3, <3>2, CarriesOnce, SendUnder
    <3>4. Under(Flush(link), s) = Under(link, s)
      BY <1>0, FlushUnder
    <3>5. Under(link, s) \in Seq(States) /\ Under(l, s) \in Seq(States)
      BY <1>0, <2>4, UnderType
    <3> QED BY <3>3, <3>4, <3>5, ReplacesOnce
  <2> QED BY <2>2, <2>4, <2>5, ForwardAsks
<1>6. CASE EnginePanics
  BY <1>0, <1>6, <1>w, EngineEndsRegister DEF EnginePanics
<1> QED BY <1>1, <1>2, <1>3, <1>4, <1>5, <1>6 DEF EngineStep

\* The output thread takes a state off the wire.
LEMMA DeliverIsRegister ==
    ASSUME IInv, IInv', Deliver
    PROVE  [Register!Next]_(Register!vars)
<1> DEFINE w == link.wire
           m == Head(link.wire)
<1>1. /\ link \in Links /\ w \in Seq(OutMsg) /\ link.pending \in Seq(OutMsg) /\ w # << >>
      /\ pad \in [Slots -> States] /\ pad' \in [Slots -> States]
      /\ engine' = engine /\ link' = [link EXCEPT !.wire = Tail(w)]
  BY DEF IInv, TypeOK, Links, Deliver
<1>2. m \in OutMsg /\ Tail(w) \in Seq(OutMsg) /\ m.slot \in Slots /\ m.state \in States
  <2>1. m \in OutMsg /\ Tail(w) \in Seq(OutMsg)
    BY <1>1, HeadTailProperties
  <2> QED BY <2>1 DEF OutMsg
<1>3. link'.wire = Tail(w) /\ link'.pending = link.pending
  BY <1>1 DEF Links
<1>4. ASSUME NEW s \in Slots
      PROVE  /\ Under(link', s) \in Seq(States)
             /\ Under(link, s) = IF m.slot = s THEN << m.state >> \o Under(link', s)
                                 ELSE Under(link', s)
  <2> DEFINE a == StatesFor(Tail(w), s)
             b == StatesFor(link.pending, s)
  <2>1. /\ a \in Seq(States) /\ b \in Seq(States) /\ << m.state >> \in Seq(States)
    <3>1. << m.state >> \in Seq(States)
      BY <1>2
    <3> QED BY <1>1, <1>2, <3>1, StatesForType
  <2>2. Under(link, s) = StatesFor(w, s) \o b
    <3>1. Under(link, s) = StatesFor(link.wire, s) \o StatesFor(link.pending, s)
      BY <1>1, UnderType
    <3> QED BY <3>1
  <2>3. Under(link', s) = a \o b
    <3>1. Under(link', s) = StatesFor(link'.wire \o link'.pending, s)
      BY DEF Under
    <3>2. Under(link', s) = StatesFor(Tail(w) \o link.pending, s)
      BY <1>3, <3>1
    <3> QED BY <1>1, <1>2, <3>2, StatesForConcat
  <2>4. StatesFor(w, s) = IF m.slot = s THEN << m.state >> \o a ELSE a
    <3>1. \A u \in Seq(OutMsg) : u # << >> =>
             StatesFor(u, s) = IF Head(u).slot = s
                               THEN << Head(u).state >> \o StatesFor(Tail(u), s)
                               ELSE StatesFor(Tail(u), s)
      BY StatesForTail
    <3> QED BY <1>1, <3>1
  <2>5. (<< m.state >> \o a) \o b = << m.state >> \o (a \o b)
    BY <2>1, ConcatAssociative
  <2>6. a \o b \in Seq(States)
    BY <2>1, ConcatProperties
  <2> HIDE DEF a, b
  <2> QED BY <2>2, <2>3, <2>4, <2>5, <2>6
<1>5. CASE output = "on" /\ output' = "on"
  <2>0. PICK p \in Slots : p = m.slot
    BY <1>2
  <2>1. \A s \in Slots : Ahead(s) = Under(link, s) /\ Ahead(s)' = Under(link', s)
    BY <1>5, AheadIs
  <2>2. Ahead(p) # << >> /\ Head(Ahead(p)) = m.state /\ Tail(Ahead(p)) = Ahead(p)'
    <3>1. Ahead(p) = << m.state >> \o Ahead(p)' /\ Ahead(p)' \in Seq(States)
      BY <1>4, <2>0, <2>1
    <3> QED BY <1>2, <3>1, OneBefore
  <2>3. \A s \in Slots : s # p => Ahead(s)' = Ahead(s)
    BY <1>4, <2>0, <2>1
  <2>4. Register!Show(p)
    <3> DEFINE old == [s \in Slots |-> Ahead(s)]
               new == [s \in Slots |-> Ahead(s)']
    <3>1. new = [old EXCEPT ![p] = Tail(old[p])]
      BY <2>2, <2>3
    <3>2. old[p] # << >> /\ pad' = [pad EXCEPT ![p] = Head(old[p])]
      BY <1>5, <2>0, <2>2 DEF Deliver
    <3>3. (engine # "done" /\ output \in {"plugging", "on"})'
            = (engine # "done" /\ output \in {"plugging", "on"})
      BY <1>1, <1>5
    <3> QED BY <3>1, <3>2, <3>3 DEF Register!Show
  <2> QED BY <2>4 DEF Register!Next
<1>6. CASE output' = "failed"
  <2>1. ~Up' /\ \A s \in Slots : Ahead(s)' = << >>
    BY <1>6, AheadIs DEF Up
  <2>2. \A s \in Slots : pad'[s] \in {pad[s], Neutral}
    BY <1>6 DEF Deliver
  <2> QED BY <1>1, <2>1, <2>2, GoneEnds DEF IInv, TypeOK
<1> QED BY <1>5, <1>6 DEF Deliver

\* Every other step of the output thread.
LEMMA OutputIsRegister ==
    ASSUME IInv, IInv', OutputStep \/ ServiceFails \/ OutputPanics
    PROVE  [Register!Next]_(Register!vars)
<1>0. link \in Links /\ pad \in [Slots -> States] /\ pad' \in [Slots -> States]
  BY DEF IInv, TypeOK
<1>1. CASE Plug /\ output' \in {"plugging", "on"}
  <2>1. /\ output \in {"plugging", "on"} /\ pad' = pad /\ link' = link /\ engine' = engine
    BY <1>1 DEF Plug, core
  <2>2. \A s \in Slots : Ahead(s)' = Ahead(s)
    BY <1>1, <2>1, AheadIs
  <2>3. Up' = Up
    BY <1>1, <2>1 DEF Up
  <2> QED BY <2>1, <2>2, <2>3, Stutters
<1>2. CASE output' \notin {"plugging", "on"}
  <2>1. ~Up' /\ \A s \in Slots : Ahead(s)' = << >>
    BY <1>2, AheadIs DEF Up
  <2>2. \A s \in Slots : pad'[s] \in {pad[s], Neutral}
    <3>1. CASE Neutralise
      BY <3>1 DEF Neutralise
    <3>2. CASE ~Neutralise
      BY <3>2 DEF OutputStep, Plug, OutputStops, Unplug, ServiceFails, OutputPanics
    <3> QED BY <3>1, <3>2
  <2>3. TypeOK
    BY DEF IInv
  <2> QED BY <1>0, <2>1, <2>2, <2>3, GoneEnds
<1>3. output' \in {"plugging", "on"} => Plug
  BY DEF OutputStep, Plug, OutputStops, Neutralise, Unplug, ServiceFails, OutputPanics
<1> QED BY <1>1, <1>2, <1>3

\* The supervisor, the capture thread and whoever sends commands touch
\* neither the states under way nor the pads.
LEMMA OthersStutter ==
    ASSUME IInv, \/ Starting \/ Teardown \/ CaptureEnds \/ EndSession \/ UNCHANGED vars
                 \/ \E d \in Devices : Key(d)
                 \/ \E c \in Commands : Command(c)
    PROVE  UNCHANGED Register!vars
<1>1. /\ output' = output /\ link' = link /\ pad' = pad
      /\ engine' = engine \/ (engine = "idle" /\ engine' = "on")
  BY DEF IInv, Stage, Starting, StartSession, GiveUp, Teardown, EndBroken, EndSession,
         Uncapture, EngineJoined, OutputJoined, CaptureEnds, Key, Command,
         core, back, front, vars
<1>2. \A s \in Slots : Ahead(s)' = Ahead(s)
  BY <1>1, AheadIs
<1>3. Up' = Up
  BY <1>1 DEF Up
<1> QED BY <1>1, <1>2, <1>3, Stutters

\* At first nothing is ahead.
LEMMA RegisterInit == Init => Register!Init
<1> SUFFICES ASSUME Init PROVE Register!Init
  OBVIOUS
<1>1. /\ output = "plugging" /\ engine = "idle" /\ pad = [s \in Slots |-> Neutral]
      /\ link.wire = << >> /\ link.pending = << >>
  BY DEF Init
<1>2. \A s \in Slots : Ahead(s) = << >>
  <2> DEFINE all == link.wire \o link.pending
  <2>1. all \in Seq(OutMsg) /\ Len(all) = 0
    <3>1. /\ link.wire \in Seq(OutMsg) /\ link.pending \in Seq(OutMsg)
          /\ Len(link.wire) = 0 /\ Len(link.pending) = 0
      BY <1>1, EmptySeq
    <3>2. /\ link.wire \o link.pending \in Seq(OutMsg)
          /\ Len(link.wire \o link.pending) = Len(link.wire) + Len(link.pending)
      BY <3>1, ConcatProperties
    <3> QED BY <3>1, <3>2
  <2> HIDE DEF all
  <2>2. ASSUME NEW s \in Slots PROVE StatesFor(all, s) = << >>
    <3>1. \A i \in 1..Len(all) : all[i].slot # s
      BY <2>1
    <3> QED BY <2>1, <3>1, StatesForNone
  <2> QED BY <1>1, <2>2 DEF Ahead, all
<1> QED BY <1>1, <1>2 DEF Register!Init

\* The pipeline implements the abstract register: whatever is coalesced,
\* dropped with a thread that ends or refused, a pad shows only states the
\* engine asked for, in the order it asked, and while the threads live a state
\* is passed over only for a newer one (DeltaTx::send and flush, the output
\* thread's loop).
THEOREM ImplementsRegister == Spec => Register!Safety
<1>1. Init => Register!Init
  BY RegisterInit
<1>2. IInv /\ IInv' /\ [Next]_vars => [Register!Next]_(Register!vars)
  <2> SUFFICES ASSUME IInv, IInv', [Next]_vars PROVE [Register!Next]_(Register!vars)
    OBVIOUS
  <2>1. CASE EngineStep \/ EnginePanics
    BY <2>1, EngineIsRegister
  <2>2. CASE Deliver
    BY <2>2, DeliverIsRegister
  <2>3. CASE OutputStep \/ ServiceFails \/ OutputPanics
    BY <2>3, OutputIsRegister
  <2>4. CASE \/ Starting \/ Teardown \/ CaptureEnds \/ EndSession \/ UNCHANGED vars
             \/ \E d \in Devices : Key(d)
             \/ \E c \in Commands : Command(c)
    BY <2>4, OthersStutter
  <2> QED BY <2>1, <2>2, <2>3, <2>4 DEF Next, Environment, Finished
<1> QED BY <1>1, <1>2, Invariant, PTL DEF Spec, Register!Safety

-----------------------------------------------------------------------------
(* Session: control messages. *)


(* A control message, and a sequence of them, is well typed. *)
LEMMA WantedType ==
    ASSUME NEW block \in BOOLEAN, NEW set \in SUBSET Boards
    PROVE  /\ Wanted(block, set) \in Messages
           /\ Wanted(block, set).set = IF block THEN set ELSE {}
    BY DEF Wanted, Capture, Passthrough, Messages

LEMMA EmptyIsTyped == << >> \in Seq(Messages)
  OBVIOUS

LEMMA MirroredType ==
    ASSUME SessionTypeOK, NEW n \in Nat
    PROVE  Mirrored(n) \in Seq(Messages)
<1>1. \A i \in 1..n : Mirrored(n)[i] \in Messages
  BY WantedType DEF Mirrored, SessionTypeOK
<1>2. DOMAIN Mirrored(n) = 1..n
  BY DEF Mirrored
<1> QED
  BY <1>1, <1>2 DEF Mirrored

LEMMA SentType ==
    ASSUME SessionTypeOK, NEW messages \in Seq(Messages)
    PROVE  Sent(messages) \in Seq(Messages)
  BY DEF Sent, SessionTypeOK

(* What is read from the channel is typed, and so is the rest. *)
LEMMA HeadOfCtl ==
    ASSUME SessionTypeOK, inbox # << >>
    PROVE  Head(inbox) \in Messages /\ Tail(inbox) \in Seq(Messages)
  BY DEF SessionTypeOK

-----------------------------------------------------------------------------
(* Session: type correctness. *)
LEMMA SessionTypeStep == ASSUME SessionTypeOK, [SessionNext]_sessionVars PROVE SessionTypeOK'
<1>1. CASE Toggle
  BY <1>1 DEF SessionTypeOK, Toggle, thread, world, view, Steps, Loop
<1>2. CASE EmergencyStop
  BY <1>2 DEF SessionTypeOK, EmergencyStop, thread, world, view
<1>3. CASE Trip
  BY <1>3 DEF SessionTypeOK, Trip, world, view
<1>4. CASE Receive
  <2>1. Head(inbox) \in Messages /\ Tail(inbox) \in Seq(Messages)
    BY <1>4, HeadOfCtl DEF Receive
  <2>2. /\ inbox' \in Seq(Messages) /\ armed' \subseteq Boards
        /\ wdPass' \in BOOLEAN /\ worker' \in {"off", "on"}
    BY <1>4, <2>1 DEF Receive, Messages, SessionTypeOK
  <2> QED BY <1>4, <2>2 DEF SessionTypeOK, Receive, handles, world, view
<1>5. CASE CaptureDies
  BY <1>5, EmptyIsTyped DEF SessionTypeOK, CaptureDies, handles, world, view
<1>6. CASE Rescan
  BY <1>6 DEF SessionTypeOK, Rescan, handles, thread, view
<1>7. ASSUME NEW b \in Boards, Hotplug(b) PROVE SessionTypeOK'
  BY <1>7 DEF SessionTypeOK, Hotplug, handles, thread, view
<1>8. CASE Arm \/ Restart
  <2>1. step' \in Steps /\ latch' \in BOOLEAN
    BY <1>8 DEF Arm, Restart, Begins, Steps, handles, SessionTypeOK
  <2>2. sessions' \in Nat
    BY <1>8, SessionAssumption DEF Arm, Restart, Begins, SessionTypeOK
  <2>3. UNCHANGED <<toggles, stops, tripped, thread, world, blocking, present, seen, ownTrip>>
    BY <1>8 DEF Arm, Restart, handles
  <2> QED BY <2>1, <2>2, <2>3 DEF SessionTypeOK, thread, world
<1>9. CASE Baseline
  BY <1>9 DEF SessionTypeOK, Baseline, handles, thread, world, Steps
<1>10. CASE PadsFail
  BY <1>10 DEF SessionTypeOK, PadsFail, handles, thread, world, view, Steps
<1>11. CASE Begin
  <2>1. <<Wanted(Captures, present)>> \in Seq(Messages)
    BY WantedType, SessionAssumption DEF SessionTypeOK
  <2> QED BY <1>11, <2>1, SessionAssumption DEF SessionTypeOK, Begin, handles, world, Steps, Loop
<1>12. CASE StopAsked
  BY <1>12 DEF SessionTypeOK, StopAsked, handles, thread, world, view, Steps
<1>13. CASE CheckHealth
  BY <1>13 DEF SessionTypeOK, CheckHealth, handles, thread, world, view, Steps, Loop
<1>14. CASE MirrorEscapes
  <2>1. inbox' \in Seq(Messages)
    <3>1. CASE toggles - seen.toggles \in Nat
      BY <1>14, <3>1, MirroredType, SentType DEF MirrorEscapes, SessionTypeOK
    <3>2. CASE toggles - seen.toggles \notin Nat
      <4>1. 1..(toggles - seen.toggles) = {}
        BY <3>2 DEF SessionTypeOK
      <4>2. Mirrored(toggles - seen.toggles) = << >>
        BY <4>1 DEF Mirrored
      <4> QED BY <1>14, <4>2, EmptyIsTyped, SentType DEF MirrorEscapes, SessionTypeOK
    <3> QED BY <3>1, <3>2
  <2> QED BY <1>14, <2>1 DEF SessionTypeOK, MirrorEscapes, handles, world, Steps, Loop
<1>15. CASE MirrorPresence
  <2>1. <<Wanted(blocking, published)>> \in Seq(Messages)
    BY WantedType DEF SessionTypeOK
  <2>2. inbox' \in Seq(Messages) /\ present' \subseteq Boards
    BY <1>15, <2>1, SentType DEF MirrorPresence, SessionTypeOK
  <2> QED BY <1>15, <2>2 DEF SessionTypeOK, MirrorPresence, handles, world, Steps, Loop
<1>16. CASE Watch
  BY <1>16 DEF SessionTypeOK, Watch, handles, thread, world, view, Steps, Loop
<1>17. CASE Leave
  BY <1>17 DEF SessionTypeOK, Leave, handles, thread, world, Steps
<1>18. CASE LetGo
  <2>1. <<Passthrough, Shutdown>> \in Seq(Messages)
    BY DEF Passthrough, Shutdown, Messages
  <2> QED BY <1>18, <2>1, SentType DEF SessionTypeOK, LetGo, handles, world, view, Steps
<1>19. CASE Join
  BY <1>19 DEF SessionTypeOK, Join, handles, thread, world, view, Steps
<1>20. CASE UNCHANGED sessionVars
  BY <1>20 DEF SessionTypeOK, sessionVars, handles, thread, world, view
<1> QED
  BY <1>1, <1>2, <1>3, <1>4, <1>5, <1>6, <1>7, <1>8, <1>9, <1>10, <1>11, <1>12,
     <1>13, <1>14, <1>15, <1>16, <1>17, <1>18, <1>19, <1>20 DEF SessionNext, Supervise

LEMMA SessionInitTyped == ASSUME SessionInit PROVE SessionTypeOK
<1>1. step \in Steps /\ worker \in {"off", "on"}
    BY DEF SessionInit, Steps
  <1>2. inbox \in Seq(Messages)
    BY EmptyIsTyped DEF SessionInit
  <1>3. seen \in [toggles : Nat, stops : Nat, tripped : BOOLEAN]
    BY DEF SessionInit
  <1>4. /\ armed \subseteq Boards /\ attached \subseteq Boards
        /\ published \subseteq Boards /\ present \subseteq Boards
    BY DEF SessionInit
  <1>5. /\ latch \in BOOLEAN /\ toggles \in Nat /\ stops \in Nat
        /\ tripped \in BOOLEAN /\ wdPass \in BOOLEAN /\ blocking \in BOOLEAN
        /\ sessions \in Nat /\ ownTrip \in BOOLEAN
    BY DEF SessionInit
  <1> QED BY <1>1, <1>2, <1>3, <1>4, <1>5 DEF SessionTypeOK

(* Every reachable state of the supervisor and its capture thread is well  *)
(* typed.                                                                  *)
THEOREM SessionTypeCorrect == SessionSpec => []SessionTypeOK
<1>1. SessionInit => SessionTypeOK
  BY SessionInitTyped
<1>2. SessionTypeOK /\ [SessionNext]_sessionVars => SessionTypeOK'
  BY SessionTypeStep
<1> QED BY <1>1, <1>2, PTL DEF SessionSpec

-----------------------------------------------------------------------------
(* The invariant: counters only run ahead of what was seen of them, outside *)
(* a session there is no capture thread, and the newest state asked of the  *)
(* thread is the one the view calls for.                                    *)
Asked == IF inbox = << >> THEN armed ELSE inbox[Len(inbox)].set

ViewInv ==
    /\ SessionTypeOK
    /\ seen.toggles <= toggles
    /\ step \in {"off", "armed", "pads"} => worker = "off"
    /\ step \in Loop /\ worker = "on" => Asked = (IF blocking THEN present ELSE {})

LEMMA ViewInvImplies == ViewInv => CaptureFollowsView /\ FreeOutsideSessions
<1>1. ASSUME ViewInv PROVE CaptureFollowsView
  <2>1. Wanted(blocking, present).set = IF blocking THEN present ELSE {}
    BY <1>1, WantedType DEF ViewInv, SessionTypeOK
  <2> QED BY <1>1, <2>1 DEF ViewInv, CaptureFollowsView, Asked
<1>2. ASSUME ViewInv PROVE FreeOutsideSessions
  BY <1>2 DEF ViewInv, FreeOutsideSessions, Suppressed
<1> QED BY <1>1, <1>2

(* One message more: it is then the newest. *)
LEMMA AskedAfterOne ==
    ASSUME SessionTypeOK, worker = "on", NEW block \in BOOLEAN, NEW set \in SUBSET Boards,
           inbox' = Sent(<<Wanted(block, set)>>)
    PROVE  Asked' = IF block THEN set ELSE {}
<1> DEFINE m == Wanted(block, set)
<1>1. m \in Messages /\ m.set = IF block THEN set ELSE {}
  BY WantedType
<1>2. inbox' = inbox \o <<m>>
  BY DEF Sent
<1> HIDE DEF m
<1>0. inbox \in Seq(Messages)
  BY DEF SessionTypeOK
<1>3. Len(inbox') = Len(inbox) + 1 /\ inbox'[Len(inbox) + 1] = m
  BY <1>0, <1>1, <1>2
<1>4. inbox' # << >>
  BY <1>0, <1>3
<1> QED BY <1>1, <1>3, <1>4 DEF Asked

(* Several gestures at once: the message of the last is the newest. *)
LEMMA AskedAfterMirror ==
    ASSUME SessionTypeOK, worker = "on", NEW n \in Nat \ {0},
           inbox' = Sent(Mirrored(n))
    PROVE  Asked' = IF blocking # (n % 2 = 1) THEN present ELSE {}
<1> DEFINE q == Mirrored(n)
           b == IF n % 2 = 1 THEN ~blocking ELSE blocking
<1>1. q \in Seq(Messages) /\ Len(q) = n
  BY MirroredType DEF Mirrored
<1>2. q[n] = Wanted(b, present)
  BY DEF Mirrored
<1>3. b \in BOOLEAN /\ (b <=> (blocking # (n % 2 = 1)))
  BY DEF SessionTypeOK
<1>4. inbox' = inbox \o q
  BY DEF Sent
<1> HIDE DEF q, b
<1>0. inbox \in Seq(Messages)
  BY DEF SessionTypeOK
<1>5. Len(inbox') = Len(inbox) + n /\ inbox'[Len(inbox) + n] = q[n]
  <2>1. Len(inbox') = Len(inbox) + n
    BY <1>0, <1>1, <1>4, ConcatProperties
  <2>2. Len(inbox) + n \in 1..(Len(inbox) + n) /\ Len(inbox) + n > Len(inbox)
    BY <1>0
  <2> QED BY <1>0, <1>1, <1>4, <2>1, <2>2, ConcatProperties
<1>6. inbox' # << >>
  BY <1>0, <1>5
<1>7. q[n].set = IF b THEN present ELSE {}
  BY <1>2, <1>3, WantedType DEF SessionTypeOK
<1>8. Asked' = IF b THEN present ELSE {}
  BY <1>5, <1>6, <1>7 DEF Asked
<1> QED BY <1>3, <1>8

(* A message is taken from the front: the newest stays the newest. *)
LEMMA AskedAfterReceive ==
    ASSUME SessionTypeOK, Receive
    PROVE  Asked' = Asked
<1>1. inbox # << >> /\ inbox' = Tail(inbox) /\ armed' = Head(inbox).set
  BY DEF Receive
<1>0. inbox \in Seq(Messages)
  BY DEF SessionTypeOK
<1>2. CASE Len(inbox) = 1
  <2>1. inbox' = << >> /\ Head(inbox) = inbox[Len(inbox)]
    BY <1>0, <1>1, <1>2
  <2> QED BY <1>1, <2>1 DEF Asked
<1>3. CASE Len(inbox) > 1
  <2> DEFINE rest == Tail(inbox)
  <2>1. /\ rest \in Seq(Messages) /\ Len(rest) = Len(inbox) - 1
        /\ \A i \in 1..Len(rest) : rest[i] = inbox[i + 1]
    BY <1>0, <1>1, HeadTailProperties
  <2> HIDE DEF rest
  <2>2. Len(rest) \in 1..Len(rest) /\ Len(rest) + 1 = Len(inbox)
    BY <1>0, <1>3, <2>1
  <2>3. rest[Len(rest)] = inbox[Len(inbox)]
    BY <2>1, <2>2
  <2>4. rest # << >>
    BY <2>1, <2>2, EmptySeq
  <2>5. inbox' = rest
    BY <1>1 DEF rest
  <2> QED BY <1>1, <2>3, <2>4, <2>5 DEF Asked
<1>4. Len(inbox) \in Nat /\ Len(inbox) # 0
  BY <1>0, <1>1, EmptySeq
<1>a. \A n \in Nat : n # 0 => n = 1 \/ n > 1
  OBVIOUS
<1>5. Len(inbox) = 1 \/ Len(inbox) > 1
  BY <1>4, <1>a
<1> QED BY <1>2, <1>3, <1>5

LEMMA ViewInvStep == ASSUME ViewInv, [SessionNext]_sessionVars PROVE ViewInv'
<1>0. SessionTypeOK /\ SessionTypeOK'
  BY SessionTypeStep DEF ViewInv
<1>1. (seen.toggles <= toggles)'
  <2>1. CASE UNCHANGED <<seen, toggles>>
    BY <2>1 DEF ViewInv
  <2>2. CASE toggles' = toggles + 1 /\ seen' = seen
    BY <2>2, <1>0 DEF ViewInv, SessionTypeOK
  <2>3. CASE toggles' = toggles /\ seen'.toggles \in {toggles, seen.toggles}
    BY <2>3, <1>0 DEF ViewInv, SessionTypeOK
  <2>4. \/ UNCHANGED <<seen, toggles>>
        \/ toggles' = toggles + 1 /\ seen' = seen
        \/ toggles' = toggles /\ seen'.toggles \in {toggles, seen.toggles}
    BY <1>0 DEF SessionNext, Supervise, sessionVars, handles, thread, view, SessionTypeOK, Toggle,
       EmergencyStop, Trip, Receive, CaptureDies, Hotplug, Rescan, Arm, Restart, Begins,
       Baseline, PadsFail, Begin, StopAsked, CheckHealth, MirrorEscapes, MirrorPresence,
       Watch, Leave, LetGo, Join
  <2> QED BY <2>1, <2>2, <2>3, <2>4
<1>2. (step \in {"off", "armed", "pads"} => worker = "off")'
  BY DEF ViewInv, SessionNext, Supervise, sessionVars, handles, thread, view, Loop, Toggle,
     EmergencyStop, Trip, Receive, CaptureDies, Hotplug, Rescan, Arm, Restart, Begins,
     Baseline, PadsFail, Begin, StopAsked, CheckHealth, MirrorEscapes, MirrorPresence,
     Watch, Leave, LetGo, Join
<1>3. ASSUME step' \in Loop, worker' = "on"
      PROVE  Asked' = (IF blocking' THEN present' ELSE {})
  <2>1. CASE Begin
    <3>1. Wanted(Captures, present).set = IF Captures THEN present ELSE {}
      BY <1>0, WantedType, SessionAssumption DEF SessionTypeOK
    <3> QED BY <2>1, <3>1 DEF Begin, Asked
  <2>2. CASE Receive
    <3>1. step \in Loop /\ worker = "on" /\ UNCHANGED <<blocking, present>>
      BY <1>3, <2>2 DEF Receive, view
    <3> QED BY <3>1, <2>2, <1>0, AskedAfterReceive DEF ViewInv
  <2>3. CASE MirrorEscapes
    <3> DEFINE n == toggles - seen.toggles
    <3>1. /\ step \in Loop /\ worker = "on" /\ UNCHANGED <<armed, present>>
          /\ inbox' = Sent(Mirrored(n)) /\ blocking' = (blocking # (n % 2 = 1))
      BY <1>3, <2>3 DEF MirrorEscapes, Loop
    <3>2. n \in Nat
      BY <1>0 DEF ViewInv, SessionTypeOK
    <3>3. CASE n = 0
      <4>1. Mirrored(n) = << >>
        BY <3>3, SMTT(20) DEF Mirrored
      <4>2. inbox' = inbox
        BY <3>1, <4>1, <1>0, SMTT(20) DEF Sent, SessionTypeOK
      <4>3. ~(n % 2 = 1)
        BY <3>3
      <4>4. blocking' = blocking
        BY <3>1, <4>3, <1>0 DEF SessionTypeOK
      <4> QED BY <3>1, <4>2, <4>4 DEF ViewInv, Asked
    <3>4. CASE n # 0
      <4>1. n \in Nat \ {0}
        BY <3>2, <3>4
      <4> HIDE DEF n
      <4>2. Asked' = IF blocking # (n % 2 = 1) THEN present ELSE {}
        BY <3>1, <4>1, <1>0, AskedAfterMirror
      <4> QED BY <3>1, <4>2
    <3> QED BY <3>3, <3>4
  <2>4. CASE MirrorPresence
    <3>1. step \in Loop /\ worker = "on" /\ UNCHANGED <<armed, blocking>>
      BY <1>3, <2>4 DEF MirrorPresence, Loop
    <3>2. CASE published = present
      BY <2>4, <3>1, <3>2 DEF MirrorPresence, ViewInv, Asked
    <3>3. CASE published # present
      <4>1. inbox' = Sent(<<Wanted(blocking, published)>>) /\ present' = published
        BY <2>4, <3>3 DEF MirrorPresence
      <4> QED BY <3>1, <4>1, <1>0, AskedAfterOne DEF SessionTypeOK
    <3> QED BY <3>2, <3>3
  <2>5. CASE step \in Loop /\ worker = "on" /\ UNCHANGED <<inbox, armed, blocking, present>>
    BY <2>5 DEF ViewInv, Asked
  <2>6. \/ Begin \/ Receive \/ MirrorEscapes \/ MirrorPresence
        \/ step \in Loop /\ worker = "on" /\ UNCHANGED <<inbox, armed, blocking, present>>
    BY <1>3 DEF SessionNext, Supervise, sessionVars, handles, thread, view, Loop, Toggle,
       EmergencyStop, Trip, CaptureDies, Hotplug, Rescan, Arm, Restart, Begins, Baseline,
       PadsFail, StopAsked, CheckHealth, Watch, Leave, LetGo, Join
  <2> QED BY <2>1, <2>2, <2>3, <2>4, <2>5, <2>6
<1> QED BY <1>0, <1>1, <1>2, <1>3 DEF ViewInv

LEMMA ViewInvHolds == SessionSpec => []ViewInv
<1>1. SessionInit => ViewInv
  <2> SUFFICES ASSUME SessionInit PROVE ViewInv
    OBVIOUS
  <2>1. SessionTypeOK
    BY SessionInitTyped
  <2> QED BY <2>1 DEF SessionInit, ViewInv, Loop
<1>2. ViewInv /\ [SessionNext]_sessionVars => ViewInv'
  BY ViewInvStep
<1> QED BY <1>1, <1>2, PTL DEF SessionSpec

(* Whatever gestures and hotplug fall between two polls, the newest capture *)
(* state sent is the one for the boards the supervisor believes present,    *)
(* and none once an escape turned blocking off (apply_capture).             *)
THEOREM CaptureFollows == SessionSpec => []CaptureFollowsView
  BY ViewInvHolds, ViewInvImplies, PTL

(* No keyboard is suppressed before a session's pads are plugged or after   *)
(* its capture thread is joined (supervise).                                *)
THEOREM FreeOutside == SessionSpec => []FreeOutsideSessions
  BY ViewInvHolds, ViewInvImplies, PTL
=============================================================================
