-------------------------- MODULE SyncQueue_proofs --------------------------
(***************************************************************************)
(* Proofs about SyncQueue: what the queue does with every number of        *)
(* streams, every time base and every frame.                               *)
(***************************************************************************)
EXTENDS SyncQueue, SequenceTheorems, WellFoundedInduction, TLAPS

(* The structure of a queue.                                               *)
Queue ==
  [finished : SUBSET Streams, over : BOOLEAN,
   head_stream : Streams \cup {-1}, head_finished_stream : Limiting \cup {-1},
   head_ts : [Streams -> Int], tb : [Streams -> Nat \ {0}],
   sent : [Streams -> Nat]]

Types ==
  /\ opt \in Options /\ sq \in Queue
  /\ \A s \in Streams : sq.sent[s] <= MaxFrames
  /\ fifo \in [Streams -> Seq(Frames)]
  /\ tbSet \subseteq Streams
  /\ ended \subseteq Streams /\ flushed \subseteq ended
  /\ client \in Streams \cup {-1}
  /\ longest \in [Streams -> Int]

-----------------------------------------------------------------------------
(* The streams that limit the queue are some of its streams.               *)
LEMMA LimitingAre ==
  ASSUME opt \in Options
  PROVE  /\ Limiting \subseteq Streams /\ Limiting # {}
         /\ FramesMax \in [Streams -> Nat] /\ PerStream \in BOOLEAN
         /\ Streams \subseteq Nat /\ 0 \in Streams /\ NbStreams \in Nat
  BY StreamAssumption DEF Limiting, FramesMax, PerStream, Streams

(* A frame ends at an integer.                                             *)
LEMMA FrameTs ==
  ASSUME NEW f \in Frames
  PROVE  frame_ts(f) \in Int
  BY TimeAssumption DEF frame_ts

(* av_rescale_q is never off by more than half a unit.                     *)
LEMMA RescaleIs ==
  ASSUME NEW a \in Int, NEW b \in Nat \ {0}, NEW c \in Nat \ {0}
  PROVE  /\ Rescale(a, b, c) \in Int
         /\ 2 * (a * b) - c <= 2 * (Rescale(a, b, c) * c)
         /\ 2 * (Rescale(a, b, c) * c) <= 2 * (a * b) + c
<1> DEFINE h == c \div 2
           up(x) == (x + h) \div c
<1>1. h \in Nat /\ 2 * h <= c /\ c <= 2 * h + 1
  OBVIOUS
<1>2. ASSUME NEW x \in Int
      PROVE  /\ up(x) \in Int
             /\ up(x) * c <= x + h /\ x + h < up(x) * c + c
  BY <1>1
<1>3. a * b \in Int
  OBVIOUS
<1>4. CASE a >= 0
  <2>1. Rescale(a, b, c) = up(a * b)
    BY <1>4 DEF Rescale
  <2>2. up(a * b) * c \in Int
    BY <1>2, <1>3
  <2> HIDE DEF h, up
  <2> QED BY <1>1, <1>2, <1>3, <2>1, <2>2
<1>5. CASE ~(a >= 0)
  <2>1. Rescale(a, b, c) = -up(-(a * b))
    BY <1>5 DEF Rescale
  <2>2. -(a * b) \in Int
    BY <1>3
  <2> HIDE DEF h
  <2>3. up(-(a * b)) \in Int
    BY <1>2, <2>2
  <2> HIDE DEF up
  <2>4. /\ up(-(a * b)) * c \in Int
        /\ (-up(-(a * b))) * c = -(up(-(a * b)) * c)
    BY <2>3
  <2> QED BY <1>1, <1>2, <1>3, <2>1, <2>2, <2>3, <2>4
<1> QED BY <1>4, <1>5

(* A time that is a multiple of the new unit is kept.                      *)
LEMMA RescaleExact ==
  ASSUME NEW a \in Int, NEW b \in Nat \ {0}, NEW c \in Nat \ {0},
         NEW m \in Int, a * b = m * c
  PROVE  Rescale(a, b, c) = m
<1> DEFINE r == Rescale(a, b, c)
<1>1. /\ r \in Int
      /\ 2 * (m * c) - c <= 2 * (r * c) /\ 2 * (r * c) <= 2 * (m * c) + c
  BY RescaleIs
<1> HIDE DEF r
<1>2. ASSUME r > m PROVE FALSE
  <2>1. r * c >= (m + 1) * c
    BY <1>1, <1>2
  <2>2. (m + 1) * c = m * c + c /\ m * c \in Int /\ r * c \in Int
    BY <1>1
  <2> QED BY <1>1, <2>1, <2>2
<1>3. ASSUME r < m PROVE FALSE
  <2>1. (r + 1) * c <= m * c
    BY <1>1, <1>3
  <2>2. (r + 1) * c = r * c + c /\ m * c \in Int /\ r * c \in Int
    BY <1>1
  <2> QED BY <1>1, <2>1, <2>2
<1> QED
  BY <1>1, <1>2, <1>3 DEF r

(* A set of naturals that is not empty has its least member.               *)
LEMMA LeastNat ==
  ASSUME NEW T, T \subseteq Nat, T # {}
  PROVE  \E x \in T : \A y \in T : x <= y
<1>1. PICK x \in T : \A y \in T : <<y, x>> \notin OpToRel(<, Nat)
  BY WFMin, NatLessThanWellFounded, Zenon
<1>2. \A y \in T : ~ (y < x)
  BY <1>1 DEF OpToRel
<1> QED
  BY <1>2

(* What a heartbeat does not change for one stream it does not change for  *)
(* all of them.                                                            *)
LEMMA EachHeartbeat ==
  ASSUME NEW s, NEW Good, NEW q \in Good, NbStreams \in Nat,
         \A p \in Good, r \in Streams : Heartbeat(p, s, r) \in Good
  PROVE  Heartbeats(q, s) \in Good
<1> DEFINE Told(n, t) ==
      t = [k \in 0 .. n |-> IF k = 0 THEN q ELSE Heartbeat(t[k - 1], s, k - 1)]
<1>1. ASSUME NEW n \in Nat PROVE \E t : Told(n, t)
  <2> DEFINE Not == {k \in Nat : ~ \E t : Told(k, t)}
  <2>1. SUFFICES ASSUME Not # {} PROVE FALSE
    OBVIOUS
  <2>2. PICK k \in Not : \A j \in Not : k <= j
    BY <2>1, LeastNat
  <2>3. k \in Nat /\ ~ \E t : Told(k, t)
    BY <2>2
  <2>4. k # 0
    <3>1. ASSUME k = 0 PROVE Told(k, [j \in 0 .. k |-> q])
      BY <3>1
    <3> QED BY <2>3, <3>1
  <2>5. k - 1 \in Nat /\ k - 1 \notin Not
    <3>1. k - 1 \in Nat /\ ~(k <= k - 1)
      BY <2>3, <2>4
    <3> HIDE DEF Not
    <3> QED BY <2>2, <3>1
  <2>6. PICK t : Told(k - 1, t)
    BY <2>5
  <2> DEFINE u == [j \in 0 .. k |-> IF j = k THEN Heartbeat(t[k - 1], s, k - 1)
                                             ELSE t[j]]
  <2>7. ASSUME NEW j \in 0 .. k
        PROVE  u[j] = IF j = 0 THEN q ELSE Heartbeat(u[j - 1], s, j - 1)
    <3>1. CASE j = k
      <4>1. u[j] = Heartbeat(t[k - 1], s, k - 1) /\ u[j - 1] = t[k - 1]
        BY <2>3, <2>4, <3>1
      <4> QED BY <2>4, <3>1, <4>1
    <3>2. CASE j # k
      <4>1. j \in 0 .. k - 1 /\ u[j] = t[j]
        BY <2>3, <3>2
      <4>2. t[j] = IF j = 0 THEN q ELSE Heartbeat(t[j - 1], s, j - 1)
        BY <2>6, <4>1
      <4>3. j # 0 => u[j - 1] = t[j - 1]
        BY <2>3, <4>1
      <4> QED BY <4>1, <4>2, <4>3
    <3> QED BY <3>1, <3>2
  <2>8. Told(k, u)
    BY <2>7
  <2> QED BY <2>3, <2>8
<1> DEFINE told == CHOOSE t : Told(NbStreams, t)
<1>2. Told(NbStreams, told)
  BY <1>1
<1>3. Heartbeats(q, s) = told[NbStreams]
  BY DEF Heartbeats
<1> HIDE DEF told
<1>4. ASSUME NEW n \in 0 .. NbStreams PROVE told[n] \in Good
  <2> DEFINE Not == {k \in 0 .. NbStreams : told[k] \notin Good}
  <2>1. SUFFICES ASSUME Not # {} PROVE FALSE
    OBVIOUS
  <2>2. PICK k \in Not : \A j \in Not : k <= j
    <3>1. Not \subseteq Nat
      OBVIOUS
    <3> QED BY <2>1, <3>1, LeastNat
  <2>3. told[k] = IF k = 0 THEN q ELSE Heartbeat(told[k - 1], s, k - 1)
    BY <1>2
  <2>4. k # 0
    BY <2>3, <2>2
  <2>5. k - 1 \in 0 .. NbStreams /\ k - 1 \notin Not /\ k - 1 \in Streams
    BY <2>2, <2>4 DEF Streams
  <2>6. told[k - 1] \in Good
    BY <2>5
  <2> QED BY <2>2, <2>3, <2>4, <2>5, <2>6
<1> QED BY <1>3, <1>4

-----------------------------------------------------------------------------
(* finish_stream finishes the stream, and perhaps others; the finished     *)
(* head is a limiting stream, and only changes when a limiting stream with *)
(* a head is finished.                                                     *)
LEMMA FinishKeeps ==
  ASSUME opt \in Options, NEW q \in Queue, NEW s \in Streams
  PROVE  LET p == finish_stream(q, s) IN
         /\ p \in Queue
         /\ p.head_ts = q.head_ts /\ p.tb = q.tb /\ p.sent = q.sent
         /\ p.head_stream = q.head_stream
         /\ q.finished \cup {s} \subseteq p.finished
         /\ q.over => p.over
<1> DEFINE cuts == s \in Limiting /\ HasHead(q, s)
           hf   == IF cuts THEN NewFinishedHead(q, s) ELSE q.head_finished_stream
           ahead == {r \in Streams \ {hf} : /\ cuts /\ HasHead(q, r)
                                            /\ HeadTime(q, hf) <= HeadTime(q, r)}
           all == q.finished \cup {s} \cup ahead
<1>1. finish_stream(q, s) = [q EXCEPT !.finished = all,
                                      !.head_finished_stream = hf,
                                      !.over = @ \/ all = Streams]
  BY DEF finish_stream
<1>2. hf \in Limiting \cup {-1}
  BY DEF NewFinishedHead, Queue
<1>3. all \subseteq Streams /\ q.finished \cup {s} \subseteq all
  BY DEF Queue
<1> HIDE DEF hf, all
<1> QED BY <1>1, <1>2, <1>3 DEF Queue

(* A set of streams that is not empty has a first one.                     *)
LEMMA FirstStream ==
  ASSUME opt \in Options, NEW S, S \subseteq Streams, S # {}
  PROVE  LET f == CHOOSE s \in S : \A r \in S : s <= r
         IN f \in S /\ \A r \in S : f <= r
  BY LeastNat, LimitingAre

(* queue_head_update only changes the head.                                *)
LEMMA HeadUpdateKeeps ==
  ASSUME opt \in Options, NEW q \in Queue
  PROVE  /\ queue_head_update(q) \in Queue
         /\ \E h \in Streams \cup {-1} :
              queue_head_update(q) = [q EXCEPT !.head_stream = h]
<1> DEFINE start == IF q.head_stream < 0 THEN 0 ELSE q.head_stream
           least == {s \in Behind(q, start) : Behind(q, s) = {}}
           head  == IF least = {} THEN start
                    ELSE CHOOSE s \in least : \A r \in least : s <= r
<1>1. \/ queue_head_update(q) = q
      \/ queue_head_update(q) = [q EXCEPT !.head_stream = head]
  BY DEF queue_head_update
<1>2. start \in Streams
  BY LimitingAre DEF Queue
<1>3. least \subseteq Streams
  BY LimitingAre DEF Behind
<1>4. head \in Streams
  <2>1. CASE least = {}
    BY <1>2, <2>1
  <2>2. CASE least # {}
    <3> HIDE DEF least
    <3> QED BY <1>3, <2>2, FirstStream
  <2> QED BY <2>1, <2>2
<1>5. q = [q EXCEPT !.head_stream = q.head_stream]
  BY DEF Queue
<1>6. q.head_stream \in Streams \cup {-1}
  BY DEF Queue
<1> HIDE DEF head
<1>7. ASSUME NEW h \in Streams \cup {-1}
      PROVE  [q EXCEPT !.head_stream = h] \in Queue
  BY DEF Queue
<1> QED BY <1>1, <1>4, <1>5, <1>6, <1>7

(* stream_update_ts only moves the head of its stream; it finishes         *)
(* streams and changes the head of the queue.                              *)
LEMMA UpdateKeeps ==
  ASSUME opt \in Options, NEW q \in Queue, NEW s \in Streams, NEW ts \in Int
  PROVE  LET p == stream_update_ts(q, s, ts) IN
         /\ p \in Queue
         /\ \A r \in Streams : r # s => p.head_ts[r] = q.head_ts[r]
         /\ p.tb = q.tb /\ p.sent = q.sent
         /\ q.finished \subseteq p.finished
         /\ q.over => p.over
<1> DEFINE q1 == [q EXCEPT !.head_ts[s] = ts]
           q2 == IF /\ q1.head_finished_stream >= 0
                    /\ HeadTime(q1, q1.head_finished_stream) <= HeadTime(q1, s)
                 THEN finish_stream(q1, s) ELSE q1
           q3 == stream_update_ts(q, s, ts)
<1>1. q3 \in {q, q2, queue_head_update(q2)}
  BY DEF stream_update_ts
<1>2. /\ q1 \in Queue /\ q1.finished = q.finished /\ q1.over = q.over
      /\ q1.tb = q.tb /\ q1.sent = q.sent
      /\ \A r \in Streams : r # s => q1.head_ts[r] = q.head_ts[r]
  BY DEF Queue
<1>3. /\ finish_stream(q1, s) \in Queue
      /\ finish_stream(q1, s).head_ts = q1.head_ts
      /\ finish_stream(q1, s).tb = q1.tb
      /\ finish_stream(q1, s).sent = q1.sent
      /\ q1.finished \subseteq finish_stream(q1, s).finished
      /\ q1.over => finish_stream(q1, s).over
  BY <1>2, FinishKeeps
<1>4. q2 = q1 \/ q2 = finish_stream(q1, s)
  OBVIOUS
<1> HIDE DEF q1, q2, q3
<1>5. /\ q2 \in Queue /\ q2.tb = q.tb /\ q2.sent = q.sent
      /\ \A r \in Streams : r # s => q2.head_ts[r] = q.head_ts[r]
      /\ q.finished \subseteq q2.finished
      /\ q.over => q2.over
  <2>1. CASE q2 = q1
    BY <1>2, <2>1
  <2>2. CASE q2 = finish_stream(q1, s)
    BY <1>2, <1>3, <2>2
  <2> QED BY <1>4, <2>1, <2>2
<1>6. PICK h \in Streams \cup {-1} :
        queue_head_update(q2) = [q2 EXCEPT !.head_stream = h]
  BY <1>5, HeadUpdateKeeps
<1>7. /\ queue_head_update(q2) \in Queue
      /\ queue_head_update(q2).head_ts = q2.head_ts
      /\ queue_head_update(q2).tb = q2.tb
      /\ queue_head_update(q2).sent = q2.sent
      /\ queue_head_update(q2).finished = q2.finished
      /\ queue_head_update(q2).over = q2.over
  <2>1. queue_head_update(q2) \in Queue
    BY <1>5, HeadUpdateKeeps
  <2> QED BY <1>5, <1>6, <2>1 DEF Queue
<1>8. CASE q3 = q
  BY <1>8 DEF q3
<1>9. CASE q3 = q2
  BY <1>5, <1>9 DEF q3
<1>10. CASE q3 = queue_head_update(q2)
  BY <1>5, <1>7, <1>10 DEF q3
<1> QED BY <1>1, <1>8, <1>9, <1>10

(* The first timestamp in a fifo is that of a frame, or there is none.     *)
LEMMA TailIs ==
  ASSUME fifo \in [Streams -> Seq(Frames)], NEW s \in Streams
  PROVE  /\ TailTs(s) \in Int
         /\ TailTs(s) # NoTs => \E f \in Frames : TailTs(s) = frame_ts(f)
<1> DEFINE timed == {i \in 1 .. Len(fifo[s]) : frame_ts(fifo[s][i]) # NoTs}
           first == CHOOSE i \in timed : \A j \in timed : i <= j
<1>1. TailTs(s) = IF timed = {} THEN NoTs ELSE frame_ts(fifo[s][first])
  BY DEF TailTs
<1>2. fifo[s] \in Seq(Frames) /\ timed \subseteq Nat
  OBVIOUS
<1>3. ASSUME timed # {} PROVE first \in timed
  <2> HIDE DEF timed
  <2> QED BY <1>2, <1>3, LeastNat
<1>4. ASSUME timed # {}
      PROVE  fifo[s][first] \in Frames
  <2>1. first \in 1 .. Len(fifo[s])
    BY <1>3, <1>4
  <2> HIDE DEF first
  <2> QED BY <1>2, <2>1
<1> HIDE DEF timed, first
<1> QED BY <1>1, <1>4, FrameTs DEF NoTs

(* A heartbeat changes the stream it is for, if that is not finished and   *)
(* its head is known or becomes known.                                     *)
LEMMA HeartbeatIs ==
  ASSUME opt \in Options, fifo \in [Streams -> Seq(Frames)],
         NEW q \in Queue, NEW s \in Streams, NEW r \in Streams
  PROVE  \/ Heartbeat(q, s, r) = q
         \/ LET ts == Rescale(TailTs(s) + 1, q.tb[s], q.tb[r])
                t  == IF HasHead(q, r) /\ q.head_ts[r] >= ts
                      THEN q.head_ts[r] + 1 ELSE ts
            IN /\ ts \in Int /\ t \in Int /\ ts <= t
               /\ r # s /\ r \notin q.finished
               /\ Heartbeat(q, s, r) = stream_update_ts(q, r, t)
<1> DEFINE ts == Rescale(TailTs(s) + 1, q.tb[s], q.tb[r])
           t  == IF HasHead(q, r) /\ q.head_ts[r] >= ts
                 THEN q.head_ts[r] + 1 ELSE ts
<1>1. q.tb[s] \in Nat \ {0} /\ q.tb[r] \in Nat \ {0} /\ q.head_ts[r] \in Int
  BY DEF Queue
<1>2. TailTs(s) + 1 \in Int
  BY TailIs
<1>3. ts \in Int
  BY <1>1, <1>2, RescaleIs
<1>4. \/ Heartbeat(q, s, r) = q
      \/ /\ r # s /\ r \notin q.finished
         /\ Heartbeat(q, s, r) = stream_update_ts(q, r, t)
  BY DEF Heartbeat
<1> HIDE DEF ts
<1>5. t \in Int /\ ts <= t
  BY <1>1, <1>3
<1> HIDE DEF t
<1>6. CASE Heartbeat(q, s, r) = q
  BY <1>6
<1>7. CASE /\ r # s /\ r \notin q.finished
           /\ Heartbeat(q, s, r) = stream_update_ts(q, r, t)
  BY <1>3, <1>5, <1>7 DEF t, ts
<1> QED BY <1>4, <1>6, <1>7

(* overflow_heartbeat does nothing, or the heartbeats of one stream.       *)
LEMMA OverflowIs ==
  ASSUME opt \in Options, NEW q, NEW asked \in SUBSET Streams
  PROVE  \/ overflow_heartbeat(q, asked) = q
         \/ \E s \in Streams : /\ Overflows(q, s)
                               /\ overflow_heartbeat(q, asked) = Heartbeats(q, s)
<1> DEFINE over == {s \in IF PerStream THEN asked ELSE MostAhead(q) :
                      Overflows(q, s)}
<1>1. over \subseteq Streams /\ \A s \in over : Overflows(q, s)
  BY DEF MostAhead
<1>2. overflow_heartbeat(q, asked)
        = IF over = {} THEN q ELSE Heartbeats(q, CHOOSE s \in over : TRUE)
  BY DEF overflow_heartbeat
<1> HIDE DEF over
<1> QED BY <1>1, <1>2

(* Heartbeats keep the structure of the queue.                             *)
LEMMA OverflowKeeps ==
  ASSUME opt \in Options, fifo \in [Streams -> Seq(Frames)],
         NEW q \in Queue, NEW asked \in SUBSET Streams
  PROVE  LET p == overflow_heartbeat(q, asked) IN
         p \in Queue /\ p.sent = q.sent
<1> DEFINE Good == {p \in Queue : p.sent = q.sent}
<1>1. ASSUME NEW s \in Streams PROVE Heartbeats(q, s) \in Good
  <2>1. ASSUME NEW p \in Good, NEW r \in Streams
        PROVE  Heartbeat(p, s, r) \in Good
    <3>1. CASE Heartbeat(p, s, r) = p
      BY <3>1
    <3>2. CASE \E t \in Int : Heartbeat(p, s, r) = stream_update_ts(p, r, t)
      <4>1. PICK t \in Int : Heartbeat(p, s, r) = stream_update_ts(p, r, t)
        BY <3>2
      <4>2. p \in Queue /\ p.sent = q.sent
        OBVIOUS
      <4>3. /\ stream_update_ts(p, r, t) \in Queue
            /\ stream_update_ts(p, r, t).sent = p.sent
        BY <4>2, UpdateKeeps
      <4> QED BY <4>1, <4>2, <4>3
    <3> QED
      BY <3>1, <3>2, HeartbeatIs
  <2>2. q \in Good
    OBVIOUS
  <2> HIDE DEF Good
  <2> QED BY <2>1, <2>2, EachHeartbeat, LimitingAre
<1> QED BY <1>1, OverflowIs

-----------------------------------------------------------------------------
(* Initially.                                                              *)
LEMMA InitTypes ==
  ASSUME Init
  PROVE  Types
<1>1. opt \in Options /\ client = -1
  BY DEF Init
<1>2. sq \in Queue
  BY <1>1, LimitingAre, TimeAssumption DEF Init, Queue, NoTs
<1>3. \A s \in Streams : sq.sent[s] <= MaxFrames
  BY TimeAssumption DEF Init
<1> QED BY <1>1, <1>2, <1>3 DEF Init, Types, NoTs

(* A frame is taken.                                                       *)
LEMMA SendTypes ==
  ASSUME Types, NEW s \in Streams, NEW f \in Frames, SendFrame(s, f)
  PROVE  LET p == stream_update_ts(sq, s, frame_ts(f))
             n == [p EXCEPT !.sent[s] = @ + 1] IN
         /\ p \in Queue /\ n \in Queue /\ sq' \in Queue
         /\ n.sent = [sq.sent EXCEPT ![s] = @ + 1] /\ sq'.sent = n.sent
         /\ n.head_ts = p.head_ts /\ sq'.head_ts = n.head_ts
         /\ sq' \in {n, finish_stream(n, s)}
<1> DEFINE p == stream_update_ts(sq, s, frame_ts(f))
           n == [p EXCEPT !.sent[s] = @ + 1]
<1>1. opt \in Options /\ sq \in Queue /\ frame_ts(f) \in Int
  BY FrameTs DEF Types
<1>2. p \in Queue /\ p.sent = sq.sent
  BY <1>1, UpdateKeeps
<1>3. sq' \in {n, finish_stream(n, s)}
  BY DEF SendFrame
<1> HIDE DEF p
<1>4. /\ n \in Queue /\ n.head_ts = p.head_ts
      /\ n.sent = [sq.sent EXCEPT ![s] = @ + 1]
  BY <1>2 DEF Queue
<1> HIDE DEF n
<1>5. /\ finish_stream(n, s) \in Queue
      /\ finish_stream(n, s).sent = n.sent
      /\ finish_stream(n, s).head_ts = n.head_ts
  BY <1>1, <1>4, FinishKeeps
<1> QED BY <1>2, <1>3, <1>4, <1>5 DEF p, n

(* Something is received.                                                  *)
LEMMA ReceiveTypes ==
  ASSUME Types, sq_receive
  PROVE  Types'
<1> DEFINE some  == \E s \in Asked : Ready(sq, s)
           eof   == \A s \in Asked : AtEof(sq, s)
           q     == IF some \/ eof THEN sq ELSE overflow_heartbeat(sq, Asked)
           ready == {s \in Asked : Ready(q, s)}
<1>1. client \in Streams /\ Asked \subseteq Streams /\ opt' = opt /\ tbSet' = tbSet
  BY LimitingAre DEF sq_receive, Types, Asked
<1>2. q \in Queue /\ q.sent = sq.sent
  BY <1>1, OverflowKeeps DEF Types
<1>3. \/ \E s \in ready : Release(q, s)
      \/ LoopEnds(q)
  BY DEF sq_receive
<1> HIDE DEF q
<1>4. CASE \E s \in ready : Release(q, s)
  <2>1. PICK s \in ready : Release(q, s)
    BY <1>4
  <2>2. s \in Streams /\ fifo[s] # <<>>
    BY <1>1 DEF Ready
  <2>3. fifo[s] \in Seq(Frames) /\ Head(fifo[s]) \in Frames
    BY <2>2 DEF Types
  <2>4. Tail(fifo[s]) \in Seq(Frames)
    BY <2>2, <2>3
  <2>5. q.tb[s] \in Nat /\ frame_ts(Head(fifo[s])) \in Int
    BY <1>2, <2>2, <2>3, FrameTs DEF Queue
  <2>6. frame_ts(Head(fifo[s])) * q.tb[s] \in Int
    BY <2>5
  <2>7. longest' \in [Streams -> Int]
    BY <2>1, <2>2, <2>6 DEF Release, Types
  <2>8. fifo' \in [Streams -> Seq(Frames)]
    BY <2>1, <2>2, <2>4 DEF Release, Types
  <2> QED BY <1>1, <1>2, <2>1, <2>7, <2>8 DEF Release, Types, Queue, Limiting
<1>5. CASE LoopEnds(q)
  <2>1. sq' \in {q, finish_stream(q, client)}
    BY <1>5 DEF LoopEnds
  <2>2. finish_stream(q, client) \in Queue /\ finish_stream(q, client).sent = q.sent
    BY <1>1, <1>2, FinishKeeps DEF Types
  <2>3. sq' \in Queue /\ sq'.sent = sq.sent
    BY <1>2, <2>1, <2>2
  <2>4. ended' \subseteq Streams /\ flushed' \subseteq ended'
    BY <1>1, <1>5 DEF LoopEnds, Types
  <2> QED BY <1>1, <1>5, <2>3, <2>4 DEF LoopEnds, Types, Queue, Limiting
<1> QED BY <1>3, <1>4, <1>5

(* Every step keeps the types.                                             *)
LEMMA StepTypes ==
  ASSUME Types, [Next]_vars
  PROVE  Types'
<1>0. opt \in Options /\ sq \in Queue
  BY DEF Types
<1>1. ASSUME NEW s \in Streams, sq_set_tb(s) PROVE Types'
  <2>1. Tb[s] \in Nat \ {0} /\ sq.tb[s] \in Nat \ {0} /\ sq.head_ts[s] \in Int
    BY <1>0, TimeAssumption DEF Queue
  <2>2. Rescale(sq.head_ts[s], sq.tb[s], Tb[s]) \in Int
    BY <2>1, RescaleIs
  <2>3. sq' \in Queue /\ sq'.sent = sq.sent
    BY <1>0, <1>1, <2>1, <2>2 DEF sq_set_tb, Queue
  <2> QED BY <1>1, <2>3 DEF sq_set_tb, Types, Queue, Limiting
<1>2. ASSUME NEW s \in Streams, sq_finish(s) \/ close_output_stream(s)
      PROVE  Types'
  <2>1. /\ sq' = finish_stream(sq, s) /\ ended' = ended \cup {s}
        /\ client' \in {client, s} /\ UNCHANGED <<opt, fifo, tbSet, flushed, longest>>
    BY <1>2 DEF sq_finish, close_output_stream
  <2>2. sq' \in Queue /\ sq'.sent = sq.sent
    BY <1>0, <2>1, FinishKeeps
  <2> QED BY <2>1, <2>2 DEF Types, Queue, Limiting
<1>3. ASSUME NEW s \in Streams, NEW f \in Frames, sq_send(s, f) PROVE Types'
  <2>1. CASE SendFrame(s, f)
    <3>1. /\ sq' \in Queue /\ sq'.sent = [sq.sent EXCEPT ![s] = @ + 1]
      BY <1>3, <2>1, SendTypes
    <3>2. sq.sent[s] < MaxFrames /\ sq.sent \in [Streams -> Nat]
      BY <1>0, <1>3 DEF sq_send, Queue
    <3>3. \A r \in Streams : sq'.sent[r] <= MaxFrames
      BY <3>1, <3>2, TimeAssumption DEF Types
    <3>4. fifo' \in [Streams -> Seq(Frames)]
      BY <2>1 DEF SendFrame, Types
    <3>5. /\ client' \in Streams \cup {-1} /\ ended' \subseteq Streams
          /\ ended \subseteq ended'
          /\ UNCHANGED <<opt, tbSet, flushed, longest>>
      BY <1>3 DEF sq_send, Types
    <3> QED BY <3>1, <3>3, <3>4, <3>5 DEF Types, Queue, Limiting
  <2>2. CASE ~SendFrame(s, f)
    <3>1. /\ UNCHANGED <<sq, fifo, opt, tbSet, flushed, longest>>
          /\ client' \in Streams \cup {-1} /\ ended' \subseteq Streams
          /\ ended \subseteq ended'
      BY <1>3, <2>2 DEF sq_send, Types
    <3> QED BY <3>1 DEF Types, Queue, Limiting
  <2> QED BY <2>1, <2>2
<1>4. CASE sq_receive
  BY <1>4, ReceiveTypes
<1>5. CASE UNCHANGED vars
  BY <1>5 DEF vars, clientVars, Types, Queue, Limiting
<1> QED BY <1>1, <1>2, <1>3, <1>4, <1>5 DEF Next, Done

(* The state of the queue and of its clients keeps its type, in every      *)
(* order of sq_send, sq_receive, sq_set_tb and the ends of the streams.    *)
THEOREM TypeCorrect == Spec => []TypeOK
<1>1. Init => Types
  BY InitTypes
<1>2. Types /\ [Next]_vars => Types'
  BY StepTypes
<1>3. Types => TypeOK
  BY DEF Types, TypeOK, Queue
<1> QED BY <1>1, <1>2, <1>3, PTL DEF Spec

-----------------------------------------------------------------------------
(* What the fields of a queue say about each other.  Timestamps are later  *)
(* than the value that stands for none; ...                                *)
Above(q) ==
  \A s \in Streams : HasHead(q, s) =>
    \A c \in TimeBases : NoTs * c < HeadTime(q, s)

(* ... the finished head, if there is one, has ended first, and all that   *)
(* are as far are finished, except perhaps those of X; ...                 *)
EndSharedBut(q, X) ==
  LET h == q.head_finished_stream IN
  /\ h >= 0 => h \in q.finished /\ HasHead(q, h)
  /\ \A s \in Limiting \cap q.finished : HasHead(q, s) =>
       h >= 0 /\ HeadTime(q, h) <= HeadTime(q, s)
  /\ h >= 0 => \A s \in Streams \ X :
       HasHead(q, s) /\ HeadTime(q, h) <= HeadTime(q, s) => s \in q.finished

(* ... there is a head as soon as all limiting streams have come to some   *)
(* time, and it is the smallest (queue_head_update starts its search with  *)
(* stream 0, which must be one of them); ...                               *)
HeadSmallest(q) ==
  0 \in Limiting /\ q.head_stream >= 0 =>
    /\ q.head_stream \in Limiting
    /\ \A s \in Limiting : /\ HasHead(q, s)
                          /\ HeadTime(q, q.head_stream) <= HeadTime(q, s)
HeadWaits(q) ==
  q.head_stream < 0 => \E s \in Limiting : ~HasHead(q, s)

(* ... the queue is over when all streams are finished, or, as stream 0    *)
(* was added alone, when that one takes no frame.                          *)
OverMeans(q) ==
  q.over => \/ Streams \subseteq q.finished
            \/ 0 \in Limiting \cap q.finished /\ ~HasHead(q, 0)

QueueInv(q) ==
  /\ q \in Queue /\ \A s \in Streams : q.tb[s] \in TimeBases
  /\ Above(q) /\ EndSharedBut(q, {})
  /\ HeadSmallest(q) /\ HeadWaits(q) /\ OverMeans(q)

(* The queue p comes after q: what was known or finished still is.         *)
Later(p, q) ==
  /\ p.tb = q.tb /\ q.finished \subseteq p.finished /\ (q.over => p.over)
  /\ \A s \in Streams : HasHead(q, s) =>
       HasHead(p, s) /\ HeadTime(q, s) <= HeadTime(p, s)

(* A head in ticks is an integer; time bases are positive.                 *)
LEMMA HeadTimeIs ==
  ASSUME opt \in Options, NEW q \in Queue, NEW s \in Streams
  PROVE  HeadTime(q, s) \in Int /\ q.tb[s] \in Nat \ {0} /\ q.head_ts[s] \in Int
<1>1. q.tb[s] \in Nat \ {0} /\ q.head_ts[s] \in Int
  BY DEF Queue
<1> QED BY <1>1 DEF HeadTime

(* Time bases are positive.                                                *)
LEMMA TimeBasesAre == TimeBases \subseteq Nat \ {0}
  BY TimeAssumption DEF TimeBases

(* A later time has no smaller product with a time base.                   *)
LEMMA TimesMonotone ==
  ASSUME NEW a \in Int, NEW b \in Int, NEW c \in Nat, a <= b
  PROVE  a * c <= b * c /\ a * c \in Int /\ b * c \in Int
<1>1. (b - a) * c \in Nat
  OBVIOUS
<1>2. (b - a) * c = b * c - a * c
  OBVIOUS
<1> QED BY <1>1, <1>2

(* To come later is transitive.                                            *)
LEMMA LaterTransitive ==
  ASSUME opt \in Options, NEW o \in Queue, NEW p \in Queue, NEW q \in Queue,
         Later(o, p), Later(p, q)
  PROVE  Later(o, q)
<1>1. ASSUME NEW s \in Streams, HasHead(q, s)
      PROVE  HasHead(o, s) /\ HeadTime(q, s) <= HeadTime(o, s)
  <2>1. HasHead(p, s) /\ HeadTime(q, s) <= HeadTime(p, s)
    BY <1>1 DEF Later
  <2>2. HasHead(o, s) /\ HeadTime(p, s) <= HeadTime(o, s)
    BY <2>1 DEF Later
  <2>3. HeadTime(o, s) \in Int /\ HeadTime(p, s) \in Int /\ HeadTime(q, s) \in Int
    BY HeadTimeIs
  <2> QED BY <2>1, <2>2, <2>3
<1> QED BY <1>1 DEF Later

(* A queue is not earlier than itself.                                     *)
LEMMA LaterReflexive ==
  ASSUME opt \in Options, NEW q \in Queue
  PROVE  Later(q, q)
  BY HeadTimeIs DEF Later

-----------------------------------------------------------------------------
(* finish_stream: the finished head stays the first that ended, and takes  *)
(* along all that are as far, the stream itself included.                  *)
LEMMA FinishShares ==
  ASSUME opt \in Options, NEW q \in Queue, NEW s \in Streams,
         EndSharedBut(q, {s})
  PROVE  LET p == finish_stream(q, s) IN
         /\ EndSharedBut(p, {})
         /\ p.over => q.over \/ Streams \subseteq p.finished
<1> DEFINE cuts == s \in Limiting /\ HasHead(q, s)
           h == q.head_finished_stream
           hf    == IF cuts THEN NewFinishedHead(q, s) ELSE h
           ahead == {r \in Streams \ {hf} : /\ cuts /\ HasHead(q, r)
                                            /\ HeadTime(q, hf) <= HeadTime(q, r)}
           all == q.finished \cup {s} \cup ahead
           p == finish_stream(q, s)
           T(r) == HeadTime(q, r)
<1>1. p = [q EXCEPT !.finished = all, !.head_finished_stream = hf,
                    !.over = @ \/ all = Streams]
  BY DEF finish_stream
<1>2. /\ p.finished = all /\ p.head_finished_stream = hf
      /\ p.over = (q.over \/ all = Streams)
  <2> HIDE DEF all, hf, p
  <2> QED BY <1>1 DEF Queue
<1>3. p.head_ts = q.head_ts /\ p.tb = q.tb
  BY FinishKeeps
<1>4. \A r : /\ HasHead(p, r) <=> HasHead(q, r)
             /\ HeadTime(p, r) = T(r)
  BY <1>3 DEF HasHead, HeadTime
<1>5. \A r \in Streams : T(r) \in Int
  BY HeadTimeIs
<1>6. h >= 0 => h \in Streams /\ h \in q.finished /\ HasHead(q, h)
  BY DEF EndSharedBut, Queue
<1>7. h \in Int
  BY LimitingAre DEF Queue
<1>8. \A r \in Limiting \cap q.finished : HasHead(q, r) => h >= 0 /\ T(h) <= T(r)
  BY DEF EndSharedBut
<1>9. h >= 0 => \A r \in Streams \ {s} :
         HasHead(q, r) /\ T(h) <= T(r) => r \in q.finished
  BY DEF EndSharedBut
<1>10. Limiting \subseteq Streams /\ Streams \subseteq Nat
  BY LimitingAre
<1>11. /\ hf >= 0 => hf \in all /\ HasHead(q, hf)
       /\ \A r \in Limiting \cap all : HasHead(q, r) => hf >= 0 /\ T(hf) <= T(r)
       /\ hf >= 0 => \A r \in Streams :
            HasHead(q, r) /\ T(hf) <= T(r) => r \in all
  <2>1. CASE ~cuts
    <3>1. hf = h /\ all = q.finished \cup {s}
      BY <2>1
    <3>2. \A r \in Limiting \cap {s} : ~HasHead(q, r)
      BY <2>1
    <3> HIDE DEF cuts, hf, all, h, T
    <3> QED BY <1>6, <1>8, <1>9, <3>1, <3>2
  <2>2. CASE cuts
    <3>1. /\ hf \in {s, h} /\ hf >= 0 /\ HasHead(q, hf)
          /\ T(hf) <= T(s) /\ (h >= 0 => T(hf) <= T(h))
          /\ hf \in q.finished \cup {s}
      <4>1. s >= 0 /\ HasHead(q, s)
        BY <1>10, <2>2
      <4>2. hf = IF h < 0 \/ T(s) < T(h) THEN s ELSE h
        BY <2>2 DEF NewFinishedHead
      <4> HIDE DEF hf, T, h
      <4>3. CASE h < 0 \/ T(s) < T(h)
        BY <1>5, <1>6, <1>7, <4>1, <4>2, <4>3
      <4>4. CASE ~(h < 0 \/ T(s) < T(h))
        BY <1>5, <1>6, <1>7, <4>1, <4>2, <4>4
      <4> QED BY <4>3, <4>4
    <3>2. \A r \in Streams : HasHead(q, r) /\ T(hf) <= T(r) => r \in all
      <4>1. ASSUME NEW r \in Streams, HasHead(q, r), T(hf) <= T(r), r # hf
            PROVE  r \in ahead
        BY <2>2, <4>1
      <4> HIDE DEF ahead, hf, T
      <4> QED BY <3>1, <4>1
    <3>3. ASSUME NEW r \in Limiting \cap all, HasHead(q, r)
          PROVE  T(hf) <= T(r)
      <4>1. CASE r \in q.finished
        <5>1. h >= 0 /\ T(h) <= T(r)
          BY <1>8, <3>3, <4>1
        <5>2. T(h) \in Int /\ T(r) \in Int /\ T(hf) \in Int /\ T(hf) <= T(h)
          BY <1>5, <1>6, <1>10, <3>1, <5>1
        <5> HIDE DEF T, hf, h
        <5> QED BY <5>1, <5>2
      <4>2. CASE r = s
        BY <3>1, <4>2
      <4>3. CASE r \in ahead
        BY <4>3
      <4> QED BY <3>3, <4>1, <4>2, <4>3
    <3>4. hf \in all
      BY <3>1
    <3> HIDE DEF cuts, hf, all, T
    <3> QED BY <3>1, <3>2, <3>3, <3>4
  <2> QED BY <2>1, <2>2
<1> HIDE DEF all, hf, T, p
<1>12. EndSharedBut(p, {})
  BY <1>2, <1>4, <1>11 DEF EndSharedBut
<1> QED BY <1>2, <1>12 DEF p

(* The search for the head ends at a limiting stream that none is behind.  *)
LEMMA HeadFound ==
  ASSUME opt \in Options, NEW q \in Queue, Above(q), NEW s \in Streams,
         Behind(q, s) # {}
  PROVE  \E r \in Behind(q, s) : Behind(q, r) = {}
<1> DEFINE low == NoTs * DefaultTb
           far(r) == HeadTime(q, r) - low
           S == {far(r) : r \in Behind(q, s)}
<1>1. low \in Int /\ DefaultTb \in TimeBases
  BY TimeAssumption DEF TimeBases, NoTs
<1>2. ASSUME NEW r \in Limiting, HasHead(q, r)
      PROVE  HeadTime(q, r) \in Int /\ low < HeadTime(q, r) /\ r \in Streams
  BY <1>1, <1>2, HeadTimeIs, LimitingAre DEF Above
<1> HIDE DEF low
<1>3. \A r \in Behind(q, s) : far(r) \in Nat
  BY <1>1, <1>2 DEF Behind
<1>4. S \subseteq Nat /\ S # {}
  BY <1>3
<1>5. PICK x \in S : \A y \in S : x <= y
  BY <1>4, LeastNat
<1>6. PICK r \in Behind(q, s) : x = far(r)
  BY <1>5
<1>7. ASSUME NEW t \in Behind(q, r) PROVE FALSE
  <2>1. /\ HeadTime(q, t) < HeadTime(q, r) /\ t \in Limiting /\ HasHead(q, t)
        /\ HeadTime(q, r) < HeadTime(q, s) /\ r \in Limiting /\ HasHead(q, r)
    BY <1>6, <1>7 DEF Behind
  <2>2. /\ HeadTime(q, t) \in Int /\ HeadTime(q, r) \in Int
        /\ HeadTime(q, s) \in Int
    BY <1>2, <2>1, HeadTimeIs
  <2>3. t \in Behind(q, s)
    BY <2>1, <2>2 DEF Behind
  <2>4. x <= far(t)
    BY <1>5, <2>3
  <2> QED BY <1>1, <1>6, <2>1, <2>2, <2>4
<1> QED BY <1>7

(* queue_head_update.                                                      *)
LEMMA HeadUpdateInv ==
  ASSUME opt \in Options, NEW q \in Queue, Above(q),
         0 \in Limiting /\ q.head_stream >= 0 =>
           /\ q.head_stream \in Limiting
           /\ \A s \in Limiting : HasHead(q, s)
  PROVE  HeadSmallest(queue_head_update(q)) /\ HeadWaits(queue_head_update(q))
<1> DEFINE start == IF q.head_stream < 0 THEN 0 ELSE q.head_stream
           least == {s \in Behind(q, start) : Behind(q, s) = {}}
           head  == IF least = {} THEN start
                    ELSE CHOOSE s \in least : \A r \in least : s <= r
           p == queue_head_update(q)
<1>1. q.head_stream \in Int /\ start \in Streams /\ Streams \subseteq Nat
  BY LimitingAre DEF Queue
<1>2. CASE q.head_stream < 0 /\ \E s \in Limiting : ~HasHead(q, s)
  <2>1. p = q
    BY <1>2 DEF queue_head_update
  <2> QED BY <1>1, <1>2, <2>1 DEF HeadSmallest, HeadWaits
<1>3. CASE ~(q.head_stream < 0 /\ \E s \in Limiting : ~HasHead(q, s))
  <2>1. p = [q EXCEPT !.head_stream = head]
    BY <1>3 DEF queue_head_update
  <2>2. least \subseteq Behind(q, start) /\ Behind(q, start) \subseteq Limiting
    BY DEF Behind
  <2>3. least # {} => head \in least
    <3>1. least \subseteq Streams
      BY <2>2, LimitingAre
    <3> HIDE DEF least
    <3> QED BY <3>1, FirstStream
  <2>4. head \in Streams
    <3> HIDE DEF least
    <3> QED BY <1>1, <2>2, <2>3, LimitingAre
  <2>5. Behind(q, head) = {}
    <3>1. CASE least = {}
      <4>1. head = start
        BY <3>1
      <4>2. ~ \E r \in Behind(q, start) : Behind(q, r) = {}
        BY <3>1
      <4> HIDE DEF head, start
      <4> QED BY <1>1, <4>1, <4>2, HeadFound
    <3>2. CASE least # {}
      <4>1. head \in least
        BY <2>3, <3>2
      <4> HIDE DEF head
      <4> QED BY <4>1
    <3> QED BY <3>1, <3>2
  <2>6. ASSUME 0 \in Limiting
        PROVE  head \in Limiting /\ \A s \in Limiting : HasHead(q, s)
    <3>1. start \in Limiting /\ \A s \in Limiting : HasHead(q, s)
      BY <1>1, <1>3, <2>6
    <3>2. CASE least = {}
      <4> HIDE DEF least, start
      <4> QED BY <3>1, <3>2
    <3>3. CASE least # {}
      <4> HIDE DEF least, head
      <4> QED BY <2>2, <2>3, <3>1, <3>3
    <3> QED BY <3>2, <3>3
  <2> HIDE DEF head, p
  <2>7. /\ p.head_stream = head /\ p.head_ts = q.head_ts /\ p.tb = q.tb
    BY <2>1 DEF Queue
  <2>8. \A r : /\ HasHead(p, r) <=> HasHead(q, r)
               /\ HeadTime(p, r) = HeadTime(q, r)
    BY <2>7 DEF HasHead, HeadTime
  <2>9. HeadWaits(p)
    BY <1>1, <2>4, <2>7 DEF HeadWaits
  <2>10. HeadSmallest(p)
    <3>1. ASSUME 0 \in Limiting, NEW s \in Limiting
          PROVE  HeadTime(q, head) <= HeadTime(q, s)
      <4>1. ~(HeadTime(q, s) < HeadTime(q, head))
        BY <2>5, <2>6, <3>1 DEF Behind
      <4>2. HeadTime(q, s) \in Int /\ HeadTime(q, head) \in Int
        BY <2>4, HeadTimeIs, LimitingAre
      <4> QED BY <4>1, <4>2
    <3> QED BY <2>6, <2>7, <2>8, <3>1 DEF HeadSmallest
  <2> QED BY <2>9, <2>10 DEF p
<1> QED BY <1>2, <1>3

(* Invariance under finish_stream.                                         *)
LEMMA FinishInv ==
  ASSUME opt \in Options, NEW q, QueueInv(q), NEW s \in Streams
  PROVE  /\ QueueInv(finish_stream(q, s))
         /\ Later(finish_stream(q, s), q)
<1> DEFINE p == finish_stream(q, s)
<1>1. q \in Queue
  BY DEF QueueInv
<1>2. /\ p \in Queue /\ p.head_ts = q.head_ts /\ p.tb = q.tb
      /\ p.head_stream = q.head_stream
      /\ q.finished \subseteq p.finished /\ (q.over => p.over)
  BY <1>1, FinishKeeps
<1>3. EndSharedBut(q, {s})
  BY DEF QueueInv, EndSharedBut
<1>4. EndSharedBut(p, {}) /\ (p.over => q.over \/ Streams \subseteq p.finished)
  BY <1>1, <1>3, FinishShares
<1> HIDE DEF p
<1>5. \A r : /\ HasHead(p, r) <=> HasHead(q, r)
             /\ HeadTime(p, r) = HeadTime(q, r)
  BY <1>2 DEF HasHead, HeadTime
<1>6. Above(p)
  BY <1>5 DEF QueueInv, Above
<1>7. HeadSmallest(p) /\ HeadWaits(p)
  BY <1>2, <1>5 DEF QueueInv, HeadSmallest, HeadWaits
<1>8. OverMeans(p)
  BY <1>2, <1>4, <1>5 DEF QueueInv, OverMeans
<1>9. Later(p, q)
  BY <1>1, <1>2, <1>5, HeadTimeIs DEF Later
<1>10. \A r \in Streams : p.tb[r] \in TimeBases
  BY <1>2 DEF QueueInv
<1> QED BY <1>2, <1>4, <1>6, <1>7, <1>8, <1>9, <1>10 DEF QueueInv, p

(* stream_update_ts, for a stream that is not finished: its head moves     *)
(* forward, it is finished when it comes to the finished head, and the     *)
(* head of the queue is searched again when it was this one.               *)
LEMMA UpdateInv ==
  ASSUME opt \in Options, NEW q, QueueInv(q), NEW s \in Streams,
         s \notin q.finished, NEW ts \in Int,
         ts # NoTs => \A c \in TimeBases : NoTs * c < ts * q.tb[s]
  PROVE  /\ QueueInv(stream_update_ts(q, s, ts))
         /\ Later(stream_update_ts(q, s, ts), q)
<1> DEFINE q1 == [q EXCEPT !.head_ts[s] = ts]
           cut == /\ q1.head_finished_stream >= 0
                  /\ HeadTime(q1, q1.head_finished_stream) <= HeadTime(q1, s)
           q2 == IF cut THEN finish_stream(q1, s) ELSE q1
           q3 == stream_update_ts(q, s, ts)
           h == q.head_finished_stream
<1>1. q \in Queue /\ opt \in Options
  BY DEF QueueInv
<1>2. CASE ts = NoTs \/ (HasHead(q, s) /\ q.head_ts[s] >= ts)
  <2>1. q3 = q
    BY <1>2 DEF stream_update_ts
  <2> QED BY <1>1, <2>1, LaterReflexive
<1>3. CASE ~(ts = NoTs \/ (HasHead(q, s) /\ q.head_ts[s] >= ts))
  <2>1. q3 = IF s \in Limiting /\ q2.head_stream \in {-1, s}
             THEN queue_head_update(q2) ELSE q2
    BY <1>3 DEF stream_update_ts
  <2>2. /\ q1 \in Queue /\ q1.finished = q.finished /\ q1.over = q.over
        /\ q1.tb = q.tb /\ q1.head_stream = q.head_stream
        /\ q1.head_finished_stream = h
        /\ q1.head_ts[s] = ts
        /\ \A r \in Streams \ {s} : q1.head_ts[r] = q.head_ts[r]
    BY <1>1 DEF Queue
  <2> HIDE DEF q1
  <2>3. \A r \in Streams \ {s} : /\ HasHead(q1, r) <=> HasHead(q, r)
                                 /\ HeadTime(q1, r) = HeadTime(q, r)
    BY <2>2 DEF HasHead, HeadTime
  <2>4. HasHead(q1, s) /\ HeadTime(q1, s) = ts * q.tb[s]
    BY <1>3, <2>2 DEF HasHead, HeadTime
  <2>5. HasHead(q, s) => HeadTime(q, s) <= HeadTime(q1, s)
    <3>1. SUFFICES ASSUME HasHead(q, s) PROVE HeadTime(q, s) <= HeadTime(q1, s)
      OBVIOUS
    <3>2. q.head_ts[s] \in Int /\ q.tb[s] \in Nat
      BY <1>1, HeadTimeIs
    <3>3. q.head_ts[s] <= ts
      BY <1>3, <3>1, <3>2
    <3> QED BY <2>4, <3>2, <3>3, TimesMonotone DEF HeadTime
  <2>6. \A r \in Streams : /\ HeadTime(q1, r) \in Int
                           /\ HeadTime(q, r) \in Int
    BY <1>1, <2>2, HeadTimeIs
  <2>7. \A r \in Streams : HasHead(q, r) =>
          HasHead(q1, r) /\ HeadTime(q, r) <= HeadTime(q1, r)
    BY <2>3, <2>4, <2>5, <2>6
  <2>8. Above(q1)
    <3>1. \A c \in TimeBases : NoTs * c < HeadTime(q1, s)
      BY <1>3, <2>4
    <3> QED BY <2>3, <3>1 DEF QueueInv, Above
  <2>9. h >= 0 => h \in Streams \ {s} /\ h \in q.finished /\ HasHead(q, h)
    BY <1>1 DEF QueueInv, EndSharedBut, Queue
  <2>10. EndSharedBut(q1, {s})
    <3>1. /\ h >= 0 => h \in q.finished /\ HasHead(q1, h)
          /\ h >= 0 => HeadTime(q1, h) = HeadTime(q, h)
      BY <2>3, <2>9
    <3>2. ASSUME NEW r \in Limiting \cap q.finished, HasHead(q1, r)
          PROVE  h >= 0 /\ HeadTime(q1, h) <= HeadTime(q1, r)
      <4>1. r \in Streams \ {s}
        BY LimitingAre
      <4>2. HasHead(q, r) /\ HeadTime(q1, r) = HeadTime(q, r)
        BY <2>3, <3>2, <4>1
      <4>3. h >= 0 /\ HeadTime(q, h) <= HeadTime(q, r)
        BY <4>2 DEF QueueInv, EndSharedBut
      <4> QED BY <3>1, <4>2, <4>3
    <3>3. ASSUME h >= 0, NEW r \in Streams \ {s}, HasHead(q1, r),
                 HeadTime(q1, h) <= HeadTime(q1, r)
          PROVE  r \in q.finished
      BY <2>3, <3>1, <3>3 DEF QueueInv, EndSharedBut
    <3> QED BY <2>2, <3>1, <3>2, <3>3 DEF EndSharedBut
  <2>11. OverMeans(q1)
    <3>1. q.over => 0 # s /\ 0 \in Streams
      BY LimitingAre DEF QueueInv, OverMeans
    <3> QED BY <2>2, <2>3, <3>1 DEF QueueInv, OverMeans
  <2>12. /\ q2 \in Queue /\ q2.head_ts = q1.head_ts /\ q2.tb = q.tb
         /\ q2.head_stream = q.head_stream
         /\ q.finished \subseteq q2.finished /\ (q.over => q2.over)
         /\ EndSharedBut(q2, {}) /\ OverMeans(q2)
    <3>1. CASE cut
      <4>1. q2 = finish_stream(q1, s)
        BY <3>1
      <4>2. /\ q2 \in Queue /\ q2.head_ts = q1.head_ts /\ q2.tb = q1.tb
            /\ q2.head_stream = q1.head_stream
            /\ q1.finished \subseteq q2.finished /\ (q1.over => q2.over)
        BY <2>2, <4>1, FinishKeeps
      <4>3. /\ EndSharedBut(q2, {})
            /\ q2.over => q1.over \/ Streams \subseteq q2.finished
        BY <2>2, <2>10, <4>1, FinishShares
      <4> HIDE DEF q2
      <4>4. HasHead(q2, 0) <=> HasHead(q1, 0)
        BY <4>2 DEF HasHead
      <4>5. OverMeans(q2)
        BY <2>11, <4>2, <4>3, <4>4 DEF OverMeans
      <4> QED BY <2>2, <4>2, <4>3, <4>5
    <3>2. CASE ~cut
      <4>1. q2 = q1
        BY <3>2
      <4>2. h >= 0 => ~(HeadTime(q1, h) <= HeadTime(q1, s))
        BY <2>2, <3>2
      <4>3. EndSharedBut(q1, {})
        BY <2>2, <2>10, <4>2 DEF EndSharedBut
      <4> QED BY <2>2, <2>11, <4>1, <4>3
    <3> QED BY <3>1, <3>2
  <2> HIDE DEF q2, cut
  <2>13. \A r : /\ HasHead(q2, r) <=> HasHead(q1, r)
                /\ HeadTime(q2, r) = HeadTime(q1, r)
    BY <2>2, <2>12 DEF HasHead, HeadTime
  <2>14. Above(q2)
    BY <2>8, <2>13 DEF Above
  <2>15. Later(q2, q)
    BY <2>7, <2>12, <2>13 DEF Later
  <2>16. q.head_stream \in Streams \cup {-1} /\ Streams \subseteq Nat
    BY <1>1, LimitingAre DEF Queue
  <2>17. ASSUME 0 \in Limiting, q.head_stream >= 0
         PROVE  /\ q.head_stream \in Limiting
                /\ \A r \in Limiting : /\ HasHead(q, r) /\ HasHead(q2, r)
                                      /\ HeadTime(q, q.head_stream) <= HeadTime(q, r)
                                      /\ HeadTime(q, r) <= HeadTime(q2, r)
    BY <2>7, <2>13, <2>17, LimitingAre DEF QueueInv, HeadSmallest
  <2>18. CASE s \in Limiting /\ q2.head_stream \in {-1, s}
    <3>1. q3 = queue_head_update(q2)
      BY <2>1, <2>18
    <3>2. HeadSmallest(q3) /\ HeadWaits(q3)
      BY <2>12, <2>14, <2>17, <3>1, HeadUpdateInv
    <3>3. PICK k \in Streams \cup {-1} :
            q3 = [q2 EXCEPT !.head_stream = k]
      BY <2>12, <3>1, HeadUpdateKeeps
    <3>4. q3 \in Queue
      BY <2>12, <3>1, HeadUpdateKeeps
    <3> HIDE DEF q3
    <3>5. /\ q3.head_ts = q2.head_ts /\ q3.tb = q2.tb
          /\ q3.finished = q2.finished /\ q3.over = q2.over
          /\ q3.head_finished_stream = q2.head_finished_stream
      BY <2>12, <3>3 DEF Queue
    <3>6. \A r : /\ HasHead(q3, r) <=> HasHead(q2, r)
                 /\ HeadTime(q3, r) = HeadTime(q2, r)
      BY <3>5 DEF HasHead, HeadTime
    <3>7. Above(q3) /\ EndSharedBut(q3, {}) /\ OverMeans(q3)
      BY <2>12, <2>14, <3>5, <3>6 DEF Above, EndSharedBut, OverMeans
    <3>8. Later(q3, q)
      BY <2>15, <3>5, <3>6 DEF Later
    <3>9. \A r \in Streams : q3.tb[r] \in TimeBases
      BY <2>12, <3>5 DEF QueueInv
    <3> QED BY <3>2, <3>4, <3>7, <3>8, <3>9 DEF QueueInv, q3
  <2>19. CASE ~(s \in Limiting /\ q2.head_stream \in {-1, s})
    <3>1. q3 = q2
      BY <2>1, <2>19
    <3>2. HeadWaits(q2)
      <4>1. SUFFICES ASSUME q.head_stream < 0
                     PROVE  \E r \in Limiting : ~HasHead(q2, r)
        BY <2>12 DEF HeadWaits
      <4>2. q.head_stream = -1
        <5>1. ASSUME q.head_stream \in Nat PROVE FALSE
          BY <4>1, <5>1
        <5> QED BY <2>16, <5>1
      <4>3. s \notin Limiting
        BY <2>12, <2>19, <4>2
      <4>4. PICK r \in Limiting : ~HasHead(q, r)
        BY <4>1 DEF QueueInv, HeadWaits
      <4>5. r \in Streams \ {s}
        BY <4>3, LimitingAre
      <4> QED BY <2>3, <2>13, <4>4, <4>5
    <3>3. HeadSmallest(q2)
      <4>1. SUFFICES ASSUME 0 \in Limiting, q.head_stream >= 0
                     PROVE  /\ q.head_stream \in Limiting
                            /\ \A r \in Limiting :
                                 /\ HasHead(q2, r)
                                 /\ HeadTime(q2, q.head_stream) <= HeadTime(q2, r)
        BY <2>12 DEF HeadSmallest
      <4>2. q.head_stream \in Limiting
        BY <2>17, <4>1
      <4>3. q.head_stream \in Streams \ {s}
        BY <2>12, <2>19, <4>2, LimitingAre
      <4>4. HeadTime(q2, q.head_stream) = HeadTime(q, q.head_stream)
        BY <2>3, <2>13, <4>3
      <4>5. ASSUME NEW r \in Limiting
            PROVE  /\ HasHead(q2, r)
                   /\ HeadTime(q2, q.head_stream) <= HeadTime(q2, r)
        <5>1. /\ HasHead(q2, r)
              /\ HeadTime(q, q.head_stream) <= HeadTime(q, r)
              /\ HeadTime(q, r) <= HeadTime(q2, r)
          BY <2>17, <4>1
        <5>2. /\ HeadTime(q, q.head_stream) \in Int /\ HeadTime(q, r) \in Int
              /\ HeadTime(q2, r) \in Int
          BY <2>6, <2>13, <4>2, LimitingAre
        <5> QED BY <4>4, <5>1, <5>2
      <4> QED BY <4>2, <4>5
    <3>4. \A r \in Streams : q2.tb[r] \in TimeBases
      BY <2>12 DEF QueueInv
    <3> QED BY <2>12, <2>14, <2>15, <3>1, <3>2, <3>3, <3>4 DEF QueueInv
  <2> QED BY <2>18, <2>19
<1> QED BY <1>2, <1>3

-----------------------------------------------------------------------------
(* The time of a heartbeat is rounded, by half a unit at most.             *)
LEMMA RoundedAbove ==
  ASSUME NEW x \in Int, NEW a \in Nat \ {0}, NEW b \in Nat \ {0}, NEW n \in Int,
         n + b <= x * a, NEW t \in Int, Rescale(x + 1, a, b) <= t
  PROVE  n < t * b
<1> DEFINE ts == Rescale(x + 1, a, b)
<1>1. ts \in Int /\ 2 * ((x + 1) * a) - b <= 2 * (ts * b)
  <2>1. x + 1 \in Int
    OBVIOUS
  <2> QED BY <2>1, RescaleIs
<1> HIDE DEF ts
<1>2. ts * b <= t * b /\ ts * b \in Int /\ t * b \in Int
  BY <1>1, TimesMonotone DEF ts
<1>3. (x + 1) * a = x * a + a /\ x * a \in Int
  OBVIOUS
<1> QED BY <1>1, <1>2, <1>3

(* A heartbeat comes later than any AV_NOPTS_VALUE, rounding included.     *)
LEMMA HeartbeatAbove ==
  ASSUME opt \in Options, fifo \in [Streams -> Seq(Frames)], NEW q, QueueInv(q),
         NEW s \in Streams, TailTs(s) # NoTs, NEW r \in Streams,
         NEW t \in Int, Rescale(TailTs(s) + 1, q.tb[s], q.tb[r]) <= t
  PROVE  \A c \in TimeBases : NoTs * c < t * q.tb[r]
<1>1. SUFFICES ASSUME NEW c \in TimeBases PROVE NoTs * c < t * q.tb[r]
  OBVIOUS
<1>2. /\ q.tb[s] \in TimeBases /\ q.tb[r] \in TimeBases
      /\ q.tb[s] \in Nat \ {0} /\ q.tb[r] \in Nat \ {0} /\ c \in Nat \ {0}
  BY TimeBasesAre DEF QueueInv
<1>3. PICK f \in Frames : TailTs(s) = frame_ts(f)
  BY TailIs
<1>4. TailTs(s) \in Int
  BY TailIs
<1>5. NoTs * c + q.tb[r] <= TailTs(s) * q.tb[s]
  BY <1>2, <1>3, NoTsAssumption
<1>6. NoTs * c \in Int
  BY <1>2 DEF NoTs
<1> QED BY <1>2, <1>4, <1>5, <1>6, RoundedAbove

(* Invariance under overflow_heartbeat.                                    *)
LEMMA OverflowInv ==
  ASSUME opt \in Options, fifo \in [Streams -> Seq(Frames)], NEW q, QueueInv(q),
         NEW asked \in SUBSET Streams
  PROVE  /\ QueueInv(overflow_heartbeat(q, asked))
         /\ Later(overflow_heartbeat(q, asked), q)
<1> DEFINE Good == {p \in Queue : QueueInv(p) /\ Later(p, q)}
<1>1. q \in Queue /\ q \in Good
  BY LaterReflexive DEF QueueInv
<1>2. ASSUME NEW s \in Streams, Overflows(q, s) PROVE Heartbeats(q, s) \in Good
  <2>1. TailTs(s) # NoTs
    BY <1>2 DEF Overflows
  <2>2. ASSUME NEW p \in Good, NEW r \in Streams
        PROVE  Heartbeat(p, s, r) \in Good
    <3> DEFINE ts == Rescale(TailTs(s) + 1, p.tb[s], p.tb[r])
               t  == IF HasHead(p, r) /\ p.head_ts[r] >= ts
                     THEN p.head_ts[r] + 1 ELSE ts
    <3>1. p \in Queue /\ QueueInv(p) /\ Later(p, q)
      OBVIOUS
    <3>2. CASE Heartbeat(p, s, r) = p
      BY <3>2
    <3>3. CASE /\ t \in Int /\ ts <= t /\ r \notin p.finished
               /\ Heartbeat(p, s, r) = stream_update_ts(p, r, t)
      <4>1. \A c \in TimeBases : NoTs * c < t * p.tb[r]
        BY <2>1, <3>1, <3>3, HeartbeatAbove
      <4> HIDE DEF t
      <4>2. /\ QueueInv(stream_update_ts(p, r, t))
            /\ Later(stream_update_ts(p, r, t), p)
        BY <3>1, <3>3, <4>1, UpdateInv
      <4>3. stream_update_ts(p, r, t) \in Queue
        BY <4>2 DEF QueueInv
      <4>4. Later(stream_update_ts(p, r, t), q)
        BY <1>1, <3>1, <4>2, <4>3, LaterTransitive
      <4> QED BY <3>3, <4>2, <4>3, <4>4
    <3>4. \/ Heartbeat(p, s, r) = p
          \/ /\ t \in Int /\ ts <= t /\ r \notin p.finished
             /\ Heartbeat(p, s, r) = stream_update_ts(p, r, t)
      BY <3>1, HeartbeatIs
    <3> HIDE DEF t, Good
    <3> QED BY <3>2, <3>3, <3>4
  <2> HIDE DEF Good
  <2> QED BY <1>1, <2>2, EachHeartbeat, LimitingAre
<1> HIDE DEF Good
<1>3. overflow_heartbeat(q, asked) \in Good
  BY <1>1, <1>2, OverflowIs
<1> QED BY <1>3 DEF Good

-----------------------------------------------------------------------------
(* What the proofs of the invariants ask of the constants.  Stream 0       *)
(* limits the queue, as it does with -shortest; queue_head_update begins   *)
(* its search there.                                                       *)
FirstLimits == \A o \in Options : 0 \in o.limiting

(* Where encoders use the queue, a stream may be moved by a heartbeat      *)
(* before sq_set_tb gives it its time base; that time base is a part of    *)
(* the one of sq_add_stream, or the head would be rounded.                 *)
ExactBases ==
  (\E o \in Options : o.perStream) =>
    \A s \in Streams : \E k \in 1 .. DefaultTb : DefaultTb = k * Tb[s]

(* The invariant.  The muxer sets all time bases before it sends, and      *)
(* leaves no frame behind that is ready; an encoder that was told EOF left *)
(* a frame only when the queue is over.                                    *)
Bases ==
  \A s \in Streams : sq.tb[s] = IF s \in tbSet THEN Tb[s] ELSE DefaultTb

MuxWaits ==
  ~PerStream /\ tbSet # Streams =>
    client = -1 /\ \A s \in Streams : fifo[s] = <<>> /\ ~HasHead(sq, s)

MuxServed ==
  ~PerStream /\ client = -1 => \A s \in Streams : ~Ready(sq, s)

EncoderServed ==
  PerStream =>
    /\ client \in tbSet \cup {-1} /\ flushed \subseteq tbSet
    /\ 0 \in Limiting => \A s \in flushed :
         /\ s \in sq.finished
         /\ fifo[s] = <<>> \/ (sq.over /\ ~Ready(sq, s))

NoneLonger(q, l) ==
  0 \in Limiting => \A s \in Streams, r \in Limiting :
    l[s] # NoTs => HasHead(q, r) /\ l[s] <= HeadTime(q, r)

IInv ==
  /\ Types /\ QueueInv(sq) /\ Bases /\ NoneLonger(sq, longest)
  /\ MuxWaits /\ MuxServed /\ EncoderServed

(* The options do not change, and with them what is said about a queue.    *)
LEMMA NextQueue ==
  ASSUME opt' = opt, QueueInv(sq')
  PROVE  QueueInv(sq)'
  BY DEF QueueInv, Queue, Above, EndSharedBut, HeadSmallest, HeadWaits,
         OverMeans, HasHead, HeadTime, Limiting

(* Heads move forward.                                                     *)
LEMMA NoneLongerLater ==
  ASSUME opt \in Options, NEW p \in Queue, NEW q \in Queue, Later(p, q),
         NEW l \in [Streams -> Int], NoneLonger(q, l)
  PROVE  NoneLonger(p, l)
<1> SUFFICES ASSUME 0 \in Limiting, NEW s \in Streams, NEW r \in Limiting,
                    l[s] # NoTs
             PROVE  HasHead(p, r) /\ l[s] <= HeadTime(p, r)
  BY DEF NoneLonger
<1>1. HasHead(q, r) /\ l[s] <= HeadTime(q, r)
  BY DEF NoneLonger
<1>2. r \in Streams
  BY LimitingAre
<1>3. HasHead(p, r) /\ HeadTime(q, r) <= HeadTime(p, r)
  BY <1>1, <1>2 DEF Later
<1>4. /\ l[s] \in Int /\ HeadTime(q, r) \in Int /\ HeadTime(p, r) \in Int
  BY <1>2, HeadTimeIs
<1> QED BY <1>1, <1>3, <1>4

(* A queue that differs in what is unknown only.                           *)
LEMMA SameTimes ==
  ASSUME opt \in Options, NEW p \in Queue, NEW q \in Queue, QueueInv(q),
         \A s \in Streams : p.tb[s] \in TimeBases,
         p.finished = q.finished, p.over = q.over,
         p.head_stream = q.head_stream,
         p.head_finished_stream = q.head_finished_stream,
         \A s \in Streams : /\ HasHead(p, s) <=> HasHead(q, s)
                            /\ HasHead(q, s) => HeadTime(p, s) = HeadTime(q, s)
  PROVE  QueueInv(p)
<1>1. Limiting \subseteq Streams /\ 0 \in Streams
  BY LimitingAre
<1>2. Above(p)
  BY DEF QueueInv, Above
<1>3. EndSharedBut(p, {})
  <2>1. q.head_finished_stream >= 0 => q.head_finished_stream \in Streams
    BY <1>1 DEF Queue
  <2> QED BY <1>1, <2>1 DEF QueueInv, EndSharedBut
<1>4. HeadSmallest(p) /\ HeadWaits(p) /\ OverMeans(p)
  BY <1>1 DEF QueueInv, HeadSmallest, HeadWaits, OverMeans
<1> QED BY <1>2, <1>3, <1>4 DEF QueueInv

(* sq_set_tb keeps every time, if the old time base is a multiple.         *)
LEMMA SetTbKeeps ==
  ASSUME IInv, ExactBases, NEW s \in Streams, sq_set_tb(s)
  PROVE  /\ QueueInv(sq')
         /\ \A r \in Streams :
              /\ HasHead(sq', r) <=> HasHead(sq, r)
              /\ HasHead(sq, r) => HeadTime(sq', r) = HeadTime(sq, r)
         /\ sq'.tb = [sq.tb EXCEPT ![s] = Tb[s]]
         /\ sq'.finished = sq.finished /\ sq'.over = sq.over
         /\ sq'.head_stream = sq.head_stream
<1> DEFINE t == IF HasHead(sq, s) THEN Rescale(sq.head_ts[s], sq.tb[s], Tb[s])
                ELSE sq.head_ts[s]
<1>1. opt \in Options /\ sq \in Queue /\ QueueInv(sq)
  BY DEF IInv, Types
<1>2. s \notin tbSet /\ sq' = [sq EXCEPT !.tb[s] = Tb[s], !.head_ts[s] = t]
  BY DEF sq_set_tb
<1>3. Tb[s] \in Nat \ {0} /\ DefaultTb \in Nat \ {0} /\ Tb[s] \in TimeBases
  BY TimeAssumption DEF TimeBases
<1>4. sq.tb[s] = DefaultTb /\ sq.head_ts[s] \in Int
  BY <1>1, <1>2, HeadTimeIs DEF IInv, Bases
<1>5. t \in Int
  BY <1>3, <1>4, RescaleIs
<1>6. ASSUME HasHead(sq, s)
      PROVE  t # NoTs /\ t * Tb[s] = HeadTime(sq, s)
  <2>1. PerStream
    BY <1>2, <1>6 DEF IInv, MuxWaits
  <2>2. PICK k \in 1 .. DefaultTb : DefaultTb = k * Tb[s]
    BY <1>1, <2>1 DEF ExactBases, PerStream
  <2>3. sq.head_ts[s] * DefaultTb = (sq.head_ts[s] * k) * Tb[s]
    BY <1>3, <1>4, <2>2
  <2>4. sq.head_ts[s] * k \in Int
    BY <1>4, <2>2
  <2>5. t = sq.head_ts[s] * k
    BY <1>3, <1>4, <1>6, <2>3, <2>4, RescaleExact
  <2>6. t * Tb[s] = HeadTime(sq, s)
    BY <1>4, <2>3, <2>5 DEF HeadTime
  <2>7. NoTs * Tb[s] < HeadTime(sq, s)
    BY <1>1, <1>3, <1>6 DEF QueueInv, Above
  <2>8. HeadTime(sq, s) \in Int
    BY <1>1, HeadTimeIs
  <2>9. t # NoTs
    BY <2>6, <2>7, <2>8
  <2> QED BY <2>6, <2>9
<1>7. ~HasHead(sq, s) => t = NoTs
  BY DEF HasHead
<1> HIDE DEF t
<1>8. /\ sq' \in Queue
      /\ sq'.tb = [sq.tb EXCEPT ![s] = Tb[s]]
      /\ sq'.head_ts = [sq.head_ts EXCEPT ![s] = t]
      /\ sq'.finished = sq.finished /\ sq'.over = sq.over
      /\ sq'.head_stream = sq.head_stream
      /\ sq'.head_finished_stream = sq.head_finished_stream
  BY <1>1, <1>2, <1>3, <1>5 DEF Queue
<1>9. /\ sq'.tb[s] = Tb[s] /\ sq'.head_ts[s] = t
      /\ \A r \in Streams \ {s} : /\ sq'.tb[r] = sq.tb[r]
                                  /\ sq'.head_ts[r] = sq.head_ts[r]
  BY <1>1, <1>8 DEF Queue
<1>10. ASSUME NEW r \in Streams
       PROVE  /\ HasHead(sq', r) <=> HasHead(sq, r)
              /\ HasHead(sq, r) => HeadTime(sq', r) = HeadTime(sq, r)
  <2>1. CASE r = s
    BY <1>6, <1>7, <1>9, <2>1 DEF HasHead, HeadTime
  <2>2. CASE r # s
    BY <1>9, <2>2 DEF HasHead, HeadTime
  <2> QED BY <2>1, <2>2
<1>11. \A r \in Streams : sq'.tb[r] \in TimeBases
  BY <1>1, <1>3, <1>9 DEF QueueInv
<1>12. QueueInv(sq')
  BY <1>1, <1>8, <1>10, <1>11, SameTimes
<1> QED BY <1>8, <1>10, <1>12

(* The invariant after sq_set_tb.                                          *)
LEMMA StepSetTb ==
  ASSUME IInv, ExactBases, NEW s \in Streams, sq_set_tb(s), Types'
  PROVE  IInv'
<1>1. /\ opt' = opt /\ fifo' = fifo /\ ended' = ended /\ client' = client
      /\ flushed' = flushed /\ longest' = longest
      /\ tbSet' = tbSet \cup {s} /\ s \notin tbSet /\ client = -1
  BY DEF sq_set_tb
<1>2. /\ QueueInv(sq')
      /\ \A r \in Streams :
           /\ HasHead(sq', r) <=> HasHead(sq, r)
           /\ HasHead(sq, r) => HeadTime(sq', r) = HeadTime(sq, r)
      /\ sq'.tb = [sq.tb EXCEPT ![s] = Tb[s]]
      /\ sq'.finished = sq.finished /\ sq'.over = sq.over
      /\ sq'.head_stream = sq.head_stream
  BY SetTbKeeps
<1>3. /\ opt \in Options /\ sq \in Queue /\ Limiting \subseteq Streams
      /\ Limiting' = Limiting /\ PerStream' = PerStream /\ tbSet \subseteq Streams
  BY <1>1, LimitingAre DEF IInv, Types, Limiting, PerStream
<1>4. \A r \in Streams \ {s} : sq'.tb[r] = sq.tb[r]
  BY <1>2
<1>5. Bases'
  BY <1>1, <1>2, <1>3 DEF IInv, Bases, Queue
<1>6. NoneLonger(sq, longest)'
  BY <1>1, <1>2, <1>3 DEF IInv, NoneLonger, HasHead, HeadTime
<1>7. MuxWaits'
  BY <1>1, <1>2, <1>3 DEF IInv, MuxWaits, HasHead
<1>8. MuxServed'
  BY <1>1, <1>3 DEF IInv, MuxWaits, MuxServed, Ready
<1>9. EncoderServed'
  <2>1. SUFFICES ASSUME PerStream
                 PROVE  /\ client \in tbSet' \cup {-1} /\ flushed \subseteq tbSet'
                        /\ 0 \in Limiting => \A r \in flushed :
                             /\ r \in sq'.finished
                             /\ fifo[r] = <<>> \/ (sq'.over /\ ~Ready(sq, r)')
    BY <1>1, <1>3 DEF EncoderServed
  <2>2. ASSUME 0 \in Limiting, NEW r \in flushed, ~Ready(sq, r)
        PROVE  ~Ready(sq, r)'
    <3>1. r \in Streams \ {s}
      BY <1>1, <1>3, <2>1 DEF IInv, EncoderServed
    <3>2. sq.head_stream >= 0 =>
            HeadTime(sq', sq'.head_stream) = HeadTime(sq, sq.head_stream)
      BY <1>2, <1>3, <2>2 DEF IInv, QueueInv, HeadSmallest
    <3>3. /\ Ready(sq, r) <=>
               /\ fifo[r] # <<>>
               /\ \/ frame_ts(Head(fifo[r])) = NoTs
                  \/ /\ sq.head_stream >= 0
                     /\ frame_ts(Head(fifo[r])) * sq.tb[r]
                          <= HeadTime(sq, sq.head_stream)
          /\ Ready(sq, r)' <=>
               /\ fifo[r] # <<>>
               /\ \/ frame_ts(Head(fifo[r])) = NoTs
                  \/ /\ sq'.head_stream >= 0
                     /\ frame_ts(Head(fifo[r])) * sq'.tb[r]
                          <= HeadTime(sq', sq'.head_stream)
      BY <1>1 DEF Ready, HeadTime
    <3> QED BY <1>2, <1>4, <2>2, <3>1, <3>2, <3>3
  <2> QED BY <1>1, <1>2, <2>1, <2>2 DEF IInv, EncoderServed
<1> QED BY <1>1, <1>2, <1>5, <1>6, <1>7, <1>8, <1>9, NextQueue DEF IInv

-----------------------------------------------------------------------------
(* The invariant initially.                                                *)
LEMMA InitInv ==
  ASSUME Init
  PROVE  IInv
<1>1. Types /\ opt \in Options /\ sq \in Queue
  BY InitTypes DEF Types
<1>2. /\ Limiting \subseteq Streams /\ Limiting # {} /\ 0 \in Streams
      /\ FramesMax \in [Streams -> Nat]
  BY <1>1, LimitingAre
<1>3. /\ \A s \in Streams : /\ ~HasHead(sq, s) /\ sq.tb[s] = DefaultTb
                            /\ fifo[s] = <<>> /\ longest[s] = NoTs
      /\ sq.head_stream = -1 /\ sq.head_finished_stream = -1
      /\ sq.finished = {s \in Streams : FramesMax[s] = 0}
      /\ sq.over = (FramesMax[0] = 0)
      /\ tbSet = {} /\ client = -1 /\ flushed = {}
  BY DEF Init, HasHead
<1>4. OverMeans(sq)
  <2>1. SUFFICES ASSUME FramesMax[0] = 0 PROVE 0 \in Limiting
    BY <1>2, <1>3 DEF OverMeans
  <2>2. \/ Limiting = Streams
        \/ Limiting = {s \in Streams : FramesMax[s] < NoLimit}
    BY <1>1, StreamAssumption DEF Limiting, FramesMax
  <2> QED BY <1>2, <2>1, <2>2 DEF NoLimit
<1>5. Above(sq) /\ EndSharedBut(sq, {}) /\ HeadSmallest(sq) /\ HeadWaits(sq)
  BY <1>2, <1>3 DEF Above, EndSharedBut, HeadSmallest, HeadWaits
<1>6. QueueInv(sq)
  BY <1>1, <1>3, <1>4, <1>5 DEF QueueInv, TimeBases
<1>7. Bases /\ NoneLonger(sq, longest) /\ MuxWaits /\ EncoderServed
  BY <1>3 DEF Bases, NoneLonger, MuxWaits, EncoderServed
<1>8. MuxServed
  BY <1>3 DEF MuxServed, Ready
<1> QED BY <1>1, <1>6, <1>7, <1>8 DEF IInv

(* The ends of streams leave every head where it was.                      *)
LEMMA FinishReady ==
  ASSUME opt \in Options, NEW q \in Queue, NEW s \in Streams
  PROVE  /\ \A r : Ready(finish_stream(q, s), r) <=> Ready(q, r)
         /\ \A r : HasHead(finish_stream(q, s), r) <=> HasHead(q, r)
<1>1. LET p == finish_stream(q, s) IN
      p.head_ts = q.head_ts /\ p.tb = q.tb /\ p.head_stream = q.head_stream
  BY FinishKeeps
<1> QED BY <1>1 DEF Ready, HasHead, HeadTime

(* The invariant after the NULL frame.                                     *)
LEMMA StepFinish ==
  ASSUME IInv, NEW s \in Streams, sq_finish(s) \/ close_output_stream(s), Types'
  PROVE  IInv'
<1>1. /\ opt' = opt /\ fifo' = fifo /\ tbSet' = tbSet /\ flushed' = flushed
      /\ longest' = longest /\ sq' = finish_stream(sq, s)
      /\ PerStream \/ (tbSet = Streams /\ client' # -1)
      /\ PerStream => client' = client \/ (client' = s /\ s \in tbSet)
  <2>1. CASE sq_finish(s)
    <3>1. s # -1 /\ PerStream \in BOOLEAN
      BY LimitingAre DEF IInv, Types
    <3> QED BY <2>1, <3>1 DEF sq_finish
  <2>2. CASE close_output_stream(s)
    BY <2>2 DEF close_output_stream
  <2> QED BY <2>1, <2>2
<1>2. /\ opt \in Options /\ sq \in Queue /\ QueueInv(sq)
      /\ Limiting' = Limiting /\ PerStream' = PerStream
  BY <1>1 DEF IInv, Types, Limiting, PerStream
<1>3. QueueInv(sq') /\ Later(sq', sq) /\ sq' \in Queue
  BY <1>1, <1>2, FinishInv, FinishKeeps
<1>4. /\ \A r : Ready(sq', r) <=> Ready(sq, r)
      /\ \A r : HasHead(sq', r) <=> HasHead(sq, r)
  BY <1>1, <1>2, FinishReady
<1>5. \A r : Ready(sq, r)' <=> Ready(sq', r)
  BY <1>1 DEF Ready, HeadTime
<1>6. Bases'
  BY <1>1, <1>3 DEF IInv, Bases, Later
<1>7. NoneLonger(sq, longest)'
  <2>1. NoneLonger(sq', longest)
    BY <1>2, <1>3, NoneLongerLater DEF IInv, Types
  <2> QED BY <1>1, <1>2, <2>1 DEF NoneLonger, HasHead, HeadTime
<1>8. MuxWaits' /\ MuxServed'
  BY <1>1, <1>2 DEF MuxWaits, MuxServed
<1>9. EncoderServed'
  <2>1. sq.finished \subseteq sq'.finished /\ (sq.over => sq'.over)
    BY <1>3 DEF Later
  <2> QED BY <1>1, <1>2, <1>4, <1>5, <2>1 DEF IInv, EncoderServed
<1> QED BY <1>1, <1>3, <1>6, <1>7, <1>8, <1>9, NextQueue DEF IInv

(* The number of frames that were sent says nothing about time.            *)
LEMMA SentInv ==
  ASSUME opt \in Options, NEW q, QueueInv(q), NEW p \in Queue,
         p = [q EXCEPT !.sent = p.sent]
  PROVE  QueueInv(p) /\ Later(p, q)
<1>1. /\ p.head_ts = q.head_ts /\ p.tb = q.tb /\ p.finished = q.finished
      /\ p.over = q.over /\ p.head_stream = q.head_stream
      /\ p.head_finished_stream = q.head_finished_stream /\ q \in Queue
  BY DEF QueueInv, Queue
<1>2. \A r : /\ HasHead(p, r) <=> HasHead(q, r)
             /\ HeadTime(p, r) = HeadTime(q, r)
  BY <1>1 DEF HasHead, HeadTime
<1>3. \A r \in Streams : p.tb[r] \in TimeBases
  BY <1>1 DEF QueueInv
<1>4. QueueInv(p)
  BY <1>1, <1>2, <1>3, SameTimes
<1> QED BY <1>1, <1>2, <1>4, HeadTimeIs DEF Later

(* The queue after a frame was taken.                                      *)
LEMMA SendInv ==
  ASSUME IInv, NEW s \in tbSet, NEW f \in Frames, SendFrame(s, f)
  PROVE  /\ QueueInv(sq') /\ Later(sq', sq)
         /\ \A r \in Streams \ {s} : HasHead(sq', r) <=> HasHead(sq, r)
<1> DEFINE p == stream_update_ts(sq, s, frame_ts(f))
           n == [p EXCEPT !.sent[s] = @ + 1]
<1>1. /\ opt \in Options /\ sq \in Queue /\ QueueInv(sq) /\ frame_ts(f) \in Int
      /\ s \in Streams /\ s \notin sq.finished /\ Types
  BY FrameTs DEF IInv, Types, SendFrame
<1>2. frame_ts(f) # NoTs => \A c \in TimeBases : NoTs * c < frame_ts(f) * sq.tb[s]
  <2>1. SUFFICES ASSUME frame_ts(f) # NoTs, NEW c \in TimeBases
                 PROVE  NoTs * c < frame_ts(f) * sq.tb[s]
    OBVIOUS
  <2>2. sq.tb[s] \in TimeBases
    BY <1>1 DEF QueueInv
  <2>3. NoTs * c + c <= frame_ts(f) * sq.tb[s]
    BY <2>1, <2>2, NoTsAssumption
  <2>4. c \in Nat \ {0} /\ sq.tb[s] \in Nat \ {0}
    BY <2>2, TimeBasesAre
  <2>5. NoTs * c \in Int /\ frame_ts(f) * sq.tb[s] \in Int
    BY <1>1, <2>4 DEF NoTs
  <2> QED BY <2>3, <2>4, <2>5
<1>3. QueueInv(p) /\ Later(p, sq)
  BY <1>1, <1>2, UpdateInv
<1>4. /\ p \in Queue /\ n \in Queue /\ sq' \in Queue
      /\ n.head_ts = p.head_ts /\ sq'.head_ts = n.head_ts
      /\ sq' \in {n, finish_stream(n, s)}
  BY <1>1, SendTypes
<1>5. \A r \in Streams : r # s => p.head_ts[r] = sq.head_ts[r]
  BY <1>1, UpdateKeeps
<1> HIDE DEF p
<1>6. n = [p EXCEPT !.sent = n.sent]
  BY <1>4 DEF Queue
<1> HIDE DEF n
<1>7. QueueInv(n) /\ Later(n, p)
  BY <1>1, <1>3, <1>4, <1>6, SentInv
<1>8. Later(n, sq)
  BY <1>1, <1>3, <1>4, <1>7, LaterTransitive
<1>9. QueueInv(sq') /\ Later(sq', sq)
  <2>1. CASE sq' = n
    BY <1>7, <1>8, <2>1
  <2>2. CASE sq' = finish_stream(n, s)
    <3>1. QueueInv(finish_stream(n, s)) /\ Later(finish_stream(n, s), n)
      BY <1>1, <1>7, FinishInv
    <3> QED BY <1>1, <1>4, <1>8, <2>2, <3>1, LaterTransitive
  <2> QED BY <1>4, <2>1, <2>2
<1> QED BY <1>4, <1>5, <1>9 DEF HasHead

(* The invariant after a frame was sent, or refused.                       *)
LEMMA StepSend ==
  ASSUME IInv, NEW s \in Streams, NEW f \in Frames, sq_send(s, f), Types'
  PROVE  IInv'
<1>1. /\ opt' = opt /\ tbSet' = tbSet /\ flushed' = flushed /\ longest' = longest
      /\ s \in tbSet /\ client = -1
      /\ PerStream \/ tbSet = Streams
  BY DEF sq_send
<1>2. /\ opt \in Options /\ sq \in Queue /\ QueueInv(sq)
      /\ Limiting' = Limiting /\ PerStream' = PerStream /\ s # -1
      /\ flushed \subseteq Streams
  BY <1>1, LimitingAre DEF IInv, Types, Limiting, PerStream
<1>3. CASE SendFrame(s, f)
  <2>1. /\ QueueInv(sq') /\ Later(sq', sq)
        /\ \A r \in Streams \ {s} : HasHead(sq', r) <=> HasHead(sq, r)
    BY <1>1, <1>3, SendInv
  <2>2. /\ client' = s /\ s \notin sq.finished
        /\ \A r \in Streams \ {s} : fifo'[r] = fifo[r]
    <3>1. client' = s
      BY <1>3 DEF sq_send, SendFrame
    <3>2. \A r \in Streams \ {s} : fifo'[r] = fifo[r]
      BY <1>3 DEF SendFrame, IInv, Types
    <3> QED BY <1>3, <3>1, <3>2 DEF SendFrame
  <2>3. Bases'
    BY <1>1, <2>1 DEF IInv, Bases, Later
  <2>4. NoneLonger(sq, longest)'
    <3>1. sq' \in Queue
      BY <2>1 DEF QueueInv
    <3>2. NoneLonger(sq', longest)
      BY <1>2, <2>1, <3>1, NoneLongerLater DEF IInv, Types
    <3> QED BY <1>1, <1>2, <3>2 DEF NoneLonger, HasHead, HeadTime
  <2>5. MuxWaits' /\ MuxServed'
    BY <1>1, <1>2, <2>2 DEF MuxWaits, MuxServed
  <2>6. EncoderServed'
    <3>1. SUFFICES ASSUME PerStream, 0 \in Limiting, NEW r \in flushed
                   PROVE  /\ r \in sq'.finished
                          /\ fifo'[r] = <<>> \/ (sq'.over /\ ~Ready(sq, r)')
      BY <1>1, <1>2, <2>2 DEF IInv, EncoderServed
    <3>2. /\ r \in sq.finished
          /\ fifo[r] = <<>> \/ (sq.over /\ ~Ready(sq, r))
      BY <3>1 DEF IInv, EncoderServed
    <3>3. r \in Streams \ {s} /\ fifo'[r] = fifo[r]
      BY <1>2, <2>2, <3>2
    <3>4. r \in sq'.finished /\ (sq.over => sq'.over)
      BY <2>1, <3>2 DEF Later
    <3>5. CASE fifo[r] # <<>>
      <4>1. sq.over /\ ~Ready(sq, r)
        BY <3>2, <3>5
      <4>2. 0 \in sq.finished /\ ~HasHead(sq, 0) /\ 0 \in Streams \ {s}
        BY <1>2, <2>2, <4>1, LimitingAre DEF QueueInv, OverMeans
      <4>3. ~(sq'.head_stream >= 0)
        BY <2>1, <3>1, <4>2 DEF QueueInv, HeadSmallest
      <4>4. ~Ready(sq, r)'
        BY <3>3, <3>5, <4>1, <4>3 DEF Ready
      <4> QED BY <3>4, <4>1, <4>4
    <3> QED BY <3>3, <3>4, <3>5
  <2> QED BY <1>1, <2>1, <2>3, <2>4, <2>5, <2>6, NextQueue DEF IInv
<1>4. CASE ~SendFrame(s, f)
  <2>1. /\ sq' = sq /\ fifo' = fifo
        /\ client' = -1 \/ (PerStream /\ client' = s)
        /\ ~PerStream => client' = -1
    BY <1>4 DEF sq_send
  <2>2. \A r : Ready(sq, r)' <=> Ready(sq, r)
    BY <2>1 DEF Ready, HeadTime
  <2>3. QueueInv(sq') /\ Bases'
    BY <1>1, <1>2, <2>1 DEF IInv, Bases
  <2>4. NoneLonger(sq, longest)'
    BY <1>1, <1>2, <2>1 DEF IInv, NoneLonger, HasHead, HeadTime
  <2>5. MuxWaits' /\ MuxServed' /\ EncoderServed'
    BY <1>1, <1>2, <2>1, <2>2
       DEF IInv, MuxWaits, MuxServed, EncoderServed, HasHead
  <2> QED BY <1>1, <2>3, <2>4, <2>5, NextQueue DEF IInv
<1> QED BY <1>3, <1>4

(* The invariant after a frame was received, or EAGAIN, or EOF.            *)
LEMMA StepReceive ==
  ASSUME IInv, sq_receive, Types'
  PROVE  IInv'
<1> DEFINE some  == \E s \in Asked : Ready(sq, s)
           eof   == \A s \in Asked : AtEof(sq, s)
           q     == IF some \/ eof THEN sq ELSE overflow_heartbeat(sq, Asked)
           ready == {s \in Asked : Ready(q, s)}
<1>1. /\ opt' = opt /\ tbSet' = tbSet /\ client >= 0 /\ client \in Streams
      /\ client # -1 /\ opt \in Options /\ sq \in Queue /\ QueueInv(sq)
      /\ fifo \in [Streams -> Seq(Frames)] /\ longest \in [Streams -> Int]
      /\ flushed \subseteq Streams
  <2>1. opt' = opt /\ tbSet' = tbSet /\ client >= 0
    BY DEF sq_receive
  <2>2. /\ Types /\ QueueInv(sq) /\ client \in Streams \cup {-1}
        /\ flushed \subseteq Streams
    BY DEF IInv, Types
  <2>3. client \in Streams /\ client # -1
    BY <2>1, <2>2
  <2> QED BY <2>1, <2>2, <2>3 DEF Types
<1>2. /\ Limiting' = Limiting /\ PerStream' = PerStream
      /\ Asked \subseteq Streams /\ Asked = (IF PerStream THEN {client} ELSE Streams)
  BY <1>1 DEF Limiting, PerStream, Asked
<1>3. QueueInv(q) /\ Later(q, sq) /\ q \in Queue
  <2>1. QueueInv(sq) /\ Later(sq, sq)
    BY <1>1, LaterReflexive
  <2>2. /\ QueueInv(overflow_heartbeat(sq, Asked))
        /\ Later(overflow_heartbeat(sq, Asked), sq)
    BY <1>1, <1>2, OverflowInv
  <2>3. QueueInv(q) /\ Later(q, sq)
    BY <2>1, <2>2
  <2> HIDE DEF q
  <2> QED BY <2>3 DEF QueueInv
<1>4. sq.over => q = sq
  BY DEF AtEof
<1>5. \/ \E s \in ready : Release(q, s)
      \/ ready = {} /\ LoopEnds(q)
  BY DEF sq_receive
<1> HIDE DEF q, some, eof
<1>6. MuxWaits /\ ~PerStream => tbSet = Streams
  BY <1>1 DEF MuxWaits
<1>7. MuxWaits'
  BY <1>1, <1>2, <1>6 DEF IInv, MuxWaits
<1>8. q.tb = sq.tb /\ sq.finished \subseteq q.finished /\ (sq.over => q.over)
  BY <1>3 DEF Later
<1>9. NoneLonger(q, longest)
  BY <1>1, <1>3, NoneLongerLater DEF IInv
<1>10. CASE \E s \in ready : Release(q, s)
  <2>1. PICK s \in ready : Release(q, s)
    BY <1>10
  <2> DEFINE ts == frame_ts(Head(fifo[s]))
  <2>2. /\ sq' = q /\ client' = client /\ ended' = ended /\ flushed' = flushed
        /\ fifo' = [fifo EXCEPT ![s] = Tail(@)]
        /\ longest' = [longest EXCEPT ![s] =
             IF ts = NoTs \/ ts * q.tb[s] <= @ THEN @ ELSE ts * q.tb[s]]
    BY <2>1 DEF Release
  <2>3. s \in Streams /\ s \in Asked /\ Ready(q, s) /\ fifo[s] # <<>>
    BY <1>2 DEF Ready
  <2>4. Bases' /\ MuxServed'
    BY <1>1, <1>2, <1>8, <2>2 DEF IInv, Bases, MuxServed
  <2>5. NoneLonger(q, longest')
    <3>1. SUFFICES ASSUME 0 \in Limiting, NEW t \in Streams, NEW r \in Limiting,
                          longest'[t] # NoTs
                   PROVE  HasHead(q, r) /\ longest'[t] <= HeadTime(q, r)
      BY DEF NoneLonger
    <3>2. CASE longest'[t] = longest[t]
      BY <1>9, <3>1, <3>2 DEF NoneLonger
    <3>3. CASE longest'[t] # longest[t]
      <4>1. t = s /\ ts # NoTs /\ longest'[t] = ts * q.tb[s]
        BY <1>1, <2>2, <2>3, <3>3
      <4>2. q.head_stream >= 0 /\ ts * q.tb[s] <= HeadTime(q, q.head_stream)
        BY <2>3, <4>1 DEF Ready
      <4>3. /\ q.head_stream \in Limiting /\ HasHead(q, r)
            /\ HeadTime(q, q.head_stream) <= HeadTime(q, r)
        BY <1>3, <3>1, <4>2 DEF QueueInv, HeadSmallest
      <4>4. /\ longest'[t] \in Int /\ HeadTime(q, q.head_stream) \in Int
            /\ HeadTime(q, r) \in Int
        BY <1>1, <1>3, <4>3, HeadTimeIs, LimitingAre DEF Types
      <4> QED BY <4>1, <4>2, <4>3, <4>4
    <3> QED BY <3>2, <3>3
  <2>6. NoneLonger(sq, longest)'
    BY <1>2, <2>2, <2>5 DEF NoneLonger, HasHead, HeadTime
  <2>7. EncoderServed'
    <3>1. SUFFICES ASSUME PerStream, 0 \in Limiting, NEW r \in flushed
                   PROVE  /\ r \in q.finished
                          /\ fifo'[r] = <<>> \/ (q.over /\ ~Ready(sq, r)')
      BY <1>1, <1>2, <2>2 DEF IInv, EncoderServed
    <3>2. /\ r \in sq.finished
          /\ fifo[r] = <<>> \/ (sq.over /\ ~Ready(sq, r))
      BY <3>1 DEF IInv, EncoderServed
    <3>3. r # s
      BY <1>4, <2>3, <3>2
    <3>4. fifo'[r] = fifo[r]
      BY <1>1, <2>2, <3>3
    <3>5. sq.over /\ ~Ready(sq, r) => ~Ready(sq, r)'
      BY <1>4, <2>2, <3>4 DEF Ready, HeadTime
    <3> QED BY <1>8, <3>2, <3>4, <3>5
  <2> QED BY <1>1, <1>3, <1>7, <2>2, <2>4, <2>6, <2>7, NextQueue DEF IInv
<1>11. CASE ready = {} /\ LoopEnds(q)
  <2>1. /\ client' = -1 /\ fifo' = fifo /\ longest' = longest
        /\ ~PerStream => sq' = q /\ flushed' = flushed
        /\ \/ sq' = q /\ flushed' = flushed
           \/ /\ PerStream /\ AtEof(q, client) /\ sq' = finish_stream(q, client)
              /\ flushed' = flushed \cup {client}
    BY <1>11 DEF LoopEnds
  <2>2. /\ QueueInv(sq') /\ Later(sq', q) /\ sq' \in Queue
        /\ \A r : Ready(sq', r) <=> Ready(q, r)
    <3>1. CASE sq' = q
      BY <1>1, <1>3, <3>1, LaterReflexive
    <3>2. CASE sq' = finish_stream(q, client)
      <4>1. /\ QueueInv(finish_stream(q, client))
            /\ Later(finish_stream(q, client), q)
        BY <1>1, <1>3, FinishInv
      <4>2. finish_stream(q, client) \in Queue
        BY <4>1 DEF QueueInv
      <4> QED BY <1>1, <1>3, <3>2, <4>1, <4>2, FinishReady
    <3> QED BY <2>1, <3>1, <3>2
  <2>3. \A r : Ready(sq, r)' <=> Ready(q, r)
    BY <2>1, <2>2 DEF Ready, HeadTime
  <2>4. Bases'
    BY <1>1, <1>8, <2>2 DEF IInv, Bases, Later
  <2>5. NoneLonger(sq, longest)'
    <3>1. NoneLonger(sq', longest)
      BY <1>1, <1>3, <1>9, <2>2, NoneLongerLater
    <3> QED BY <1>2, <2>1, <3>1 DEF NoneLonger, HasHead, HeadTime
  <2>6. MuxServed'
    BY <1>2, <1>11, <2>3 DEF MuxServed
  <2>7. EncoderServed'
    <3>1. PerStream => client \in tbSet /\ flushed' \subseteq tbSet
      BY <1>1, <2>1 DEF IInv, EncoderServed
    <3>2. SUFFICES ASSUME PerStream, 0 \in Limiting, NEW r \in flushed'
                   PROVE  /\ r \in sq'.finished
                          /\ fifo[r] = <<>> \/ (sq'.over /\ ~Ready(sq, r)')
      BY <1>1, <1>2, <2>1, <3>1 DEF IInv, EncoderServed
    <3>3. /\ q.finished \subseteq sq'.finished /\ (q.over => sq'.over)
      BY <2>2 DEF Later
    <3>4. CASE r \in flushed
      <4>1. /\ r \in sq.finished
            /\ fifo[r] = <<>> \/ (sq.over /\ ~Ready(sq, r))
        BY <3>2, <3>4 DEF IInv, EncoderServed
      <4> QED BY <1>4, <1>8, <2>3, <3>3, <4>1
    <3>5. CASE r \notin flushed
      <4>1. /\ r = client /\ AtEof(q, client)
            /\ sq' = finish_stream(q, client)
        BY <2>1, <3>2, <3>5
      <4>2. client \in sq'.finished
        BY <1>1, <1>3, <4>1, FinishKeeps
      <4>3. ~Ready(q, client)
        BY <1>2, <1>11, <3>2
      <4> QED BY <2>3, <3>3, <4>1, <4>2, <4>3 DEF AtEof
    <3> QED BY <3>4, <3>5
  <2> QED BY <1>1, <1>7, <2>1, <2>2, <2>4, <2>5, <2>6, <2>7, NextQueue DEF IInv
<1> QED BY <1>5, <1>10, <1>11

(* The invariant is kept by every step.                                    *)
LEMMA StepIInv ==
  ASSUME IInv, ExactBases, [Next]_vars
  PROVE  IInv'
<1>1. Types'
  BY StepTypes DEF IInv
<1>2. CASE \E s \in Streams : sq_set_tb(s)
  BY <1>1, <1>2, StepSetTb
<1>3. CASE \E s \in Streams : sq_finish(s) \/ close_output_stream(s)
  BY <1>1, <1>3, StepFinish
<1>4. CASE \E s \in Streams, f \in Frames : sq_send(s, f)
  BY <1>1, <1>4, StepSend
<1>5. CASE sq_receive
  BY <1>1, <1>5, StepReceive
<1>6. CASE UNCHANGED vars
  <2>1. /\ opt' = opt /\ sq' = sq /\ fifo' = fifo /\ tbSet' = tbSet
        /\ flushed' = flushed /\ client' = client /\ longest' = longest
    BY <1>6 DEF vars, clientVars
  <2>2. Limiting' = Limiting /\ PerStream' = PerStream
    BY <2>1 DEF Limiting, PerStream
  <2>3. /\ \A r : Ready(sq, r)' <=> Ready(sq, r)
        /\ \A r : HasHead(sq, r)' <=> HasHead(sq, r)
        /\ \A r : HeadTime(sq, r)' = HeadTime(sq, r)
    BY <2>1 DEF Ready, HasHead, HeadTime
  <2>4. QueueInv(sq)'
    BY <2>1, NextQueue DEF IInv
  <2>5. NoneLonger(sq, longest)'
    BY <2>1, <2>2 DEF IInv, NoneLonger, HasHead, HeadTime
  <2> QED BY <1>1, <2>1, <2>2, <2>3, <2>4, <2>5
             DEF IInv, Bases, MuxWaits, MuxServed, EncoderServed
<1> QED BY <1>2, <1>3, <1>4, <1>5, <1>6 DEF Next, Done

-----------------------------------------------------------------------------
(* The invariant holds always.                                             *)
LEMMA Invariance == ASSUME ExactBases PROVE Spec => []IInv
<1>1. Init => IInv
  BY InitInv
<1>2. IInv /\ [Next]_vars => IInv'
  BY StepIInv
<1> QED BY <1>1, <1>2, PTL DEF Spec

(* finish_stream and stream_update_ts: the streams share their end, when   *)
(* the muxer uses the queue, or the time bases of the streams divide the   *)
(* default one.  The finished head has ended first, and no stream that has *)
(* come as far takes another frame.                                        *)
THEOREM EndShared ==
  ASSUME ExactBases
  PROVE  Spec => []EndIsShared
<1>1. IInv => EndIsShared
  BY DEF IInv, QueueInv, EndSharedBut, EndIsShared
<1> QED BY <1>1, Invariance, PTL

(* queue_head_update: when stream 0 limits the queue, no limiting stream   *)
(* is behind its head, for the same users and time bases.                  *)
THEOREM HeadIsLeast ==
  ASSUME ExactBases, FirstLimits
  PROVE  Spec => []HeadIsSmallest
<1>1. IInv => HeadIsSmallest
  BY DEF IInv, Types, QueueInv, HeadSmallest, HeadIsSmallest, FirstLimits, Limiting
<1> QED BY <1>1, Invariance, PTL

(* receive_for_stream: nothing comes out that ends after a limiting stream *)
(* has come to, on the same two conditions.                                *)
THEOREM NoneIsLonger ==
  ASSUME ExactBases, FirstLimits
  PROVE  Spec => []NoOtherIsLonger
<1>1. IInv => NoOtherIsLonger
  BY DEF IInv, Types, NoneLonger, NoOtherIsLonger, FirstLimits, Limiting
<1> QED BY <1>1, Invariance, PTL

(* sq_receive: what stays in the queue at the end is behind a frame that   *)
(* ends after some limiting stream, on the same two conditions.            *)
THEOREM NothingIsHeldBack ==
  ASSUME ExactBases, FirstLimits
  PROVE  Spec => []NothingHeldBack
<1>1. IInv => NothingHeldBack
  <2> SUFFICES ASSUME IInv, Finished, NEW s \in tbSet, fifo[s] # <<>>
               PROVE  \E r \in Limiting :
                        \/ ~HasHead(sq, r)
                        \/ HeadTime(sq, r) < frame_ts(Head(fifo[s])) * sq.tb[s]
    BY DEF NothingHeldBack
  <2>1. 0 \in Limiting /\ s \in Streams /\ opt \in Options /\ sq \in Queue
    BY DEF IInv, Types, FirstLimits, Limiting
  <2>2. ~Ready(sq, s)
    BY <2>1 DEF IInv, Finished, MuxServed, EncoderServed
  <2>3. CASE ~(sq.head_stream >= 0)
    <3>1. sq.head_stream < 0
      BY <2>1, <2>3, LimitingAre DEF Queue
    <3> QED BY <3>1 DEF IInv, QueueInv, HeadWaits
  <2>4. CASE sq.head_stream >= 0
    <3>1. sq.head_stream \in Limiting
      BY <2>1, <2>4 DEF IInv, QueueInv, HeadSmallest
    <3>2. ~(frame_ts(Head(fifo[s])) * sq.tb[s] <= HeadTime(sq, sq.head_stream))
      BY <2>2, <2>4 DEF Ready
    <3>3. Head(fifo[s]) \in Frames
      BY <2>1 DEF IInv, Types
    <3>4. frame_ts(Head(fifo[s])) \in Int /\ sq.tb[s] \in Int
      BY <2>1, <3>3, FrameTs, HeadTimeIs
    <3>5. frame_ts(Head(fifo[s])) * sq.tb[s] \in Int
      BY <3>4
    <3>6. HeadTime(sq, sq.head_stream) \in Int
      BY <2>1, <3>1, HeadTimeIs, LimitingAre
    <3> QED BY <3>1, <3>2, <3>5, <3>6
  <2> QED BY <2>3, <2>4
<1> QED BY <1>1, Invariance, PTL

=============================================================================
