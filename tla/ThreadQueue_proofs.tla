------------------------- MODULE ThreadQueue_proofs -------------------------
(***************************************************************************)
(* ThreadQueue for every number of streams, capacity, owner map and pool   *)
(* size: its invariants, and that it implements StreamChannel.             *)
(***************************************************************************)
EXTENDS ThreadQueue, SequenceTheorems, TLAPS

USE NbStreamsAssumption, QueueSizeAssumption, OwnerAssumption,
    ReceiverAssumption, BlankAssumption, PoolMaxAssumption

(* NoCall is not a packet, so a blocked call names a stream and an item.   *)
LEMMA PendingCall ==
  ASSUME TypeOK, NEW t \in Senders, pending[t] # NoCall
  PROVE  /\ pending[t] \in Packets
         /\ pending[t].stream \in Streams
         /\ pending[t].item \in Items
         /\ pending[t] = [stream |-> pending[t].stream, item |-> pending[t].item]
<1>1. pending[t] \in Packets
  BY DEF TypeOK
<1> QED
  BY <1>1 DEF Packets

(* A packet is not the value that stands for "no call".                    *)
LEMMA PacketNotNoCall ==
  ASSUME NEW s \in Streams, NEW x \in Items
  PROVE  /\ [stream |-> s, item |-> x] \in Packets
         /\ [stream |-> s, item |-> x] # NoCall
  BY DEF Packets, NoCall, Streams

(* The steps of Next, as the proofs below split them: the two ways into    *)
(* the loop of tq_send are one case.                                       *)
SendStep(t, s, x) ==
  /\ \/ pending[t] = NoCall /\ Owner[s] = t /\ s \notin sendFinished
     \/ pending[t] = [stream |-> s, item |-> x] /\ t \notin waiting
  /\ SendLoop(t, s, x)

SendRefused(t) ==
  /\ pending[t] = NoCall
  /\ Return(t, "EINVAL")
  /\ UNCHANGED <<queueVars, flagVars, waiting, got>>

(* The disjuncts of Next, one per operation and outcome.                   *)
LEMMA NextCases ==
  ASSUME TypeOK, Next
  PROVE  \/ \E t \in Senders, s \in Streams, x \in Items : SendStep(t, s, x)
         \/ \E t \in Senders : SendRefused(t)
         \/ \E t \in Senders, s \in Streams : tq_send_finish(t, s)
         \/ Receiver \notin waiting /\ ReceiveItem
         \/ Receiver \notin waiting /\ ReceiveStreamEof
         \/ Receiver \notin waiting /\ ReceiveDone
         \/ Receiver \notin waiting /\ ReceiveWait
         \/ \E s \in Streams : tq_receive_finish(s)
         \/ \E t \in Threads : SpuriousWakeup(t)
<1>1. CASE \E t \in Senders, s \in Streams, x \in Items : tq_send(t, s, x)
  BY <1>1 DEF tq_send, SendStep, SendRefused
<1>2. ASSUME NEW t \in Senders, ResumeSend(t)
      PROVE  \E s \in Streams, x \in Items : SendStep(t, s, x)
  <2>1. /\ pending[t].stream \in Streams /\ pending[t].item \in Items
        /\ pending[t] = [stream |-> pending[t].stream, item |-> pending[t].item]
    BY <1>2, PendingCall DEF ResumeSend
  <2>2. SendStep(t, pending[t].stream, pending[t].item)
    BY <1>2, <2>1 DEF ResumeSend, SendStep
  <2> QED BY <2>1, <2>2
<1>3. CASE tq_receive
  BY <1>3 DEF tq_receive
<1> QED
  BY <1>1, <1>2, <1>3 DEF Next

-----------------------------------------------------------------------------
(* A non-empty sequence without its last element.                          *)
LEMMA FrontProperties ==
  ASSUME NEW S, NEW s \in Seq(S), s # <<>>
  PROVE  /\ Len(s) \in Nat \ {0}
         /\ s[Len(s)] \in S
         /\ SubSeq(s, 1, Len(s) - 1) \in Seq(S)
         /\ Len(SubSeq(s, 1, Len(s) - 1)) = Len(s) - 1
         /\ \A i \in 1 .. Len(s) - 1 : SubSeq(s, 1, Len(s) - 1)[i] = s[i]
<1>1. Len(s) \in Nat \ {0}
  BY EmptySeq
<1> DEFINE n == Len(s) - 1
<1>2. n \in Nat /\ 1 \in Int /\ n \in Int
  BY <1>1
<1>3. \A i \in 1 .. n : s[i] \in S
  BY <1>1, ElementOfSeq
<1> HIDE DEF n
<1>4. /\ SubSeq(s, 1, n) \in Seq(S)
      /\ Len(SubSeq(s, 1, n)) = IF 1 <= n THEN n - 1 + 1 ELSE 0
      /\ \A i \in 1 .. n - 1 + 1 : SubSeq(s, 1, n)[i] = s[1 + i - 1]
  BY <1>2, <1>3, SubSeqProperties
<1>5. /\ SubSeq(s, 1, n) \in Seq(S) /\ Len(SubSeq(s, 1, n)) = n
      /\ \A i \in 1 .. n : SubSeq(s, 1, n)[i] = s[i]
  BY <1>2, <1>4
<1>6. s[Len(s)] \in S
  BY <1>1, ElementOfSeq
<1> QED
  BY <1>1, <1>5, <1>6 DEF n

(* Moving the head of the right operand to the end of the left one.        *)
LEMMA MoveHeadAcross ==
  ASSUME NEW S, NEW s \in Seq(S), NEW t \in Seq(S), t # <<>>
  PROVE  s \o t = Append(s, Head(t)) \o Tail(t)
<1>1. Len(t) \in Nat \ {0} /\ Head(t) = t[1] /\ Head(t) \in S /\ Tail(t) \in Seq(S)
  BY EmptySeq, HeadTailProperties
<1>2. SubSeq(t, 1, Len(t)) = <<t[1]>> \o SubSeq(t, 1 + 1, Len(t))
  BY <1>1, SubSeqRecursiveFirst
<1>3. t = <<Head(t)>> \o Tail(t)
  BY <1>1, <1>2, SubSeqFull, TailIsSubSeq
<1>4. <<Head(t)>> \in Seq(S)
  BY <1>1
<1>5. s \o (<<Head(t)>> \o Tail(t)) = (s \o <<Head(t)>>) \o Tail(t)
  BY <1>1, <1>4, ConcatAssociative
<1> QED BY <1>1, <1>3, <1>5, AppendIsConcat

(* The pool: what objpool_get and objpool_release do to it.                *)
LEMMA PoolGet ==
  ASSUME pool \in Seq(Objs), Len(pool) <= PoolMax, live \subseteq Objs,
         NEW o \in Objs, objpool_get(o)
  PROVE  /\ pool' \in Seq(Objs) /\ Len(pool') <= PoolMax
         /\ live' \subseteq Objs
<1>1. CASE pool # <<>>
  <2>1. /\ Len(pool) \in Nat \ {0}
        /\ SubSeq(pool, 1, Len(pool) - 1) \in Seq(Objs)
        /\ Len(SubSeq(pool, 1, Len(pool) - 1)) = Len(pool) - 1
    BY <1>1, FrontProperties
  <2> QED BY <1>1, <2>1 DEF objpool_get
<1>2. CASE pool = <<>>
  BY <1>2 DEF objpool_get
<1> QED BY <1>1, <1>2

(* objpool_release pushes the object or frees it.                          *)
LEMMA PoolRelease ==
  ASSUME pool \in Seq(Objs), Len(pool) <= PoolMax, live \subseteq Objs,
         NEW o \in Objs, objpool_release(o)
  PROVE  /\ pool' \in Seq(Objs) /\ Len(pool') <= PoolMax
         /\ live' \subseteq Objs
<1>1. Len(pool) \in Nat
  BY LenProperties
<1>2. Append(pool, o) \in Seq(Objs) /\ Len(Append(pool, o)) = Len(pool) + 1
  BY AppendProperties
<1> QED
  BY <1>1, <1>2 DEF objpool_release

-----------------------------------------------------------------------------
(* The element the consumer takes names a stream and holds an item.        *)
LEMMA HeadOfFifo ==
  ASSUME TypeOK, ObjectsNotShared, fifo # <<>>
  PROVE  /\ Head(fifo) = fifo[1] /\ Len(fifo) \in Nat \ {0}
         /\ Head(fifo).stream \in Streams /\ Head(fifo).obj \in Objs
         /\ content[Head(fifo).obj] \in Items
         /\ PacketOf(Head(fifo)) \in Packets
<1>0. fifo \in Seq([stream : Streams, obj : Objs])
  BY DEF TypeOK
<1>1. /\ Len(fifo) \in Nat \ {0} /\ Head(fifo) = fifo[1]
      /\ fifo[1] \in [stream : Streams, obj : Objs]
  <2>1. Len(fifo) \in Nat \ {0} /\ 1 \in 1 .. Len(fifo)
    BY <1>0, EmptySeq
  <2>2. fifo[1] \in [stream : Streams, obj : Objs]
    BY <1>0, <2>1, ElementOfSeq
  <2> QED BY <2>1, <2>2
<1>1a. Head(fifo) \in [stream : Streams, obj : Objs]
  BY <1>1
<1>2. Head(fifo).obj \in FifoObjs
  BY <1>1 DEF FifoObjs
<1>3. content[Head(fifo).obj] \in Items \cup {Blank}
  BY <1>1a DEF TypeOK
<1> QED
  BY <1>1, <1>1a, <1>2, <1>3 DEF ObjectsNotShared, PacketOf, Packets

(* The payloads of the queued objects form a sequence of packets.          *)
LEMMA BufferedType ==
  ASSUME TypeOK, ObjectsNotShared
  PROVE  Buffered \in Seq(Packets) /\ Len(Buffered) = Len(fifo)
<1>1. fifo \in Seq([stream : Streams, obj : Objs]) /\ Len(fifo) \in Nat
  BY LenProperties DEF TypeOK
<1>2. ASSUME NEW i \in 1 .. Len(fifo)
      PROVE  PacketOf(fifo[i]) \in Packets
  <2>1. fifo[i] \in [stream : Streams, obj : Objs] /\ fifo[i].obj \in FifoObjs
    BY <1>1, ElementOfSeq DEF FifoObjs
  <2>2. content[fifo[i].obj] \in Items \cup {Blank}
    BY <2>1 DEF TypeOK
  <2> QED
    BY <2>1, <2>2 DEF ObjectsNotShared, PacketOf, Packets
<1> QED
  BY <1>1, <1>2 DEF Buffered

(* tq_alloc establishes the types.                                         *)
LEMMA InitTypeOK == Init => TypeOK
<1> SUFFICES ASSUME Init PROVE TypeOK
  OBVIOUS
<1>1. 0 <= QueueSize /\ 0 <= PoolMax /\ Len(<<>>) = 0
  OBVIOUS
<1>2. <<>> \in Seq([stream : Streams, obj : Objs]) /\ <<>> \in Seq(Objs)
      /\ <<>> \in Seq(Packets)
  OBVIOUS
<1> QED
  BY <1>1, <1>2 DEF Init, TypeOK, Codes

(* Every operation keeps the types and the capacities; the objects of the  *)
(* queue are needed because the consumer reads through them.               *)
LEMMA StepTypeOK == TypeOK /\ ObjectsNotShared /\ [Next]_vars => TypeOK'
<1> SUFFICES ASSUME TypeOK, ObjectsNotShared, [Next]_vars PROVE TypeOK'
  OBVIOUS
<1>0. /\ fifo \in Seq([stream : Streams, obj : Objs])
      /\ Len(fifo) \in Nat /\ Len(fifo) <= QueueSize
      /\ pool \in Seq(Objs) /\ Len(pool) <= PoolMax /\ live \subseteq Objs
      /\ accepted \in Seq(Packets) /\ received \in Seq(Packets)
  BY LenProperties DEF TypeOK
<1>1. ASSUME NEW t \in Senders, NEW s \in Streams, NEW x \in Items,
             SendStep(t, s, x)
      PROVE  TypeOK'
  <2>0. [stream |-> s, item |-> x] \in Packets
    BY PacketNotNoCall
  <2>1. CASE SendWait(t, s, x)
    BY <2>0, <2>1 DEF SendWait, TypeOK, queueVars, flagVars, Threads
  <2>2. CASE SendEof(t, s)
    BY <2>2 DEF SendEof, Return, TypeOK, queueVars, Codes
  <2>3. CASE SendWrite(t, s, x)
    <3>1. PICK o \in Objs :
            /\ objpool_get(o)
            /\ content' = [content EXCEPT ![o] = x]
            /\ fifo' = Append(fifo, [stream |-> s, obj |-> o])
      BY <2>3 DEF SendWrite
    <3>2. /\ pool' \in Seq(Objs) /\ Len(pool') <= PoolMax
          /\ live' \subseteq Objs
      BY <1>0, <3>1, PoolGet
    <3>3. /\ fifo' \in Seq([stream : Streams, obj : Objs])
          /\ Len(fifo') = Len(fifo) + 1
      BY <1>0, <3>1, AppendProperties
    <3>4. Len(fifo') <= QueueSize
      BY <1>0, <2>3, <3>3 DEF SendWrite, Full
    <3>5. accepted' \in Seq(Packets)
      BY <1>0, <2>0, <2>3, AppendProperties DEF SendWrite
    <3>6. content' \in [Objs -> Items \cup {Blank}]
      BY <3>1 DEF TypeOK
    <3>7. /\ ret' \in [Senders -> Codes]
          /\ pending' \in [Senders -> Packets \cup {NoCall}]
      BY <2>3 DEF SendWrite, Return, TypeOK, Codes
    <3> QED
      BY <2>3, <3>2, <3>3, <3>4, <3>5, <3>6, <3>7
      DEF SendWrite, TypeOK, flagVars
  <2>4. CASE SendNoMemory(t, s)
    BY <2>4 DEF SendNoMemory, Return, TypeOK, queueVars, flagVars, Codes
  <2> QED
    BY <1>1, <2>1, <2>2, <2>3, <2>4 DEF SendStep, SendLoop
<1>2. ASSUME NEW t \in Senders, SendRefused(t) PROVE TypeOK'
  BY <1>2 DEF SendRefused, Return, TypeOK, queueVars, flagVars, Codes
<1>3. ASSUME NEW t \in Senders, NEW s \in Streams, tq_send_finish(t, s)
      PROVE  TypeOK'
  BY <1>3 DEF tq_send_finish, TypeOK, queueVars
<1>4. CASE ReceiveItem
  <2>1. fifo # <<>>
    BY <1>4 DEF ReceiveItem
  <2> DEFINE e == Head(fifo)
             p == [stream |-> e.stream, item |-> content[e.obj]]
  <2>2. /\ e.stream \in Streams /\ e.obj \in Objs /\ p \in Packets
        /\ p.stream \in Streams /\ p.item \in Items
    BY <2>1, HeadOfFifo DEF PacketOf
  <2>3. /\ Tail(fifo) \in Seq([stream : Streams, obj : Objs])
        /\ Len(Tail(fifo)) = Len(fifo) - 1
    BY <1>0, <2>1, HeadTailProperties
  <2> HIDE DEF e
  <2>4. /\ objpool_release(e.obj)
        /\ content' = [content EXCEPT ![e.obj] = Blank]
        /\ got' = [code |-> "ok", stream |-> p.stream, item |-> p.item]
        /\ received' = Append(received, p)
        /\ fifo' = Tail(fifo) /\ waiting' = {}
        /\ UNCHANGED <<flagVars, pending, ret, accepted>>
    BY <1>4 DEF ReceiveItem, e
  <2> HIDE DEF p
  <2>5. /\ pool' \in Seq(Objs) /\ Len(pool') <= PoolMax
        /\ live' \subseteq Objs
    BY <1>0, <2>2, <2>4, PoolRelease
  <2>6. received' \in Seq(Packets)
    BY <1>0, <2>2, <2>4, AppendProperties
  <2>7. content' \in [Objs -> Items \cup {Blank}]
    BY <2>4 DEF TypeOK
  <2>8. got' \in [code : Codes \cup {"blocked"}, stream : Streams \cup {-1},
                  item : Items \cup {Blank}]
    BY <2>2, <2>4 DEF Codes
  <2>9. fifo' \in Seq([stream : Streams, obj : Objs]) /\ Len(fifo') <= QueueSize
    BY <1>0, <2>3, <2>4
  <2> QED
    BY <2>4, <2>5, <2>6, <2>7, <2>8, <2>9 DEF TypeOK, flagVars
<1>5. CASE ReceiveStreamEof
  <2>1. PICK s \in EofStreams :
          /\ recvFinished' = recvFinished \cup {s}
          /\ got' = [code |-> "EOF", stream |-> s, item |-> Blank]
          /\ eofs' = [eofs EXCEPT ![s] = @ + 1]
    BY <1>5 DEF ReceiveStreamEof
  <2>2. s \in Streams
    BY DEF EofStreams, TypeOK
  <2> QED
    BY <1>5, <2>1, <2>2 DEF ReceiveStreamEof, TypeOK, queueVars, Codes
<1>6. CASE ReceiveDone
  BY <1>6 DEF ReceiveDone, TypeOK, queueVars, flagVars, Codes
<1>7. CASE ReceiveWait
  BY <1>7 DEF ReceiveWait, TypeOK, queueVars, flagVars, Threads, Blocked
<1>8. ASSUME NEW s \in Streams, tq_receive_finish(s) PROVE TypeOK'
  BY <1>8 DEF tq_receive_finish, TypeOK, queueVars
<1>9. ASSUME NEW t \in Threads, SpuriousWakeup(t) PROVE TypeOK'
  BY <1>9 DEF SpuriousWakeup, TypeOK, queueVars, flagVars
<1>10. CASE UNCHANGED vars
  BY <1>10 DEF vars, TypeOK
<1> QED
  BY <1>1, <1>2, <1>3, <1>4, <1>5, <1>6, <1>7, <1>8, <1>9, <1>10, NextCases

-----------------------------------------------------------------------------
(* The objects of the queue after a step of the pool and of the fifo.      *)
LEMMA InitObjects == Init => ObjectsNotShared
  BY DEF Init, ObjectsNotShared, FifoObjs, PoolObjs

(* An accepted item goes into an object that is in no slot, from the pool  *)
(* or from the allocator.                                                  *)
LEMMA SendWriteObjects ==
  ASSUME TypeOK, ObjectsNotShared,
         NEW t \in Senders, NEW s \in Streams, NEW x \in Items,
         SendWrite(t, s, x)
  PROVE  /\ ObjectsNotShared'
         /\ Len(fifo') = Len(fifo) + 1
         /\ \A i \in 1 .. Len(fifo) : fifo'[i] = fifo[i]
         /\ fifo'[Len(fifo) + 1].stream = s
         /\ Buffered' = Append(Buffered, [stream |-> s, item |-> x])
<1> DEFINE n == Len(fifo)
           m == Len(pool)
<1>1. PICK o \in Objs :
        /\ objpool_get(o)
        /\ content' = [content EXCEPT ![o] = x]
        /\ fifo' = Append(fifo, [stream |-> s, obj |-> o])
  BY DEF SendWrite
<1>2. /\ fifo \in Seq([stream : Streams, obj : Objs]) /\ pool \in Seq(Objs)
      /\ n \in Nat /\ m \in Nat
      /\ [stream |-> s, obj |-> o] \in [stream : Streams, obj : Objs]
      /\ content \in [Objs -> Items \cup {Blank}]
  BY LenProperties DEF TypeOK
<1>3. /\ Len(fifo') = n + 1
      /\ \A i \in 1 .. n : fifo'[i] = fifo[i] /\ fifo[i].obj \in Objs
      /\ fifo'[n + 1] = [stream |-> s, obj |-> o]
  <2>1. \A i \in 1 .. n : fifo[i] \in [stream : Streams, obj : Objs]
    BY <1>2, ElementOfSeq
  <2>2. /\ Len(fifo') = n + 1
        /\ \A i \in 1 .. n : fifo'[i] = fifo[i]
        /\ fifo'[n + 1] = [stream |-> s, obj |-> o]
    BY <1>1, <1>2, AppendProperties
  <2> QED
    BY <2>1, <2>2
<1> HIDE DEF n, m
<1>4. /\ o \notin FifoObjs
      /\ Len(pool') \in Nat
      /\ \A i \in 1 .. Len(pool') : pool'[i] = pool[i] /\ i \in 1 .. m
      /\ \A i \in 1 .. Len(pool') : pool'[i] # o
      /\ live' = FifoObjs \cup PoolObjs' \cup {o}
  <2>1. CASE pool = <<>>
    BY <1>1, <1>2, <2>1 DEF objpool_get, ObjectsNotShared, PoolObjs, m
  <2>2. CASE pool # <<>>
    <3>1. /\ m \in Nat \ {0} /\ Len(pool') = m - 1
          /\ \A i \in 1 .. m - 1 : pool'[i] = pool[i]
      BY <1>1, <1>2, <2>2, FrontProperties DEF objpool_get, m
    <3>2. o = pool[m] /\ live' = live
      BY <1>1, <2>2 DEF objpool_get, m
    <3>3. o \in PoolObjs
      BY <3>1, <3>2 DEF PoolObjs, m
    <3>4. \A i \in 1 .. m - 1 : pool[i] # o
      BY <3>1, <3>2 DEF ObjectsNotShared, m
    <3>5. PoolObjs = PoolObjs' \cup {o}
      BY <3>1, <3>2 DEF PoolObjs, m
    <3>6. live' = FifoObjs \cup PoolObjs' \cup {o}
      BY <3>2, <3>5 DEF ObjectsNotShared
    <3>7. o \notin FifoObjs
      BY <3>3 DEF ObjectsNotShared
    <3> QED
      BY <3>1, <3>4, <3>6, <3>7
  <2> QED BY <2>1, <2>2
<1>5. FifoObjs' = FifoObjs \cup {o}
  BY <1>2, <1>3 DEF FifoObjs, n
<1>6. PoolObjs' = {pool'[i] : i \in 1 .. Len(pool')}
  BY DEF PoolObjs
<1>7. \A i, j \in 1 .. Len(fifo') : fifo'[i].obj = fifo'[j].obj => i = j
  <2>1. \A i \in 1 .. n : fifo[i].obj # o
    BY <1>4 DEF FifoObjs, n
  <2>2. \A i, j \in 1 .. n : fifo[i].obj = fifo[j].obj => i = j
    BY DEF ObjectsNotShared, n
  <2>3. fifo'[n + 1].obj = o
    BY <1>3
  <2> QED
    BY <1>2, <1>3, <2>1, <2>2, <2>3
<1>8. \A i, j \in 1 .. Len(pool') : pool'[i] = pool'[j] => i = j
  BY <1>4 DEF ObjectsNotShared, m
<1>9. FifoObjs' \cap PoolObjs' = {} /\ live' = FifoObjs' \cup PoolObjs'
  <2>1. PoolObjs' \subseteq PoolObjs
    BY <1>4, <1>6 DEF PoolObjs, m
  <2>2. o \notin PoolObjs'
    BY <1>4, <1>6
  <2>3. FifoObjs \cap PoolObjs = {}
    BY DEF ObjectsNotShared
  <2>4. live' = FifoObjs \cup PoolObjs' \cup {o}
    BY <1>4
  <2>5. FifoObjs' \cap PoolObjs' = {}
    BY <1>5, <2>1, <2>2, <2>3
  <2>6. live' = FifoObjs' \cup PoolObjs'
    BY <1>5, <2>4
  <2> QED
    BY <2>5, <2>6
<1>10. \A q \in Objs : content'[q] = Blank <=> q \notin FifoObjs'
  <2>1. x # Blank
    OBVIOUS
  <2>2. content' = [content EXCEPT ![o] = x]
    BY <1>1
  <2>3. \A q \in Objs : content[q] = Blank <=> q \notin FifoObjs
    BY DEF ObjectsNotShared
  <2>4. \A q \in Objs : content'[q] = IF q = o THEN x ELSE content[q]
    BY <1>2, <2>2
  <2> QED
    BY <1>5, <2>1, <2>3, <2>4
<1>11. Buffered' = Append(Buffered, [stream |-> s, item |-> x])
  <2> DEFINE pkt == [stream |-> s, item |-> x]
             old(i) == [stream |-> fifo[i].stream, item |-> content[fifo[i].obj]]
             new(i) == [stream |-> fifo'[i].stream, item |-> content'[fifo'[i].obj]]
  <2>1. \A i \in 1 .. n : fifo[i].obj # o /\ fifo[i].obj \in Objs
    BY <1>3, <1>4 DEF FifoObjs, n
  <2>2. \A i \in 1 .. n : new(i) = old(i)
    BY <1>1, <1>2, <1>3, <2>1
  <2>3. new(n + 1) = pkt
    BY <1>1, <1>2, <1>3
  <2>4. /\ Buffered = [i \in 1 .. n |-> old(i)]
        /\ Buffered' = [i \in 1 .. n + 1 |-> new(i)]
    BY <1>3 DEF Buffered, PacketOf, n
  <2>5. Buffered \in Seq(Packets) /\ Len(Buffered) = n
    BY BufferedType DEF n
  <2>6. pkt \in Packets
    BY PacketNotNoCall
  <2> HIDE DEF pkt, old, new
  <2>7. /\ Append(Buffered, pkt) \in Seq(Packets)
        /\ Len(Append(Buffered, pkt)) = n + 1
        /\ \A i \in 1 .. n : Append(Buffered, pkt)[i] = Buffered[i]
        /\ Append(Buffered, pkt)[n + 1] = pkt
    BY <2>5, <2>6, AppendProperties
  <2>8. \A i \in 1 .. n + 1 : Append(Buffered, pkt)[i] = new(i)
    BY <1>2, <2>2, <2>3, <2>4, <2>7
  <2>9. Append(Buffered, pkt) = [i \in 1 .. n + 1 |-> Append(Buffered, pkt)[i]]
    BY <2>7, LenProperties
  <2> QED
    BY <2>4, <2>8, <2>9 DEF pkt
<1> QED
  BY <1>1, <1>3, <1>7, <1>8, <1>9, <1>10, <1>11
  DEF ObjectsNotShared, n

(* The object of the head leaves the fifo for the pool or is freed.        *)
LEMMA ReceiveItemObjects ==
  ASSUME TypeOK, ObjectsNotShared, ReceiveItem
  PROVE  /\ ObjectsNotShared'
         /\ Len(fifo') = Len(fifo) - 1
         /\ \A i \in 1 .. Len(fifo') : fifo'[i] = fifo[i + 1]
         /\ Buffered # <<>>
         /\ Buffered' = Tail(Buffered)
         /\ Head(Buffered) = PacketOf(Head(fifo))
<1> DEFINE n == Len(fifo)
           m == Len(pool)
           o == fifo[1].obj
<1>1. /\ fifo # <<>> /\ Head(fifo) = fifo[1] /\ n \in Nat \ {0}
      /\ o \in Objs /\ m \in Nat
      /\ fifo \in Seq([stream : Streams, obj : Objs]) /\ pool \in Seq(Objs)
      /\ content \in [Objs -> Items \cup {Blank}]
  BY HeadOfFifo, LenProperties DEF ReceiveItem, TypeOK
<1>2. /\ objpool_release(o)
      /\ content' = [content EXCEPT ![o] = Blank]
      /\ fifo' = Tail(fifo)
  BY <1>1 DEF ReceiveItem
<1>3. Len(fifo') = n - 1 /\ \A i \in 1 .. n - 1 : fifo'[i] = fifo[i + 1]
  BY <1>1, <1>2, HeadTailProperties
<1>4. \A i \in 1 .. n : fifo[i].obj \in Objs
  <2>1. \A i \in 1 .. n : fifo[i] \in [stream : Streams, obj : Objs]
    BY <1>1, ElementOfSeq
  <2> QED BY <2>1
<1>5. \A i, j \in 1 .. n : fifo[i].obj = fifo[j].obj => i = j
  BY DEF ObjectsNotShared
<1> HIDE DEF n, m, o
<1>6. \A i \in 1 .. n - 1 : fifo'[i].obj # o
  <2>1. \A i \in 1 .. n - 1 : i + 1 \in 1 .. n /\ i + 1 # 1 /\ 1 \in 1 .. n
    BY <1>1
  <2> QED
    BY <1>3, <1>5, <2>1 DEF o
<1>7. FifoObjs = FifoObjs' \cup {o} /\ o \notin FifoObjs'
  <2>1. FifoObjs' = {fifo'[i].obj : i \in 1 .. n - 1}
    BY <1>3 DEF FifoObjs
  <2>2. FifoObjs' \subseteq FifoObjs
    <3>1. \A i \in 1 .. n - 1 : i + 1 \in 1 .. n
      BY <1>1
    <3>2. FifoObjs = {fifo[i].obj : i \in 1 .. n}
      BY DEF FifoObjs, n
    <3>3. ASSUME NEW i \in 1 .. n - 1 PROVE fifo'[i].obj \in FifoObjs
      <4>1. fifo'[i] = fifo[i + 1] /\ i + 1 \in 1 .. n
        BY <1>3, <3>1
      <4> QED BY <3>2, <4>1
    <3> QED
      BY <2>1, <3>3
  <2>3. o \in FifoObjs
    BY <1>1 DEF FifoObjs, n, o
  <2>4. ASSUME NEW i \in 1 .. n, i # 1 PROVE fifo[i].obj \in FifoObjs'
    <3>1. i - 1 \in 1 .. n - 1 /\ (i - 1) + 1 = i
      BY <1>1, <2>4
    <3> QED BY <1>3, <2>1, <3>1
  <2>5. FifoObjs \subseteq FifoObjs' \cup {o}
    BY <2>4 DEF FifoObjs, n, o
  <2>6. o \notin FifoObjs'
    BY <1>6, <2>1
  <2> QED
    BY <2>2, <2>3, <2>5, <2>6
<1>8. \A i, j \in 1 .. n - 1 : fifo'[i].obj = fifo'[j].obj => i = j
  <2> SUFFICES ASSUME NEW i \in 1 .. n - 1, NEW j \in 1 .. n - 1,
                      fifo'[i].obj = fifo'[j].obj
               PROVE  i = j
    OBVIOUS
  <2>1. i + 1 \in 1 .. n /\ j + 1 \in 1 .. n /\ i \in Int /\ j \in Int
    BY <1>1
  <2>2. fifo[i + 1].obj = fifo[j + 1].obj
    BY <1>3
  <2>3. i + 1 = j + 1
    BY <1>5, <2>1, <2>2
  <2> QED
    BY <2>1, <2>3
<1>9. /\ \A i, j \in 1 .. Len(pool') : pool'[i] = pool'[j] => i = j
      /\ FifoObjs' \cap PoolObjs' = {}
      /\ live' = FifoObjs' \cup PoolObjs'
  <2>0. /\ FifoObjs \cap PoolObjs = {}
        /\ live = FifoObjs \cup PoolObjs
        /\ \A i, j \in 1 .. m : pool[i] = pool[j] => i = j
    BY DEF ObjectsNotShared, m
  <2>1. CASE m < PoolMax
    <3>1. pool' = Append(pool, o) /\ live' = live
      BY <1>2, <2>1 DEF objpool_release, m
    <3>2. /\ Len(pool') = m + 1 /\ pool'[m + 1] = o
          /\ \A i \in 1 .. m : pool'[i] = pool[i]
      BY <1>1, <3>1, AppendProperties DEF m
    <3>3. PoolObjs' = PoolObjs \cup {o}
      BY <1>1, <3>2 DEF PoolObjs, m
    <3>4. \A i \in 1 .. m : pool[i] # o
      <4>1. o \notin PoolObjs
        BY <1>7, <2>0
      <4> QED BY <4>1 DEF PoolObjs, m
    <3>5. \A i, j \in 1 .. m + 1 : pool'[i] = pool'[j] => i = j
      BY <1>1, <2>0, <3>2, <3>4
    <3>6. FifoObjs' \cap PoolObjs' = {}
      BY <1>7, <2>0, <3>3
    <3>7. live' = FifoObjs' \cup PoolObjs'
      BY <1>7, <2>0, <3>1, <3>3
    <3> QED BY <3>2, <3>5, <3>6, <3>7
  <2>2. CASE ~(m < PoolMax)
    <3>1. pool' = pool /\ live' = live \ {o}
      BY <1>2, <2>2 DEF objpool_release, m
    <3>2. PoolObjs' = PoolObjs
      BY <3>1 DEF PoolObjs
    <3>3. FifoObjs' \cap PoolObjs' = {}
      BY <1>7, <2>0, <3>2
    <3>4. o \notin PoolObjs
      BY <1>7, <2>0
    <3>5. live' = FifoObjs' \cup PoolObjs'
      BY <1>7, <2>0, <3>1, <3>2, <3>4
    <3> QED BY <2>0, <3>1, <3>3, <3>5 DEF m
  <2> QED BY <2>1, <2>2
<1>10. \A q \in Objs : content'[q] = Blank <=> q \notin FifoObjs'
  <2>1. \A q \in Objs : content'[q] = IF q = o THEN Blank ELSE content[q]
    BY <1>1, <1>2
  <2>2. \A q \in Objs : content[q] = Blank <=> q \notin FifoObjs
    BY DEF ObjectsNotShared
  <2> QED
    BY <1>7, <2>1, <2>2
<1>11. /\ Buffered # <<>> /\ Buffered' = Tail(Buffered)
       /\ Head(Buffered) = PacketOf(Head(fifo))
  <2> DEFINE old(i) == [stream |-> fifo[i].stream, item |-> content[fifo[i].obj]]
             new(i) == [stream |-> fifo'[i].stream, item |-> content'[fifo'[i].obj]]
  <2>1. \A i \in 1 .. n - 1 : i + 1 \in 1 .. n
    BY <1>1
  <2>2. \A i \in 1 .. n - 1 : content'[fifo'[i].obj] = content[fifo[i + 1].obj]
    BY <1>1, <1>2, <1>3, <1>4, <1>6, <2>1
  <2>3. \A i \in 1 .. n - 1 : new(i) = old(i + 1)
    BY <1>3, <2>2
  <2>4. /\ Buffered = [i \in 1 .. n |-> old(i)]
        /\ Buffered' = [i \in 1 .. n - 1 |-> new(i)]
    BY <1>3 DEF Buffered, PacketOf, n
  <2>5. Buffered \in Seq(Packets) /\ Len(Buffered) = n
    BY BufferedType DEF n
  <2>6. Buffered # <<>> /\ Head(Buffered) = Buffered[1]
    BY <1>1, <2>5, EmptySeq
  <2>7. /\ Tail(Buffered) \in Seq(Packets) /\ Len(Tail(Buffered)) = n - 1
        /\ \A i \in 1 .. n - 1 : Tail(Buffered)[i] = Buffered[i + 1]
    BY <2>5, <2>6, HeadTailProperties
  <2>8. Head(Buffered) = PacketOf(Head(fifo))
    BY <1>1, <2>4, <2>6 DEF PacketOf
  <2> HIDE DEF old, new
  <2>9. \A i \in 1 .. n - 1 : Tail(Buffered)[i] = new(i)
    BY <1>1, <2>1, <2>3, <2>4, <2>7
  <2>10. Tail(Buffered) = [i \in 1 .. n - 1 |-> Tail(Buffered)[i]]
    BY <2>7, LenProperties
  <2>11. Tail(Buffered) = Buffered'
    BY <2>4, <2>9, <2>10
  <2> QED
    BY <2>6, <2>8, <2>11
<1> QED
  BY <1>3, <1>7, <1>8, <1>9, <1>10, <1>11 DEF ObjectsNotShared, n

-----------------------------------------------------------------------------
(* Only an accepted send and a received item touch the queue itself.       *)
LEMMA QueueSteps ==
  ASSUME TypeOK, [Next]_vars
  PROVE  \/ UNCHANGED queueVars
         \/ \E t \in Senders, s \in Streams, x \in Items : SendWrite(t, s, x)
         \/ ReceiveItem
<1>1. CASE UNCHANGED vars
  BY <1>1 DEF vars, queueVars
<1>2. CASE Next
  <2>1. ASSUME NEW t \in Senders, NEW s \in Streams, NEW x \in Items,
               SendStep(t, s, x)
        PROVE  UNCHANGED queueVars \/ SendWrite(t, s, x)
    BY <2>1 DEF SendStep, SendLoop, SendWait, SendEof, SendNoMemory
  <2>2. ASSUME NEW t \in Senders, SendRefused(t) PROVE UNCHANGED queueVars
    BY <2>2 DEF SendRefused
  <2>3. ASSUME NEW t \in Senders, NEW s \in Streams, tq_send_finish(t, s)
        PROVE  UNCHANGED queueVars
    BY <2>3 DEF tq_send_finish
  <2>4. ASSUME ReceiveStreamEof \/ ReceiveDone \/ ReceiveWait
        PROVE  UNCHANGED queueVars
    BY <2>4 DEF ReceiveStreamEof, ReceiveDone, ReceiveWait
  <2>5. ASSUME NEW s \in Streams, tq_receive_finish(s) PROVE UNCHANGED queueVars
    BY <2>5 DEF tq_receive_finish
  <2>6. ASSUME NEW t \in Threads, SpuriousWakeup(t) PROVE UNCHANGED queueVars
    BY <2>6 DEF SpuriousWakeup
  <2> QED
    BY <1>2, <2>1, <2>2, <2>3, <2>4, <2>5, <2>6, NextCases
<1> QED BY <1>1, <1>2

(* No operation puts an object in two places or loses one.                 *)
LEMMA StepObjects ==
  TypeOK /\ ObjectsNotShared /\ [Next]_vars => ObjectsNotShared'
<1> SUFFICES ASSUME TypeOK, ObjectsNotShared, [Next]_vars
             PROVE  ObjectsNotShared'
  OBVIOUS
<1>1. CASE UNCHANGED queueVars
  <2>1. fifo' = fifo /\ pool' = pool /\ live' = live /\ content' = content
    BY <1>1 DEF queueVars
  <2>2. FifoObjs' = FifoObjs
    BY <2>1 DEF FifoObjs
  <2>3. PoolObjs' = PoolObjs
    BY <2>1 DEF PoolObjs
  <2> QED
    BY <2>1, <2>2, <2>3 DEF ObjectsNotShared
<1> QED
  BY <1>1, QueueSteps, SendWriteObjects, ReceiveItemObjects

(* An accepted item is appended to what is buffered, a received one is     *)
(* taken from its head.                                                    *)
LEMMA StepInOrder ==
  TypeOK /\ ObjectsNotShared /\ InOrder /\ [Next]_vars => InOrder'
<1> SUFFICES ASSUME TypeOK, ObjectsNotShared, InOrder, [Next]_vars
             PROVE  InOrder'
  OBVIOUS
<1>0. /\ Buffered \in Seq(Packets) /\ received \in Seq(Packets)
      /\ accepted \in Seq(Packets)
  BY BufferedType DEF TypeOK
<1>1. CASE UNCHANGED queueVars
  BY <1>1 DEF queueVars, InOrder, Buffered, PacketOf
<1>2. ASSUME NEW t \in Senders, NEW s \in Streams, NEW x \in Items,
             SendWrite(t, s, x)
      PROVE  InOrder'
  <2> DEFINE p == [stream |-> s, item |-> x]
  <2>1. accepted' = Append(accepted, p) /\ received' = received /\ p \in Packets
    BY <1>2, PacketNotNoCall DEF SendWrite
  <2>2. Buffered' = Append(Buffered, p)
    BY <1>2, SendWriteObjects
  <2> HIDE DEF p
  <2>3. \A e \in Packets :
          Append(received \o Buffered, e) = received \o Append(Buffered, e)
    <3> SUFFICES ASSUME NEW e \in Packets
                 PROVE  Append(received \o Buffered, e)
                          = received \o Append(Buffered, e)
      OBVIOUS
    <3>1. <<e>> \in Seq(Packets)
      OBVIOUS
    <3>2. (received \o Buffered) \o <<e>> = received \o (Buffered \o <<e>>)
      BY <1>0, <3>1, ConcatAssociative
    <3> QED BY <1>0, <3>2, AppendIsConcat, ConcatProperties
  <2> QED
    BY <2>1, <2>2, <2>3 DEF InOrder
<1>3. CASE ReceiveItem
  <2>1. /\ received' = Append(received, PacketOf(Head(fifo)))
        /\ accepted' = accepted
    BY <1>3 DEF ReceiveItem, PacketOf
  <2>2. /\ Buffered # <<>> /\ Buffered' = Tail(Buffered)
        /\ Head(Buffered) = PacketOf(Head(fifo))
    BY <1>3, ReceiveItemObjects
  <2>3. received \o Buffered = Append(received, Head(Buffered)) \o Tail(Buffered)
    BY <1>0, <2>2, MoveHeadAcross
  <2> QED
    BY <2>1, <2>2, <2>3 DEF InOrder
<1> QED
  BY <1>1, <1>2, <1>3, QueueSteps

(* A blocked call belongs to the thread that owns the stream, which cannot *)
(* have ended it in the meantime.                                          *)
LEMMA StepNoWriteBehindFinish ==
  TypeOK /\ NoWriteBehindFinish /\ [Next]_vars => NoWriteBehindFinish'
<1> SUFFICES ASSUME TypeOK, NoWriteBehindFinish, [Next]_vars,
                    NEW u \in Senders, pending'[u] # NoCall
             PROVE  /\ Owner[pending'[u].stream] = u
                    /\ pending'[u].stream \notin sendFinished'
  BY DEF NoWriteBehindFinish
<1>0. pending \in [Senders -> Packets \cup {NoCall}]
  BY DEF TypeOK
<1>a. pending[u] # NoCall => /\ Owner[pending[u].stream] = u
                            /\ pending[u].stream \notin sendFinished
  BY DEF NoWriteBehindFinish
<1>1. ASSUME NEW t \in Senders, NEW s \in Streams, NEW x \in Items,
             SendStep(t, s, x)
      PROVE  /\ Owner[pending'[u].stream] = u
             /\ pending'[u].stream \notin sendFinished'
  <2>0. Owner[s] = t /\ s \notin sendFinished
    <3>1. CASE pending[t] = NoCall
      BY <1>1, <3>1, PacketNotNoCall DEF SendStep
    <3>2. CASE pending[t] = [stream |-> s, item |-> x]
      <4>1. pending[t] # NoCall /\ pending[t].stream = s
        BY <3>2, PacketNotNoCall
      <4> QED BY <4>1 DEF NoWriteBehindFinish
    <3> QED BY <1>1, <3>1, <3>2 DEF SendStep
  <2>1. CASE SendWait(t, s, x)
    BY <1>0, <1>a, <2>0, <2>1 DEF SendWait, flagVars
  <2>2. CASE SendEof(t, s)
    <3>1. u # t /\ pending'[u] = pending[u]
      BY <1>0, <2>2 DEF SendEof, Return
    <3> QED
      BY <1>a, <2>0, <2>2, <3>1 DEF SendEof
  <2>3. CASE SendWrite(t, s, x)
    BY <1>0, <1>a, <2>3 DEF SendWrite, Return, flagVars
  <2>4. CASE SendNoMemory(t, s)
    BY <1>0, <1>a, <2>4 DEF SendNoMemory, Return, flagVars
  <2> QED
    BY <1>1, <2>1, <2>2, <2>3, <2>4 DEF SendStep, SendLoop
<1>2. ASSUME NEW t \in Senders, SendRefused(t)
      PROVE  /\ Owner[pending'[u].stream] = u
             /\ pending'[u].stream \notin sendFinished'
  BY <1>0, <1>2, <1>a DEF SendRefused, Return, flagVars
<1>3. ASSUME NEW t \in Senders, NEW s \in Streams, tq_send_finish(t, s)
      PROVE  /\ Owner[pending'[u].stream] = u
             /\ pending'[u].stream \notin sendFinished'
  BY <1>3, <1>a DEF tq_send_finish
<1>4. CASE ReceiveItem
  BY <1>4, <1>a DEF ReceiveItem, flagVars
<1>5. CASE ReceiveStreamEof
  BY <1>5, <1>a DEF ReceiveStreamEof
<1>6. CASE ReceiveDone
  BY <1>6, <1>a DEF ReceiveDone, flagVars
<1>7. CASE ReceiveWait
  BY <1>7, <1>a DEF ReceiveWait, flagVars
<1>8. ASSUME NEW s \in Streams, tq_receive_finish(s)
      PROVE  /\ Owner[pending'[u].stream] = u
             /\ pending'[u].stream \notin sendFinished'
  BY <1>8, <1>a DEF tq_receive_finish
<1>9. ASSUME NEW t \in Threads, SpuriousWakeup(t)
      PROVE  /\ Owner[pending'[u].stream] = u
             /\ pending'[u].stream \notin sendFinished'
  BY <1>9, <1>a DEF SpuriousWakeup, flagVars
<1>10. CASE UNCHANGED vars
  BY <1>10, <1>a DEF vars
<1> QED
  BY <1>1, <1>2, <1>3, <1>4, <1>5, <1>6, <1>7, <1>8, <1>9, <1>10, NextCases

-----------------------------------------------------------------------------
(* Who sleeps.                                                             *)
LEMMA StepNoMissedWakeup ==
  TypeOK /\ NoMissedWakeup /\ [Next]_vars => NoMissedWakeup'
<1> SUFFICES ASSUME TypeOK, NoMissedWakeup, [Next]_vars
             PROVE  NoMissedWakeup'
  OBVIOUS
<1>0. /\ pending \in [Senders -> Packets \cup {NoCall}]
      /\ waiting \subseteq Senders \cup {Receiver} /\ Len(fifo) \in Nat
  BY LenProperties DEF TypeOK, Threads
<1>1. ASSUME waiting' = {} PROVE NoMissedWakeup'
  BY <1>1 DEF NoMissedWakeup
<1>2. ASSUME UNCHANGED <<fifo, sendFinished, recvFinished, pending, got>>,
             waiting' \subseteq waiting
      PROVE  NoMissedWakeup'
  BY <1>2 DEF NoMissedWakeup, Full, EofStreams
<1>3. ASSUME NEW t \in Senders, NEW s \in Streams, NEW x \in Items,
             SendStep(t, s, x)
      PROVE  NoMissedWakeup'
  <2>1. CASE SendWait(t, s, x)
    <3>1. /\ s \notin recvFinished /\ Full /\ waiting' = waiting \cup {t}
          /\ pending' = [pending EXCEPT ![t] = [stream |-> s, item |-> x]]
          /\ UNCHANGED <<fifo, sendFinished, recvFinished, got>>
      BY <2>1 DEF SendWait, queueVars, flagVars
    <3>2. fifo # <<>>
      BY <1>0, <3>1 DEF Full
    <3>3. Receiver \notin waiting'
      BY <3>1, <3>2 DEF NoMissedWakeup
    <3>4. ASSUME NEW u \in waiting' \cap Senders
          PROVE  Full' /\ pending'[u].stream \in Streams \ recvFinished'
      <4>1. Full'
        BY <3>1 DEF Full
      <4>2. CASE u = t
        BY <1>0, <3>1, <4>1, <4>2
      <4>3. CASE u # t
        <5>1. u \in waiting \cap Senders /\ pending'[u] = pending[u]
          BY <1>0, <3>1, <3>4, <4>3
        <5> QED
          BY <3>1, <4>1, <5>1 DEF NoMissedWakeup
      <4> QED BY <4>2, <4>3
    <3> QED
      BY <3>3, <3>4 DEF NoMissedWakeup
  <2>2. CASE SendEof(t, s)
    <3>1. /\ s \in recvFinished /\ sendFinished' = sendFinished \cup {s}
          /\ pending' = [pending EXCEPT ![t] = NoCall]
          /\ UNCHANGED <<fifo, recvFinished, waiting, got>>
      BY <2>2 DEF SendEof, Return, queueVars
    <3>2. t \notin waiting
      <4>1. CASE pending[t] = NoCall
        <5>1. pending[t].stream = -1
          BY <4>1 DEF NoCall
        <5>2. -1 \notin Streams
          BY DEF Streams
        <5> QED BY <5>1, <5>2 DEF NoMissedWakeup
      <4> QED BY <1>3, <4>1 DEF SendStep
    <3>3. EofStreams' = EofStreams
      BY <3>1 DEF EofStreams
    <3>4. \A u \in Senders : u # t => pending'[u] = pending[u]
      BY <1>0, <3>1
    <3> QED
      BY <3>1, <3>2, <3>3, <3>4 DEF NoMissedWakeup, Full
  <2>3. CASE SendWrite(t, s, x)
    BY <1>1, <2>3 DEF SendWrite
  <2>4. CASE SendNoMemory(t, s)
    <3>1. /\ ~Full /\ pending' = [pending EXCEPT ![t] = NoCall]
          /\ UNCHANGED <<fifo, sendFinished, recvFinished, waiting, got>>
      BY <2>4 DEF SendNoMemory, Return, queueVars, flagVars
    <3> QED
      BY <3>1 DEF NoMissedWakeup, EofStreams
  <2> QED
    BY <1>3, <2>1, <2>2, <2>3, <2>4 DEF SendStep, SendLoop
<1>4. ASSUME NEW t \in Senders, SendRefused(t) PROVE NoMissedWakeup'
  <2>1. /\ pending[t] = NoCall /\ pending' = [pending EXCEPT ![t] = NoCall]
        /\ UNCHANGED <<fifo, sendFinished, recvFinished, waiting, got>>
    BY <1>4 DEF SendRefused, Return, queueVars, flagVars
  <2>2. pending' = pending
    BY <1>0, <2>1
  <2> QED BY <1>2, <2>1, <2>2
<1>5. ASSUME NEW t \in Senders, NEW s \in Streams, tq_send_finish(t, s)
      PROVE  NoMissedWakeup'
  BY <1>1, <1>5 DEF tq_send_finish
<1>6. ASSUME Receiver \notin waiting, fifo = <<>>
      PROVE  waiting = {}
  <2>1. ~Full
    BY <1>0, <1>6 DEF Full
  <2> QED
    BY <1>0, <1>6, <2>1 DEF NoMissedWakeup
<1>7. CASE ReceiveItem
  BY <1>1, <1>7 DEF ReceiveItem
<1>8. CASE Receiver \notin waiting /\ ReceiveStreamEof
  BY <1>1, <1>6, <1>8 DEF ReceiveStreamEof
<1>9. CASE Receiver \notin waiting /\ ReceiveDone
  BY <1>1, <1>6, <1>9 DEF ReceiveDone
<1>10. CASE Receiver \notin waiting /\ ReceiveWait
  <2>1. waiting = {} /\ waiting' = {Receiver}
    BY <1>6, <1>10 DEF ReceiveWait
  <2>2. got' = Blocked /\ fifo' = <<>> /\ EofStreams' = {}
    BY <1>10 DEF ReceiveWait, queueVars, flagVars, EofStreams
  <2> QED
    BY <2>1, <2>2 DEF NoMissedWakeup
<1>11. ASSUME NEW s \in Streams, tq_receive_finish(s) PROVE NoMissedWakeup'
  BY <1>1, <1>11 DEF tq_receive_finish
<1>12. ASSUME NEW t \in Threads, SpuriousWakeup(t) PROVE NoMissedWakeup'
  BY <1>2, <1>12 DEF SpuriousWakeup, queueVars, flagVars
<1>13. CASE UNCHANGED vars
  BY <1>2, <1>13 DEF vars
<1> QED
  BY <1>3, <1>4, <1>5, <1>7, <1>8, <1>9, <1>10, <1>11, <1>12, <1>13, NextCases

-----------------------------------------------------------------------------
(* The end of a stream.                                                    *)
LEMMA StepEofOnceAndLast ==
  TypeOK /\ ObjectsNotShared /\ EofOnceAndLast /\ [Next]_vars => EofOnceAndLast'
<1> SUFFICES ASSUME TypeOK, ObjectsNotShared, EofOnceAndLast, [Next]_vars,
                    NEW r \in Streams
             PROVE  /\ eofs'[r] <= 1
                    /\ eofs'[r] = 1 =>
                         /\ r \in sendFinished' /\ r \in recvFinished'
                         /\ \A i \in 1 .. Len(fifo') : fifo'[i].stream # r
  BY DEF EofOnceAndLast, Finished
<1> DEFINE Goal == /\ eofs'[r] <= 1
                   /\ eofs'[r] = 1 =>
                        /\ r \in sendFinished' /\ r \in recvFinished'
                        /\ \A i \in 1 .. Len(fifo') : fifo'[i].stream # r
<1>0. /\ eofs \in [Streams -> Nat] /\ Len(fifo) \in Nat
      /\ eofs[r] <= 1
      /\ eofs[r] = 1 => /\ r \in sendFinished /\ r \in recvFinished
                        /\ \A i \in 1 .. Len(fifo) : fifo[i].stream # r
  BY LenProperties DEF TypeOK, EofOnceAndLast, Finished
<1>1. ASSUME UNCHANGED <<fifo, eofs>>,
             sendFinished \subseteq sendFinished',
             recvFinished \subseteq recvFinished'
      PROVE  Goal
  BY <1>0, <1>1
<1>2. ASSUME NEW t \in Senders, NEW s \in Streams, NEW x \in Items,
             SendStep(t, s, x)
      PROVE  Goal
  <2>1. CASE SendWrite(t, s, x)
    <3>1. /\ s \notin recvFinished
          /\ UNCHANGED <<sendFinished, recvFinished, eofs>>
      BY <2>1 DEF SendWrite, flagVars
    <3>2. /\ Len(fifo') = Len(fifo) + 1
          /\ \A i \in 1 .. Len(fifo) : fifo'[i] = fifo[i]
          /\ fifo'[Len(fifo) + 1].stream = s
      BY <2>1, SendWriteObjects
    <3>3. CASE eofs[r] = 1
      <4>1. \A i \in 1 .. Len(fifo) + 1 : fifo'[i].stream # r
        BY <1>0, <3>1, <3>2, <3>3
      <4> QED
        BY <1>0, <3>1, <3>2, <3>3, <4>1
    <3> QED
      BY <1>0, <3>1, <3>3
  <2> QED
    BY <1>1, <1>2, <2>1
    DEF SendStep, SendLoop, SendWait, SendEof, SendNoMemory, queueVars, flagVars
<1>3. ASSUME NEW t \in Senders, SendRefused(t) PROVE Goal
  BY <1>1, <1>3 DEF SendRefused, queueVars, flagVars
<1>4. ASSUME NEW t \in Senders, NEW s \in Streams, tq_send_finish(t, s)
      PROVE  Goal
  BY <1>1, <1>4 DEF tq_send_finish, queueVars
<1>5. CASE ReceiveItem
  <2>1. UNCHANGED <<sendFinished, recvFinished, eofs>>
    BY <1>5 DEF ReceiveItem, flagVars
  <2>2. /\ Len(fifo') = Len(fifo) - 1
        /\ \A i \in 1 .. Len(fifo') : fifo'[i] = fifo[i + 1]
    BY <1>5, ReceiveItemObjects
  <2>3. \A i \in 1 .. Len(fifo') : i + 1 \in 1 .. Len(fifo)
    BY <1>0, <2>2
  <2> QED
    BY <1>0, <2>1, <2>2, <2>3
<1>6. CASE ReceiveStreamEof
  <2>1. PICK s \in EofStreams :
          /\ recvFinished' = recvFinished \cup {s}
          /\ eofs' = [eofs EXCEPT ![s] = @ + 1]
    BY <1>6 DEF ReceiveStreamEof
  <2>2. s \in Streams /\ s \in sendFinished /\ s \notin recvFinished
    BY DEF EofStreams, TypeOK
  <2>3. fifo' = <<>> /\ fifo = <<>> /\ sendFinished' = sendFinished
    BY <1>6 DEF ReceiveStreamEof, queueVars
  <2>4. eofs[s] = 0
    BY <2>2 DEF EofOnceAndLast, Finished, TypeOK
  <2>5. CASE r = s
    BY <1>0, <2>1, <2>2, <2>3, <2>4, <2>5
  <2>6. CASE r # s
    BY <1>0, <2>1, <2>2, <2>3, <2>6
  <2> QED BY <2>5, <2>6
<1>7. CASE ReceiveDone \/ ReceiveWait
  BY <1>1, <1>7 DEF ReceiveDone, ReceiveWait, queueVars, flagVars
<1>8. ASSUME NEW s \in Streams, tq_receive_finish(s) PROVE Goal
  BY <1>1, <1>8 DEF tq_receive_finish, queueVars
<1>9. ASSUME NEW t \in Threads, SpuriousWakeup(t) PROVE Goal
  BY <1>1, <1>9 DEF SpuriousWakeup, queueVars, flagVars
<1>10. CASE UNCHANGED vars
  BY <1>1, <1>10 DEF vars
<1> QED
  BY <1>2, <1>3, <1>4, <1>5, <1>6, <1>7, <1>8, <1>9, <1>10, NextCases

DoneResult == [code |-> "EOF", stream |-> -1, item |-> Blank]

(* "All streams are done" stays true until the next call.                  *)
LEMMA StepDoneIsFinal ==
  TypeOK /\ ObjectsNotShared /\ DoneIsFinal /\ [Next]_vars => DoneIsFinal'
<1> SUFFICES ASSUME TypeOK, ObjectsNotShared, DoneIsFinal, [Next]_vars
             PROVE  DoneIsFinal'
  OBVIOUS
<1>a. sendFinished' \subseteq Streams /\ recvFinished' \subseteq Streams
  BY StepTypeOK DEF TypeOK
<1>b. Streams \subseteq sendFinished' \cap recvFinished' => Finished' = Streams
  BY <1>a DEF Finished
<1> SUFFICES ASSUME got' = DoneResult
             PROVE  /\ Streams \subseteq sendFinished' \cap recvFinished'
                    /\ fifo' = <<>>
  BY <1>b DEF DoneIsFinal, DoneResult
<1>0. got = DoneResult => /\ Streams \subseteq sendFinished \cap recvFinished
                          /\ fifo = <<>>
  BY DEF DoneIsFinal, DoneResult, Finished
<1> DEFINE Goal == /\ Streams \subseteq sendFinished' \cap recvFinished'
                   /\ fifo' = <<>>
<1>1. ASSUME UNCHANGED <<fifo, got>>,
             sendFinished \subseteq sendFinished',
             recvFinished \subseteq recvFinished'
      PROVE  Goal
  BY <1>0, <1>1
<1>2. ASSUME NEW t \in Senders, NEW s \in Streams, NEW x \in Items,
             SendStep(t, s, x)
      PROVE  Goal
  <2>1. CASE SendWrite(t, s, x)
    BY <1>0, <2>1 DEF SendWrite
  <2> QED
    BY <1>1, <1>2, <2>1
    DEF SendStep, SendLoop, SendWait, SendEof, SendNoMemory, queueVars, flagVars
<1>3. ASSUME NEW t \in Senders, SendRefused(t) PROVE Goal
  BY <1>1, <1>3 DEF SendRefused, queueVars, flagVars
<1>4. ASSUME NEW t \in Senders, NEW s \in Streams, tq_send_finish(t, s)
      PROVE  Goal
  BY <1>1, <1>4 DEF tq_send_finish, queueVars
<1>5. CASE ReceiveItem
  <2>1. got'.stream = Head(fifo).stream /\ fifo # <<>>
    BY <1>5 DEF ReceiveItem
  <2>2. Head(fifo).stream \in Streams
    BY <2>1, HeadOfFifo
  <2> QED
    BY <2>1, <2>2 DEF DoneResult, Streams
<1>6. CASE ReceiveStreamEof
  <2>1. PICK s \in EofStreams : got'.stream = s
    BY <1>6 DEF ReceiveStreamEof
  <2>2. s \in Streams
    BY DEF EofStreams, TypeOK
  <2> QED
    BY <2>1, <2>2 DEF DoneResult, Streams
<1>7. CASE ReceiveDone
  BY <1>7 DEF ReceiveDone, Finished, queueVars, flagVars
<1>8. CASE ReceiveWait
  BY <1>8 DEF ReceiveWait, Blocked, DoneResult
<1>9. ASSUME NEW s \in Streams, tq_receive_finish(s) PROVE Goal
  BY <1>1, <1>9 DEF tq_receive_finish, queueVars
<1>10. ASSUME NEW t \in Threads, SpuriousWakeup(t) PROVE Goal
  BY <1>1, <1>10 DEF SpuriousWakeup, queueVars, flagVars
<1>11. CASE UNCHANGED vars
  BY <1>1, <1>11 DEF vars
<1> QED
  BY <1>2, <1>3, <1>4, <1>5, <1>6, <1>7, <1>8, <1>9, <1>10, <1>11, NextCases

-----------------------------------------------------------------------------
(* The inductive invariant: the parts lean on each other through TypeOK    *)
(* and ObjectsNotShared, the others only on themselves.                    *)
IInv ==
  /\ TypeOK
  /\ ObjectsNotShared
  /\ InOrder
  /\ EofOnceAndLast
  /\ DoneIsFinal
  /\ NoMissedWakeup
  /\ NoWriteBehindFinish

(* tq_alloc establishes the inductive invariant.                           *)
LEMMA InitIInv == Init => IInv
<1> SUFFICES ASSUME Init PROVE IInv
  OBVIOUS
<1>1. TypeOK /\ ObjectsNotShared
  BY InitTypeOK, InitObjects
<1>2. InOrder
  <2>1. Buffered = <<>>
    BY <1>1, BufferedType, EmptySeq DEF Init
  <2> QED
    BY <2>1 DEF Init, InOrder
<1>3. EofOnceAndLast
  BY DEF Init, EofOnceAndLast
<1>4. DoneIsFinal
  BY DEF Init, DoneIsFinal
<1>5. NoMissedWakeup
  BY DEF Init, NoMissedWakeup
<1>6. NoWriteBehindFinish
  BY DEF Init, NoWriteBehindFinish
<1> QED
  BY <1>1, <1>2, <1>3, <1>4, <1>5, <1>6 DEF IInv

(* Every operation keeps it.                                               *)
LEMMA StepIInv == IInv /\ [Next]_vars => IInv'
  BY StepTypeOK, StepObjects, StepInOrder, StepEofOnceAndLast,
     StepDoneIsFinal, StepNoMissedWakeup, StepNoWriteBehindFinish DEF IInv

(* Every reachable state of the queue satisfies the invariant.             *)
THEOREM Invariant == Spec => []IInv
  BY InitIInv, StepIInv, PTL DEF Spec

(* tq_alloc, tq_send, tq_receive, objpool: all variables keep their types  *)
(* and neither the queue nor the pool exceeds its capacity.                *)
THEOREM TypeCorrect == Spec => []TypeOK
<1>1. IInv => TypeOK
  BY DEF IInv
<1> QED
  BY <1>1, Invariant, PTL

(* tq_receive returns what tq_send accepted, in order and unaltered.       *)
THEOREM DeliversInOrder == Spec => []InOrder
<1>1. IInv => InOrder
  BY DEF IInv
<1> QED
  BY <1>1, Invariant, PTL

(* objpool_get never hands out an object that is in use, and none leaks.   *)
THEOREM ObjectsAreNotShared == Spec => []ObjectsNotShared
<1>1. IInv => ObjectsNotShared
  BY DEF IInv
<1> QED
  BY <1>1, Invariant, PTL

(* receive_locked announces the end of a stream at most once, and last.    *)
THEOREM EofIsOnceAndLast == Spec => []EofOnceAndLast
<1>1. IInv => EofOnceAndLast
  BY DEF IInv
<1> QED
  BY <1>1, Invariant, PTL

(* No thread sleeps on tq->cond while what it waits for is there.          *)
THEOREM NoWakeupIsMissed == Spec => []NoMissedWakeup
<1>1. IInv => NoMissedWakeup
  BY DEF IInv
<1> QED
  BY <1>1, Invariant, PTL

(* tq_receive says that all streams are done only when that stays so.      *)
THEOREM DoneIsForGood == Spec => []DoneIsFinal
<1>1. IInv => DoneIsFinal
  BY DEF IInv
<1> QED
  BY <1>1, Invariant, PTL

(* tq_send, suspended in its wait, never writes behind tq_send_finish.     *)
THEOREM NothingBehindFinish == Spec => []NoWriteBehindFinish
<1>1. IInv => NoWriteBehindFinish
  BY DEF IInv
<1> QED
  BY <1>1, Invariant, PTL

-----------------------------------------------------------------------------
(* Refinement of StreamChannel.                                            *)
LEMMA InitChannel == Init => Channel!Init
<1> SUFFICES ASSUME Init PROVE Channel!Init
  OBVIOUS
<1>1. Buffered = <<>>
  BY InitIInv, BufferedType, EmptySeq DEF Init, IInv
<1> QED
  BY <1>1 DEF Init, Channel!Init

(* Every step of the queue is a step of the channel or leaves it alone:    *)
(* waiting, waking up and refusing are invisible.                          *)
LEMMA StepChannel ==
  IInv /\ IInv' /\ [Next]_vars => [Channel!Next]_Channel!chanVars
<1> SUFFICES ASSUME IInv, IInv', [Next]_vars
             PROVE  Channel!Next \/ UNCHANGED Channel!chanVars
  OBVIOUS
<1> DEFINE toldNow == {s \in Streams : eofs[s] # 0}
<1>0. /\ TypeOK /\ ObjectsNotShared /\ DoneIsFinal
      /\ EofOnceAndLast /\ NoWriteBehindFinish
  BY DEF IInv
<1>a. ASSUME UNCHANGED <<fifo, content>>
      PROVE  Buffered' = Buffered
  BY <1>a DEF Buffered, PacketOf
<1>b. ASSUME UNCHANGED eofs
      PROVE  toldNow' = toldNow
  BY <1>b
<1>c. ASSUME UNCHANGED <<fifo, content, sendFinished, recvFinished, eofs, received>>,
             got' = DoneResult <=> got = DoneResult
      PROVE  UNCHANGED Channel!chanVars
  BY <1>a, <1>b, <1>c DEF Channel!chanVars, DoneResult
<1>1. ASSUME NEW t \in Senders, NEW s \in Streams, NEW x \in Items,
             SendStep(t, s, x)
      PROVE  Channel!Next \/ UNCHANGED Channel!chanVars
  <2>1. CASE SendEof(t, s)
    <3>1. /\ sendFinished' = sendFinished \cup {s}
          /\ UNCHANGED <<fifo, content, recvFinished, eofs, received, got>>
      BY <2>1 DEF SendEof, queueVars
    <3>2. Channel!Close(s)
      BY <1>a, <1>b, <3>1 DEF Channel!Close
    <3> QED BY <3>2 DEF Channel!Next
  <2>2. CASE SendWrite(t, s, x)
    <3>1. /\ s \notin recvFinished /\ ~Full
          /\ UNCHANGED <<sendFinished, recvFinished, eofs, received, got>>
      BY <2>2 DEF SendWrite, flagVars
    <3>2. Buffered' = Append(Buffered, [stream |-> s, item |-> x])
      BY <1>0, <2>2, SendWriteObjects
    <3>3. s \notin sendFinished
      <4>1. CASE pending[t] = NoCall
        BY <1>1, <4>1, PacketNotNoCall DEF SendStep
      <4>2. CASE pending[t] = [stream |-> s, item |-> x]
        <5>1. pending[t] # NoCall /\ pending[t].stream = s
          BY <4>2, PacketNotNoCall
        <5> QED BY <1>0, <5>1 DEF NoWriteBehindFinish
      <4> QED BY <1>1, <4>1, <4>2 DEF SendStep
    <3>4. Len(Buffered) < QueueSize
      <4>1. Len(fifo) \in Nat /\ Len(Buffered) = Len(fifo)
        BY <1>0, BufferedType, LenProperties DEF TypeOK
      <4> QED BY <3>1, <4>1 DEF Full
    <3>5. Channel!Put(s, x)
      BY <1>b, <3>1, <3>2, <3>3, <3>4 DEF Channel!Put
    <3> QED BY <3>5 DEF Channel!Next
  <2>3. CASE SendWait(t, s, x) \/ SendNoMemory(t, s)
    BY <1>c, <2>3 DEF SendWait, SendNoMemory, queueVars, flagVars
  <2> QED BY <1>1, <2>1, <2>2, <2>3 DEF SendStep, SendLoop
<1>2. ASSUME NEW t \in Senders, SendRefused(t)
      PROVE  UNCHANGED Channel!chanVars
  BY <1>2, <1>c DEF SendRefused, queueVars, flagVars
<1>3. ASSUME NEW t \in Senders, NEW s \in Streams, tq_send_finish(t, s)
      PROVE  Channel!Next
  <2>1. /\ sendFinished' = sendFinished \cup {s}
        /\ UNCHANGED <<fifo, content, recvFinished, eofs, received, got>>
    BY <1>3 DEF tq_send_finish, queueVars
  <2>2. Channel!Close(s)
    BY <1>a, <1>b, <2>1 DEF Channel!Close
  <2> QED BY <2>2 DEF Channel!Next
<1>4. CASE ReceiveItem
  <2>1. /\ received' = Append(received, PacketOf(Head(fifo)))
        /\ got'.stream = Head(fifo).stream /\ fifo # <<>>
        /\ UNCHANGED <<sendFinished, recvFinished, eofs>>
    BY <1>4 DEF ReceiveItem, PacketOf, flagVars
  <2>2. /\ Buffered # <<>> /\ Buffered' = Tail(Buffered)
        /\ Head(Buffered) = PacketOf(Head(fifo))
    BY <1>0, <1>4, ReceiveItemObjects
  <2>3. got' # DoneResult /\ got # DoneResult
    <3>1. Head(fifo).stream \in Streams
      BY <1>0, <2>1, HeadOfFifo
    <3>2. got'.stream # -1
      BY <2>1, <3>1 DEF Streams
    <3> QED BY <1>0, <2>1, <3>2 DEF DoneIsFinal, DoneResult
  <2>4. Channel!Take
    BY <1>b, <2>1, <2>2, <2>3 DEF Channel!Take, DoneResult
  <2> QED BY <2>4 DEF Channel!Next
<1>5. CASE ReceiveStreamEof
  <2>1. PICK s \in EofStreams :
          /\ recvFinished' = recvFinished \cup {s}
          /\ got' = [code |-> "EOF", stream |-> s, item |-> Blank]
          /\ eofs' = [eofs EXCEPT ![s] = @ + 1]
    BY <1>5 DEF ReceiveStreamEof
  <2>2. s \in Streams /\ s \in sendFinished /\ s \notin recvFinished
    BY <1>0 DEF EofStreams, TypeOK
  <2>3. /\ fifo = <<>> /\ UNCHANGED <<fifo, content, sendFinished, received>>
    BY <1>5 DEF ReceiveStreamEof, queueVars
  <2>4. eofs \in [Streams -> Nat] /\ eofs[s] = 0
    BY <1>0, <2>2 DEF EofOnceAndLast, Finished, TypeOK
  <2>5. toldNow' = toldNow \cup {s} /\ s \notin toldNow
    BY <2>1, <2>2, <2>4
  <2>6. got # DoneResult /\ got' # DoneResult
    <3>1. s # -1
      BY <2>2 DEF Streams
    <3>2. got'.stream = s
      BY <2>1
    <3> QED BY <1>0, <2>2, <3>1, <3>2 DEF DoneIsFinal, DoneResult, Finished
  <2>7. Buffered = <<>>
    BY <1>0, <2>3, BufferedType, EmptySeq
  <2>8. Channel!Announce(s)
    BY <1>a, <2>1, <2>2, <2>3, <2>5, <2>6, <2>7
    DEF Channel!Announce, DoneResult
  <2> QED BY <2>2, <2>8 DEF Channel!Next
<1>6. CASE ReceiveDone
  <2>1. /\ fifo = <<>> /\ Finished = Streams /\ got' = DoneResult
        /\ UNCHANGED <<fifo, content, sendFinished, recvFinished, eofs, received>>
    BY <1>6 DEF ReceiveDone, DoneResult, queueVars, flagVars
  <2>2. Buffered = <<>>
    BY <1>0, <2>1, BufferedType, EmptySeq
  <2>3. Channel!AllDone
    BY <1>a, <1>b, <2>1, <2>2 DEF Channel!AllDone, DoneResult, Finished
  <2> QED BY <2>3 DEF Channel!Next
<1>7. CASE ReceiveWait
  <2>1. got # DoneResult /\ got' # DoneResult
    BY <1>0, <1>7 DEF ReceiveWait, DoneIsFinal, DoneResult, Blocked
  <2> QED
    BY <1>c, <1>7, <2>1 DEF ReceiveWait, queueVars, flagVars
<1>8. ASSUME NEW s \in Streams, tq_receive_finish(s) PROVE Channel!Next
  <2>1. /\ recvFinished' = recvFinished \cup {s}
        /\ UNCHANGED <<fifo, content, sendFinished, eofs, received, got>>
    BY <1>8 DEF tq_receive_finish, queueVars
  <2>2. Channel!Refuse(s)
    BY <1>a, <1>b, <2>1 DEF Channel!Refuse
  <2> QED BY <2>2 DEF Channel!Next
<1>9. ASSUME NEW t \in Threads, SpuriousWakeup(t)
      PROVE  UNCHANGED Channel!chanVars
  BY <1>9, <1>c DEF SpuriousWakeup, queueVars, flagVars
<1>10. CASE UNCHANGED vars
  BY <1>10, <1>c DEF vars
<1> QED
  BY <1>0, <1>1, <1>2, <1>3, <1>4, <1>5, <1>6, <1>7, <1>8, <1>9, <1>10,
     NextCases

(* thread_queue.c implements the channel its header describes.             *)
THEOREM Refinement == Spec => ImplementsChannel
<1>1. Init => Channel!Init
  BY InitChannel
<1>2. IInv /\ IInv' /\ [Next]_vars => [Channel!Next]_Channel!chanVars
  BY StepChannel
<1> QED
  BY <1>1, <1>2, Invariant, PTL DEF Spec, ImplementsChannel, Channel!Spec
=============================================================================
