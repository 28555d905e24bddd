---------------------------- MODULE Muxer_proofs ----------------------------
(***************************************************************************)
(* Muxer for any number of streams and packets and any sizes of its        *)
(* queues: how far the muxing queues grow, that nothing is left when the   *)
(* file is closed, and that the file holds what was taken, in order.       *)
(***************************************************************************)
EXTENDS Muxer, SequenceTheorems, WellFoundedInduction, TLAPS

(* What is proved of the thread queue.                                     *)
TQP == INSTANCE ThreadQueue_proofs WITH
  Senders  <- {Main},
  Owner    <- [s \in Streams |-> Main],
  Receiver <- MuxThread,
  Items    <- PacketIds,
  Blank    <- NullPacket,
  MaxItems <- NbStreams * MaxPackets

-----------------------------------------------------------------------------
(* The muxing queues: a packet counts as data, an end of stream does not.  *)
CapInv ==
  \A s \in Streams :
    /\ Len(muxing_queue[s]) <= queueCap[s]
    /\ queueCap[s] # 0
    /\ \/ queueCap[s] <= InitCap
       \/ queueCap[s] <= MaxQueue
       \/ queueCap[s] <= 2 * (Threshold + MaxEofs - 1)
    /\ Len(muxing_queue[s]) <= data_size[s] + eofCalls[s]
    /\ eofCalls[s] <= MaxEofs

(* Where the main thread is, whether there is a queue and a thread.        *)
PlaceInv ==
  /\ tq = "none" => /\ thread = "none" /\ live = {} /\ accepted = <<>>
                    /\ main \in {"run", "close", "closed"} /\ ~fileFull
                    /\ sendFinished = {} /\ muxFinished = {}
                    /\ pending[Main] = TQ!NoCall
  /\ tq = "up" => thread # "none" /\ main # "closed"
  /\ tq = "freed" => /\ thread = "exit" /\ live = {}
                     /\ main \in {"close", "closed"}
  /\ main = "closed" => \A s \in Streams : muxing_queue[s] = <<>>
  /\ tq # "none" => initialized = Streams

(* What the muxer thread holds; and the queue works while there is one.    *)
HoldInv ==
  /\ main = "sent" => call.stream \in Streams
  /\ thread = "write" => got.stream \in Streams /\ got.item \in PacketIds
  /\ tq # "freed" => TQP!IInv

(* The places and types that everything else relies on.                    *)
Base == TypeOK /\ PlaceInv /\ HoldInv

-----------------------------------------------------------------------------
(* The packets of a stream, by the numbers of their calls.                 *)
Ids(q) == {q[i] : i \in DOMAIN q}
OfStream(q, s) == {q[i].item : i \in {j \in DOMAIN q : q[j].stream = s}}
Increasing(q) == \A i, j \in DOMAIN q : i < j => q[i] < q[j]
Last(q) == q[Len(q)]

(* The packets of A come before the others of T.                           *)
InitialPart(A, T) == A \subseteq T /\ \A a \in A, t \in T \ A : a < t

(* A muxing queue holds growing numbers, and no packet behind an end.      *)
Ordered(q) ==
  \A i, j \in DOMAIN q :
    i < j => q[j] = NullPacket \/ (q[i] # NullPacket /\ q[i] < q[j])

Taken(s)    == Ids(taken[s])
Accepted(s) == OfStream(accepted, s)
Queued(s)   == Ids(muxing_queue[s]) \ {NullPacket}
InFlight(s) == IF thread = "write" /\ got.stream = s THEN {got.item} ELSE {}

(* A send that waits, and one that failed.                                 *)
Sending == main = "sent" /\ pending[Main] # TQ!NoCall
Failing == main = "sent" /\ pending[Main] = TQ!NoCall /\ ret[Main] # "ok"

Waiting(s) == IF Sending /\ call.stream = s THEN {pending[Main].item} ELSE {}

(* What is lost with the send that failed: the packet of this call is not  *)
(* taken after all; a packet of the muxing queue is.                       *)
Lost(s) == IF ~(Failing /\ call.stream = s) THEN {}
           ELSE IF call.from = "run" THEN {Last(taken[s])} ELSE Taken(s)

(* No error was met so far, and the file may grow.                         *)
Writable == ~fileFull /\ threadRet = "ok"
Intact == Writable /\ status = "ok"

(* As long as every packet that was taken is somewhere, ...                *)
Kept(s) == main # "closed" /\ (s \notin muxFinished \/ Intact)

(* ... and as long as a stream that ended has ended behind its packets.    *)
Ended(s) == s \in muxFinished /\ Intact

(* The packets of a stream that were taken have growing numbers; the queue *)
(* accepts first what was taken first; what waits in tq_send and behind it *)
(* in the muxing queue was taken and not accepted, and is in order; and    *)
(* nothing that was taken is missing.                                      *)
StreamInv(s) ==
  /\ Increasing(taken[s]) /\ \A x \in Taken(s) : x <= calls[s]
  /\ InitialPart(Accepted(s), Taken(s))
  /\ Ordered(muxing_queue[s])
  /\ Waiting(s) \cup Queued(s) \subseteq Taken(s) \ Accepted(s)
  /\ \A w \in Waiting(s), x \in Queued(s) : w < x
  /\ eofCalls[s] = 0 => NullPacket \notin Ids(muxing_queue[s])
  /\ Ended(s) => Queued(s) = {}
  /\ Kept(s) => Taken(s) \ Lost(s) \subseteq Accepted(s) \cup Waiting(s) \cup Queued(s)

FlowInv == \A s \in Streams : StreamInv(s)

(* The thread queue accepts the packets of a stream in their order.        *)
AcceptInv ==
  \A i, j \in DOMAIN accepted :
    i < j /\ accepted[i].stream = accepted[j].stream
      => accepted[i].item < accepted[j].item

(* What the main thread is sending; and a queue refuses a packet only when *)
(* the file is full or could not be written.                               *)
SendInv ==
  /\ pending[Main] # TQ!NoCall => main = "sent"
  /\ main = "sent" => call.stream \notin muxFinished
  /\ Sending =>
       /\ pending[Main].stream = call.stream
       /\ call.from = "run" => pending[Main].item = Last(taken[call.stream])
  /\ Failing =>
       /\ ret[Main] \in {"EOF", "ENOMEM"}
       /\ ret[Main] = "EOF" => ~Writable
       /\ call.from = "run" =>
            /\ taken[call.stream] # <<>>
            /\ Last(taken[call.stream]) \notin Accepted(call.stream)

(* thread_start drains the muxing queues in the order of the streams.      *)
DrainInv ==
  tq = "up" =>
    /\ main = "flush" \/ (main = "sent" /\ call.from = "flush") =>
         \A s \in Streams : s < idx => muxing_queue[s] = <<>>
    /\ \/ main = "run"
       \/ main = "sent" /\ call.from = "run"
       \/ main \in {"stop", "close"} /\ status # "fatal"
       => \A s \in Streams : muxing_queue[s] = <<>>

(* The ends of the streams.                                                *)
EndInv ==
  /\ main \in {"run", "flush", "sent"} =>
       sendFinished \subseteq muxFinished
         \cup (IF Failing THEN {call.stream} ELSE {})
  /\ recvFinished \subseteq sendFinished \/ ~Writable
  /\ thread \notin {"finish", "exit"} => threadRet = "ok"
  /\ thread \in {"finish", "exit"} /\ threadRet = "ok" =>
       sendFinished = Streams /\ recvFinished = Streams /\ fifo = <<>>

(* The file: what the thread received, without what it has not written yet.*)
WriteInv ==
  /\ \A s \in Streams :
       /\ Increasing(written[s])
       /\ Ids(written[s]) \subseteq OfStream(received, s)
       /\ InitialPart(Ids(written[s]), Taken(s))
       /\ Writable => Ids(written[s]) = OfStream(received, s) \ InFlight(s)
  /\ thread = "write" =>
       /\ received # <<>>
       /\ Last(received) = [stream |-> got.stream, item |-> got.item]

(* The status and the trailer.                                             *)
StatusInv ==
  /\ main \in {"run", "flush", "sent"} => status = "ok" /\ trailer = "none"
  /\ tq = "up" /\ main = "close" => status = "fatal" /\ trailer # "pending"
  /\ tq = "up" /\ main = "stop" => trailer = "pending" \/ status = "fatal"
  /\ tq # "freed" => trailer # "written"
  /\ tq = "freed" => /\ threadRet = "error" => status # "ok"
                     /\ trailer = "written" /\ status = "ok" /\ ~fileFull
                          => written = taken

-----------------------------------------------------------------------------
(* The queue is one that the results on ThreadQueue are about.             *)
LEMMA QueueAssumptions ==
  /\ [s \in Streams |-> Main] \in [TQP!Streams -> {Main}]
  /\ MuxThread \notin {Main}
  /\ NullPacket \notin PacketIds
  /\ NbStreams * MaxPackets \in Nat
  /\ NbStreams \in Nat \ {0} /\ QueueSize \in Nat \ {0} /\ PoolMax \in Nat
  BY MuxAssumption DEF TQP!Streams, Streams, MuxThread, Main, NullPacket, PacketIds

(* Its predicates are the same in both instances, now ...                  *)
LEMMA SamePredicates ==
  /\ TQ!Init <=> TQP!Init
  /\ TQ!TypeOK <=> TQP!TypeOK
  /\ TQ!NoCall = TQP!NoCall
<1>1. TQ!Init <=> TQP!Init
  BY DEF TQ!Init, TQP!Init, TQ!Streams, TQP!Streams, TQ!NoCall, TQP!NoCall
<1>2. TQ!TypeOK <=> TQP!TypeOK
  BY DEF TQ!TypeOK, TQP!TypeOK, TQ!Streams, TQP!Streams, TQ!Threads, TQP!Threads,
     TQ!Packets, TQP!Packets, TQ!NoCall, TQP!NoCall, TQ!Codes, TQP!Codes
<1> QED
  BY <1>1, <1>2 DEF TQ!NoCall, TQP!NoCall

(* ... and after a step.                                                   *)
LEMMA SameTypeNext == TQ!TypeOK' <=> TQP!TypeOK'
  BY DEF TQ!TypeOK, TQP!TypeOK, TQ!Streams, TQP!Streams, TQ!Threads, TQP!Threads,
     TQ!Packets, TQP!Packets, TQ!NoCall, TQP!NoCall, TQ!Codes, TQP!Codes

(* A send is a step of the queue.                                          *)
LEMMA SendLoopSame ==
  ASSUME NEW s, NEW x
  PROVE  TQ!SendLoop(Main, s, x) => TQP!SendLoop(Main, s, x)
<1>1. TQ!SendWait(Main, s, x) => TQP!SendWait(Main, s, x)
  BY DEF TQ!SendWait, TQP!SendWait, TQ!Full, TQP!Full, TQ!queueVars, TQP!queueVars,
     TQ!flagVars, TQP!flagVars
<1>2. TQ!SendEof(Main, s) => TQP!SendEof(Main, s)
  BY DEF TQ!SendEof, TQP!SendEof, TQ!Return, TQP!Return, TQ!NoCall, TQP!NoCall,
     TQ!queueVars, TQP!queueVars
<1>3. TQ!SendWrite(Main, s, x) => TQP!SendWrite(Main, s, x)
  BY DEF TQ!SendWrite, TQP!SendWrite, TQ!Return, TQP!Return, TQ!NoCall, TQP!NoCall,
     TQ!Full, TQP!Full, TQ!objpool_get, TQP!objpool_get, TQ!flagVars, TQP!flagVars
<1>4. TQ!SendNoMemory(Main, s) => TQP!SendNoMemory(Main, s)
  BY DEF TQ!SendNoMemory, TQP!SendNoMemory, TQ!Return, TQP!Return, TQ!NoCall,
     TQP!NoCall, TQ!Full, TQP!Full, TQ!queueVars, TQP!queueVars, TQ!flagVars,
     TQP!flagVars
<1> QED
  BY <1>1, <1>2, <1>3, <1>4 DEF TQ!SendLoop, TQP!SendLoop

(* The operations the two threads use are steps of the queue.              *)
LEMMA QueueOperations ==
  /\ \A s \in Streams, x \in PacketIds : TQ!tq_send(Main, s, x) => TQP!Next
  /\ TQ!ResumeSend(Main) => TQP!Next
  /\ \A s \in Streams : TQ!tq_send_finish(Main, s) => TQP!Next
  /\ TQ!tq_receive => TQP!Next
  /\ \A s \in Streams : TQ!tq_receive_finish(s) => TQP!Next
<1>0. TQP!Streams = Streams
  BY DEF TQP!Streams, Streams
<1>1. ASSUME NEW s \in Streams, NEW x \in PacketIds, TQ!tq_send(Main, s, x)
      PROVE  TQP!Next
  <2>1. TQP!tq_send(Main, s, x)
    BY <1>1, SendLoopSame DEF TQ!tq_send, TQP!tq_send, TQ!Return, TQP!Return,
       TQ!NoCall, TQP!NoCall, TQ!queueVars, TQP!queueVars, TQ!flagVars, TQP!flagVars
  <2> QED
    BY <1>0, <2>1 DEF TQP!Next
<1>2. ASSUME TQ!ResumeSend(Main)
      PROVE  TQP!Next
  <2>1. TQP!ResumeSend(Main)
    BY <1>2, SendLoopSame DEF TQ!ResumeSend, TQP!ResumeSend, TQ!NoCall, TQP!NoCall
  <2> QED
    BY <2>1 DEF TQP!Next
<1>3. ASSUME NEW s \in Streams, TQ!tq_send_finish(Main, s)
      PROVE  TQP!Next
  <2>1. TQP!tq_send_finish(Main, s)
    BY <1>3 DEF TQ!tq_send_finish, TQP!tq_send_finish, TQ!NoCall, TQP!NoCall,
       TQ!queueVars, TQP!queueVars
  <2> QED
    BY <1>0, <2>1 DEF TQP!Next
<1>4. ASSUME TQ!tq_receive
      PROVE  TQP!Next
  <2>1. TQ!ReceiveItem => TQP!ReceiveItem
    BY DEF TQ!ReceiveItem, TQP!ReceiveItem, TQ!objpool_release, TQP!objpool_release,
       TQ!flagVars, TQP!flagVars
  <2>2. TQ!ReceiveStreamEof => TQP!ReceiveStreamEof
    BY DEF TQ!ReceiveStreamEof, TQP!ReceiveStreamEof, TQ!EofStreams, TQP!EofStreams,
       TQ!queueVars, TQP!queueVars
  <2>3. TQ!ReceiveDone => TQP!ReceiveDone
    BY DEF TQ!ReceiveDone, TQP!ReceiveDone, TQ!Finished, TQP!Finished, TQ!Streams,
       TQP!Streams, TQ!queueVars, TQP!queueVars, TQ!flagVars, TQP!flagVars
  <2>4. TQ!ReceiveWait => TQP!ReceiveWait
    BY DEF TQ!ReceiveWait, TQP!ReceiveWait, TQ!Finished, TQP!Finished, TQ!Streams,
       TQP!Streams, TQ!EofStreams, TQP!EofStreams, TQ!Blocked, TQP!Blocked,
       TQ!queueVars, TQP!queueVars, TQ!flagVars, TQP!flagVars
  <2> QED
    BY <1>4, <2>1, <2>2, <2>3, <2>4 DEF TQ!tq_receive, TQP!tq_receive, TQP!Next
<1>5. ASSUME NEW s \in Streams, TQ!tq_receive_finish(s)
      PROVE  TQP!Next
  <2>1. TQP!tq_receive_finish(s)
    BY <1>5 DEF TQ!tq_receive_finish, TQP!tq_receive_finish, TQ!Blocked, TQP!Blocked,
       TQ!queueVars, TQP!queueVars
  <2> QED
    BY <1>0, <2>1 DEF TQP!Next
<1> QED
  BY <1>1, <1>2, <1>3, <1>4, <1>5

(* A variable of the queue only changes in one of its operations.          *)
LEMMA UnchangedQueue == UNCHANGED tqVars => UNCHANGED TQP!vars
  BY DEF tqVars, TQP!vars

(* The counters of loops run over the streams.                             *)
LEMMA LoopFacts ==
  ASSUME NEW n \in 0 .. NbStreams
  PROVE  n \in Nat /\ (n < NbStreams => n \in Streams /\ n + 1 \in 0 .. NbStreams)
         /\ 0 \in 0 .. NbStreams
<1>1. NbStreams \in Nat \ {0}
  BY MuxAssumption
<1> QED
  BY <1>1 DEF Streams

(* A packet that is handed over has a number.                              *)
LEMMA CallFacts ==
  ASSUME TypeOK, NEW s \in Streams
  PROVE  /\ calls[s] \in Nat /\ eofCalls[s] \in Nat
         /\ calls[s] < MaxPackets => calls[s] + 1 \in PacketIds
         /\ calls' = [calls EXCEPT ![s] = @ + 1] => calls'[s] = calls[s] + 1
  BY MuxAssumption DEF TypeOK, PacketIds

(* The first packet of a muxing queue.                                     *)
LEMMA QueueHead ==
  ASSUME TypeOK, NEW s \in Streams, muxing_queue[s] # <<>>
  PROVE  /\ Head(muxing_queue[s]) \in PacketIds \cup {NullPacket}
         /\ Tail(muxing_queue[s]) \in Seq(PacketIds \cup {NullPacket})
<1>1. muxing_queue[s] \in Seq(PacketIds \cup {NullPacket})
  BY DEF TypeOK
<1> QED
  BY <1>1, HeadTailProperties

(* What the threads do to the queue is an operation of it, until it is     *)
(* freed.                                                                  *)
LEMMA QueueStep ==
  ASSUME Base, [Next]_vars
  PROVE  TQP!Next \/ UNCHANGED TQP!vars \/ JoinThread
<1>0. /\ idx \in 0 .. NbStreams /\ refuseIdx \in 0 .. NbStreams
  BY DEF Base, TypeOK
<1>1. ASSUME NEW s \in Streams, of_output_packet(s)
      PROVE  TQP!Next \/ UNCHANGED TQP!vars
  <2>1. CASE UNCHANGED tqVars
    BY <2>1, UnchangedQueue
  <2>2. CASE TQ!tq_send_finish(Main, s)
    BY <2>2, QueueOperations
  <2>3. ASSUME NEW x, SubmitSend(s, x, "run"), x = calls'[s],
               calls' = [calls EXCEPT ![s] = @ + 1], calls[s] < MaxPackets
        PROVE  TQP!Next
    <3>1. x \in PacketIds
      BY <2>3, CallFacts DEF Base
    <3> QED
      BY <2>3, <3>1, QueueOperations DEF SubmitSend
  <2> QED
    BY <1>1, <2>1, <2>2, <2>3
       DEF of_output_packet, submit_packet, thread_submit_packet, SubmitEnd
<1>2. CASE FlushPacket
  <2>1. idx \in Streams /\ Head(muxing_queue[idx]) \in PacketIds \cup {NullPacket}
    BY <1>0, <1>2, LoopFacts, QueueHead DEF FlushPacket, Base
  <2> QED
    BY <1>2, <2>1, QueueOperations
       DEF FlushPacket, thread_submit_packet, SubmitEnd, SubmitSend
<1>3. CASE SendFailed
  BY <1>3, QueueOperations DEF SendFailed, Base, HoldInv
<1>4. CASE StopStream
  BY <1>0, <1>4, LoopFacts, QueueOperations DEF StopStream
<1>5. CASE ResumeSend
  BY <1>5, QueueOperations DEF ResumeSend
<1>6. CASE ThreadReceives
  BY <1>6, QueueOperations DEF ThreadReceives
<1>7. CASE RefuseStream
  BY <1>7, QueueOperations DEF RefuseStream, Base, HoldInv
<1>8. CASE ThreadFinishes
  BY <1>0, <1>8, LoopFacts, QueueOperations, UnchangedQueue DEF ThreadFinishes
<1>9. ASSUME NEW s \in Streams, of_stream_init(s)
      PROVE  UNCHANGED TQP!vars
  BY <1>9, UnchangedQueue DEF of_stream_init
<1>10. CASE of_write_trailer
  BY <1>10, UnchangedQueue DEF of_write_trailer
<1>11. CASE SendReturned
  BY <1>11, UnchangedQueue DEF SendReturned
<1>12. CASE FlushNext
  BY <1>12, UnchangedQueue DEF FlushNext
<1>13. CASE of_close
  BY <1>13, UnchangedQueue DEF of_close
<1>14. CASE ThreadStarts
  BY <1>14, UnchangedQueue DEF ThreadStarts
<1>15. CASE write_packet
  BY <1>15, UnchangedQueue DEF write_packet
<1>16. CASE UNCHANGED vars
  BY <1>16, UnchangedQueue DEF vars
<1> QED
  BY <1>1, <1>2, <1>3, <1>4, <1>5, <1>6, <1>7, <1>8, <1>9, <1>10, <1>11, <1>12,
     <1>13, <1>14, <1>15, <1>16 DEF Next, CallerStep, MainStep, ThreadStep, Closed

(* Once the queue is freed, closing the file is all that is left.          *)
LEMMA AfterFree ==
  ASSUME Base, [Next]_vars, tq = "freed"
  PROVE  UNCHANGED vars \/ of_close
<1>1. main \in {"close", "closed"} /\ thread = "exit"
  BY DEF Base, PlaceInv
<1> QED
  BY <1>1 DEF Next, CallerStep, MainStep, ThreadStep, Closed, of_stream_init,
     of_output_packet, of_write_trailer, ResumeSend, SendReturned, SendFailed,
     FlushPacket, FlushNext, StopStream, JoinThread, ThreadStarts, ThreadReceives,
     write_packet, RefuseStream, ThreadFinishes

(* Nothing touches the queue once it is freed, and only JoinThread does it.*)
LEMMA QueueState ==
  ASSUME Base, [Next]_vars
  PROVE  /\ tq = "freed" => UNCHANGED TQP!vars /\ tq' = tq
         /\ tq # "freed" /\ ~JoinThread => tq' # "freed"
         /\ JoinThread => tq = "up" /\ thread = "exit" /\ TQ!tq_free
                          /\ tq' = "freed" /\ thread' = thread
<1>3. ASSUME tq = "freed"
      PROVE  UNCHANGED TQP!vars /\ tq' = tq
  BY <1>3, AfterFree, UnchangedQueue DEF of_close, vars, mainVars
<1>4. ASSUME tq # "freed", ~JoinThread
      PROVE  tq' # "freed"
  BY <1>4 DEF Next, CallerStep, MainStep, ThreadStep, Closed, of_stream_init,
     of_output_packet, of_write_trailer, ResumeSend, SendReturned, SendFailed,
     FlushPacket, FlushNext, StopStream, ThreadStarts, ThreadReceives, of_close,
     write_packet, RefuseStream, ThreadFinishes, vars, mainVars
<1>5. ASSUME JoinThread
      PROVE  tq = "up" /\ thread = "exit" /\ TQ!tq_free /\ tq' = "freed"
             /\ thread' = thread
  BY <1>5 DEF JoinThread, Base, PlaceInv, TypeOK, muxVars
<1> QED
  BY <1>3, <1>4, <1>5

(* tq_free leaves no object behind.                                        *)
LEMMA FreeQueue ==
  ASSUME TQP!IInv, TQ!tq_free
  PROVE  TQ!TypeOK' /\ live' = {}
<1>1. TQP!TypeOK /\ TQP!ObjectsNotShared
  BY DEF TQP!IInv
<1>2. live = TQ!FifoObjs \cup TQ!PoolObjs
  BY <1>1 DEF TQP!ObjectsNotShared, TQP!FifoObjs, TQP!PoolObjs, TQ!FifoObjs,
     TQ!PoolObjs
<1>3. TQ!TypeOK
  BY <1>1, SamePredicates
<1>4. live' = {}
  BY <1>2 DEF TQ!tq_free
<1>5. /\ fifo' = <<>> /\ pool' = <<>> /\ content' \in [Objs -> PacketIds \cup {NullPacket}]
      /\ UNCHANGED <<sendFinished, recvFinished, eofs, waiting, pending, ret, got,
                     accepted, received>>
  BY <1>3 DEF TQ!tq_free, TQ!flagVars, TQ!TypeOK
<1>6. Len(<<>>) <= QueueSize /\ Len(<<>>) <= PoolMax
  BY MuxAssumption
<1>7. <<>> \in Seq([stream : TQ!Streams, obj : Objs]) /\ <<>> \in Seq(Objs)
  OBVIOUS
<1>8. TQ!TypeOK'
  BY <1>3, <1>4, <1>5, <1>6, <1>7 DEF TQ!TypeOK, TQ!Streams, TQ!Threads,
     TQ!Packets, TQ!NoCall, TQ!Codes
<1> QED
  BY <1>4, <1>8

(* The queue keeps its invariant while there is one.                       *)
LEMMA QueueKept ==
  ASSUME Base, [Next]_vars
  PROVE  /\ TQ!TypeOK'
         /\ tq' # "freed" => TQP!IInv'
         /\ tq' = "freed" => \/ (tq = "freed" /\ live' = live)
                          \/ (JoinThread /\ live' = {})
<1>1. CASE tq = "freed"
  <2>1. UNCHANGED TQP!vars /\ tq' = tq
    BY <1>1, QueueState
  <2>2. TQP!TypeOK
    BY SamePredicates DEF Base, TypeOK
  <2>3. TQP!TypeOK'
    <3>1. UNCHANGED <<fifo, sendFinished, recvFinished, pool, live, content, waiting,
                      pending, ret, got, accepted, received, eofs>>
      BY <2>1 DEF TQP!vars
    <3> QED
      BY <2>2, <3>1 DEF TQP!TypeOK, TQP!Packets, TQP!Threads, TQP!NoCall,
         TQP!Codes, TQP!Streams
  <2> QED
    BY <1>1, <2>1, <2>3, SameTypeNext DEF TQP!vars
<1>2. CASE tq # "freed" /\ ~JoinThread
  <2>1. [TQP!Next]_TQP!vars /\ TQP!IInv /\ tq' # "freed"
    BY <1>2, QueueStep, QueueState DEF Base, HoldInv
  <2>2. TQP!IInv'
    BY <2>1, QueueAssumptions, TQP!StepIInv
  <2>3. TQP!TypeOK'
    BY <2>2 DEF TQP!IInv
  <2> QED
    BY <2>1, <2>2, <2>3, SameTypeNext
<1>3. CASE tq # "freed" /\ JoinThread
  BY <1>3, QueueState, FreeQueue DEF Base, HoldInv
<1> QED
  BY <1>1, <1>2, <1>3

(* Before anything happens.                                                *)
LEMMA InitBase == Init => Base
<1> SUFFICES ASSUME Init PROVE Base
  OBVIOUS
<1>1. TQP!IInv
  BY SamePredicates, QueueAssumptions, TQP!InitIInv DEF Init
<1>2. TQ!TypeOK
  BY <1>1, SamePredicates DEF TQP!IInv
<1>3. <<>> \in Seq(PacketIds \cup {NullPacket}) /\ <<>> \in Seq(PacketIds)
      /\ InitCap \in Nat /\ 0 \in 0 .. NbStreams
  BY MuxAssumption
<1>4. TypeOK
  BY <1>2, <1>3 DEF Init, TypeOK, NoSubmit
<1>5. live = {} /\ accepted = <<>> /\ sendFinished = {} /\ pending[Main] = TQ!NoCall
  BY DEF Init, TQ!Init
<1>6. PlaceInv
  BY <1>5 DEF Init, PlaceInv
<1>7. HoldInv
  BY <1>1 DEF Init, HoldInv
<1> QED
  BY <1>4, <1>6, <1>7 DEF Base

(* Sequences that grow at the end or lose an end.                          *)
LEMMA SequenceSteps ==
  ASSUME NEW S, NEW q \in Seq(S), NEW x \in S
  PROVE  Append(q, x) \in Seq(S) /\ SubSeq(q, 1, Len(q) - 1) \in Seq(S)
<1>1. CASE q = <<>>
  BY <1>1, AppendProperties
<1>2. CASE q # <<>>
  BY <1>2, AppendProperties, TQP!FrontProperties
<1> QED
  BY <1>1, <1>2

(* What a call of the caller or the main thread does to the variables of   *)
(* this module, by the kinds of steps it consists of.                      *)
LEMMA QueuePacketTypes ==
  ASSUME TypeOK, NEW s \in Streams, NEW x \in PacketIds \cup {NullPacket},
         queue_packet(s, x)
  PROVE  /\ muxing_queue' \in [Streams -> Seq(PacketIds \cup {NullPacket})]
         /\ queueCap' \in [Streams -> Nat] /\ data_size' \in [Streams -> Nat]
         /\ taken' \in [Streams -> Seq(PacketIds)]
         /\ (main' = main /\ status' = status) \/ SubmitFails("run")
<1>0. /\ muxing_queue \in [Streams -> Seq(PacketIds \cup {NullPacket})]
      /\ queueCap \in [Streams -> Nat] /\ data_size \in [Streams -> Nat]
      /\ taken \in [Streams -> Seq(PacketIds)]
  BY DEF TypeOK
<1> DEFINE size == IF x = NullPacket THEN 0 ELSE 1
           full == Len(muxing_queue[s]) = queueCap[s]
           noSpace == full /\ GrownCap(s, size) <= queueCap[s]
           grown == [queueCap EXCEPT ![s] = IF full THEN GrownCap(s, size) ELSE @]
<1>1. \/ queueCap' = grown /\ Enqueue(s, x, size)
      \/ SubmitFails("run") /\ UNCHANGED <<queueVars, taken>>
      \/ queueCap' = grown /\ SubmitFails("run")
         /\ UNCHANGED <<muxing_queue, data_size, taken>>
  BY DEF queue_packet
<1>2. grown \in [Streams -> Nat] /\ size \in Nat
  <2>1. GrownCap(s, size) \in Nat
    BY <1>0, MuxAssumption DEF GrownCap
  <2> QED
    BY <1>0, <2>1
<1>3. CASE Enqueue(s, x, size)
  <2>1. Append(muxing_queue[s], x) \in Seq(PacketIds \cup {NullPacket})
    BY <1>0, SequenceSteps
  <2>2. x \in PacketIds => Append(taken[s], x) \in Seq(PacketIds)
    BY <1>0, SequenceSteps
  <2>3. x # NullPacket => x \in PacketIds
    OBVIOUS
  <2> HIDE DEF size
  <2>4. muxing_queue' \in [Streams -> Seq(PacketIds \cup {NullPacket})]
    BY <1>0, <1>3, <2>1 DEF Enqueue
  <2>5. data_size' \in [Streams -> Nat]
    BY <1>0, <1>2, <1>3 DEF Enqueue
  <2>6. taken' \in [Streams -> Seq(PacketIds)]
    BY <1>0, <1>3, <2>2, <2>3 DEF Enqueue
  <2>7. main' = main /\ status' = status
    BY <1>3 DEF Enqueue
  <2>8. queueCap' \in [Streams -> Nat]
    BY <1>0, <1>1, <1>2 DEF queueVars
  <2> QED
    BY <2>4, <2>5, <2>6, <2>7, <2>8
<1> HIDE DEF size, full, noSpace, grown
<1> QED
  BY <1>0, <1>1, <1>2, <1>3 DEF queueVars

(* Every step keeps the types.                                             *)
LEMMA StepTypes ==
  ASSUME Base, [Next]_vars
  PROVE  TypeOK'
<1> DEFINE Places  == {"run", "sent", "flush", "stop", "close", "closed"}
           Calls   == [stream : Streams \cup {-1}, from : {"run", "flush"}]
           Queues  == [Streams -> Seq(PacketIds \cup {NullPacket})]
           Files   == [Streams -> Seq(PacketIds)]
           Threads == {"none", "start", "receive", "write", "finish", "exit"}
           MainType   == /\ tq \in {"none", "up", "freed"} /\ main \in Places
                         /\ call \in Calls /\ idx \in 0 .. NbStreams
                         /\ initialized \subseteq Streams
                         /\ muxFinished \subseteq Streams
                         /\ exit_on_error \in BOOLEAN
                         /\ status \in {"ok", "error", "fatal"}
                         /\ trailer \in {"none", "pending", "written", "failed"}
           QueueType  == /\ muxing_queue \in Queues /\ queueCap \in [Streams -> Nat]
                         /\ data_size \in [Streams -> Nat]
           MuxType    == /\ thread \in Threads /\ refuseIdx \in 0 .. NbStreams
                         /\ threadRet \in {"ok", "error"} /\ fileFull \in BOOLEAN
                         /\ written \in Files
           HistType   == /\ calls \in [Streams -> Nat] /\ eofCalls \in [Streams -> Nat]
                         /\ taken \in Files
           Types == MainType /\ QueueType /\ MuxType /\ HistType
<1> SUFFICES Types'
  BY QueueKept DEF TypeOK
<1>0. Types /\ TypeOK
  BY DEF Base, TypeOK
<1>a. NoSubmit \in Calls /\ NbStreams \in Nat \ {0}
  BY MuxAssumption DEF NoSubmit
<1>b. ASSUME UNCHANGED mainVars PROVE MainType'
  BY <1>0, <1>b DEF mainVars
<1>c. ASSUME UNCHANGED queueVars PROVE QueueType'
  BY <1>0, <1>c DEF queueVars
<1>d. ASSUME UNCHANGED muxVars PROVE MuxType'
  BY <1>0, <1>d DEF muxVars
<1>e. ASSUME UNCHANGED histVars PROVE HistType'
  BY <1>0, <1>e DEF histVars
<1> HIDE DEF MainType, QueueType, MuxType, HistType
<1>1. ASSUME NEW s \in Streams, of_stream_init(s)
      PROVE  Types'
  <2>1. MainType'
    BY <1>0, <1>1, <1>a DEF of_stream_init, ExitProgram, MainType
  <2>2. MuxType'
    BY <1>0, <1>1 DEF of_stream_init, ExitProgram, MuxType
  <2> QED
    BY <1>1, <1>c, <1>e, <2>1, <2>2 DEF of_stream_init
<1>2. ASSUME NEW s \in Streams, of_output_packet(s)
      PROVE  Types'
  <2>1. PICK x \in PacketIds \cup {NullPacket} :
          /\ submit_packet(s, x)
          /\ calls' \in [Streams -> Nat] /\ eofCalls' \in [Streams -> Nat]
    <3>1. CASE calls[s] < MaxPackets /\ calls' = [calls EXCEPT ![s] = @ + 1]
               /\ submit_packet(s, calls'[s]) /\ UNCHANGED eofCalls
      <4>1. calls'[s] \in PacketIds
        BY <1>0, <3>1, CallFacts
      <4>2. calls' \in [Streams -> Nat] /\ eofCalls' \in [Streams -> Nat]
        BY <1>0, <3>1 DEF HistType
      <4> QED
        BY <3>1, <4>1, <4>2
    <3>2. CASE eofCalls' = [eofCalls EXCEPT ![s] = @ + 1] /\ UNCHANGED calls
               /\ submit_packet(s, NullPacket)
      BY <1>0, <3>2 DEF HistType
    <3> QED
      BY <1>2, <3>1, <3>2 DEF of_output_packet
  <2>2. main = "run" /\ MuxType'
        /\ UNCHANGED <<tq, idx, initialized, trailer, exit_on_error>>
    BY <1>2, <1>d DEF of_output_packet
  <2>3. CASE thread_submit_packet(s, x, "run") /\ UNCHANGED queueVars
    <3>1. QueueType'
      BY <2>3, <1>c
    <3>2. taken' \in Files
      <4>1. x \in PacketIds => Append(taken[s], x) \in Seq(PacketIds)
        BY <1>0, SequenceSteps DEF HistType
      <4> QED
        BY <1>0, <2>3, <4>1 DEF thread_submit_packet, SubmitEnd, SubmitSend, HistType
    <3>3. /\ main' \in Places /\ call' \in Calls /\ status' \in {"ok", "error", "fatal"}
          /\ muxFinished' \subseteq Streams
      BY <1>0, <2>3 DEF thread_submit_packet, SubmitEnd, SubmitSend, MainType
    <3> QED
      BY <1>0, <2>1, <2>2, <3>1, <3>2, <3>3 DEF MainType, HistType
  <2>4. CASE queue_packet(s, x) /\ UNCHANGED <<tqVars, call, muxFinished>>
    <3>1. main' \in Places /\ status' \in {"ok", "error", "fatal"}
      BY <1>0, <2>4, QueuePacketTypes DEF SubmitFails, ExitProgram, MainType
    <3>2. QueueType' /\ taken' \in Files
      BY <1>0, <2>4, QueuePacketTypes DEF QueueType
    <3> QED
      BY <1>0, <2>1, <2>2, <2>4, <3>1, <3>2 DEF MainType, HistType
  <2> QED
    BY <2>1, <2>3, <2>4 DEF submit_packet
<1>3. CASE of_write_trailer
  <2>1. MainType'
    BY <1>0, <1>3, <1>a DEF of_write_trailer, MainType
  <2> QED
    BY <1>3, <1>c, <1>d, <1>e, <2>1 DEF of_write_trailer
<1>4. CASE ResumeSend
  BY <1>4, <1>b, <1>c, <1>d, <1>e DEF ResumeSend
<1>5. CASE SendReturned
  <2>1. MainType'
    BY <1>0, <1>5, <1>a DEF SendReturned, MainType
  <2> QED
    BY <1>5, <1>c, <1>d, <1>e, <2>1 DEF SendReturned
<1>6. CASE SendFailed
  <2>1. call.stream \in Streams /\ call.from \in {"run", "flush"}
    BY <1>6, <1>0 DEF SendFailed, Base, HoldInv, MainType
  <2>2. taken' \in Files
    <3>1. SubSeq(taken[call.stream], 1, Len(taken[call.stream]) - 1) \in Seq(PacketIds)
      <4>1. CASE taken[call.stream] = <<>>
        BY <1>0, <4>1
      <4>2. CASE taken[call.stream] # <<>>
        BY <1>0, <2>1, <4>2, TQP!FrontProperties DEF HistType
      <4> QED
        BY <4>1, <4>2
    <3> QED
      BY <1>0, <1>6, <2>1, <3>1 DEF SendFailed, HistType
  <2>3. main' \in Places /\ status' \in {"ok", "error", "fatal"}
        /\ muxFinished' \subseteq Streams
    BY <1>0, <1>6, <2>1 DEF SendFailed, SubmitFails, ExitProgram, MainType
  <2> QED
    <3>1. MainType'
      BY <1>0, <1>6, <1>a, <2>3 DEF SendFailed, MainType
    <3>2. HistType'
      BY <1>0, <1>6, <2>2 DEF SendFailed, HistType
    <3> QED
      BY <1>6, <1>c, <1>d, <3>1, <3>2 DEF SendFailed
<1>7. CASE FlushPacket
  <2>1. idx \in Streams
    BY <1>0, <1>7, LoopFacts DEF FlushPacket, MainType
  <2>2. Tail(muxing_queue[idx]) \in Seq(PacketIds \cup {NullPacket})
    BY <1>0, <1>7, <2>1, QueueHead DEF FlushPacket
  <2>3. QueueType'
    BY <1>0, <1>7, <2>1, <2>2 DEF FlushPacket, QueueType
  <2>4. UNCHANGED histVars
    <3>1. taken' = taken
      BY <1>7 DEF FlushPacket, thread_submit_packet, SubmitEnd
    <3> QED
      BY <1>7, <3>1 DEF FlushPacket, histVars
  <2>5. main' \in Places /\ call' \in Calls /\ status' \in {"ok", "error", "fatal"}
        /\ muxFinished' \subseteq Streams
    <3>1. SubmitEnd(idx, "flush")
          \/ SubmitSend(idx, Head(muxing_queue[idx]), "flush")
      BY <1>7 DEF FlushPacket, thread_submit_packet
    <3>2. [stream |-> idx, from |-> "flush"] \in Calls
      BY <2>1
    <3> QED
      BY <1>0, <2>1, <3>1, <3>2 DEF SubmitEnd, SubmitSend, MainType
  <2> QED
    <3>1. MainType'
      BY <1>0, <1>7, <2>5 DEF FlushPacket, MainType
    <3> QED
      BY <1>7, <1>d, <1>e, <2>3, <2>4, <3>1 DEF FlushPacket
<1>8. CASE FlushNext
  <2>1. MainType'
    BY <1>0, <1>8, LoopFacts DEF FlushNext, MainType
  <2> QED
    BY <1>8, <1>c, <1>d, <1>e, <2>1 DEF FlushNext
<1>9. CASE StopStream
  <2>1. MainType'
    BY <1>0, <1>9, LoopFacts DEF StopStream, MainType
  <2> QED
    BY <1>9, <1>c, <1>d, <1>e, <2>1 DEF StopStream
<1>10. CASE JoinThread
  <2>1. MainType'
    BY <1>0, <1>10 DEF JoinThread, main_return_code, MainType
  <2> QED
    BY <1>10, <1>c, <1>d, <1>e, <2>1 DEF JoinThread
<1>11. CASE of_close
  <2>1. muxing_queue' \in Queues
    <3>1. <<>> \in Seq(PacketIds \cup {NullPacket})
      OBVIOUS
    <3> QED
      BY <1>0, <1>11, <3>1 DEF of_close, QueueType
  <2> QED
    <3>1. MainType'
      BY <1>0, <1>11, <1>a DEF of_close, MainType
    <3>2. QueueType'
      BY <1>0, <1>11, <2>1 DEF of_close, QueueType
    <3> QED
      BY <1>11, <1>d, <1>e, <3>1, <3>2 DEF of_close
<1>12. CASE ThreadStarts
  <2>1. MuxType'
    BY <1>0, <1>12, <1>a DEF ThreadStarts, ThreadEnds, MuxType
  <2> QED
    BY <1>12, <1>b, <1>c, <1>e, <2>1 DEF ThreadStarts
<1>13. CASE ThreadReceives
  <2>1. MuxType'
    BY <1>0, <1>13, <1>a DEF ThreadReceives, ThreadEnds, MuxType
  <2> QED
    BY <1>13, <1>b, <1>c, <1>e, <2>1 DEF ThreadReceives
<1>14. CASE write_packet
  <2>1. Append(written[got.stream], got.item) \in Seq(PacketIds)
    BY <1>0, <1>14, SequenceSteps DEF write_packet, Base, HoldInv, MuxType
  <2>2. written' \in Files
    BY <1>0, <1>14, <2>1 DEF write_packet, MuxType
  <2>3. MuxType'
    BY <1>0, <1>14, <1>a, <2>2 DEF write_packet, ThreadEnds, MuxType
  <2> QED
    BY <1>14, <1>b, <1>c, <1>e, <2>3 DEF write_packet
<1>15. CASE RefuseStream
  <2>1. MuxType'
    BY <1>0, <1>15 DEF RefuseStream, MuxType
  <2> QED
    BY <1>15, <1>b, <1>c, <1>e, <2>1 DEF RefuseStream
<1>16. CASE ThreadFinishes
  <2>1. MuxType'
    BY <1>0, <1>16, LoopFacts DEF ThreadFinishes, MuxType
  <2> QED
    BY <1>16, <1>b, <1>c, <1>e, <2>1 DEF ThreadFinishes
<1>17. CASE UNCHANGED vars
  BY <1>17, <1>b, <1>c, <1>d, <1>e DEF vars
<1> QED
  BY <1>1, <1>2, <1>3, <1>4, <1>5, <1>6, <1>7, <1>8, <1>9, <1>10, <1>11, <1>12,
     <1>13, <1>14, <1>15, <1>16, <1>17 DEF Next, CallerStep, MainStep, ThreadStep, Closed

-----------------------------------------------------------------------------
(* What a send leaves alone.                                               *)
LEMMA SendSide ==
  ASSUME NEW s, NEW x
  PROVE  /\ TQ!SendLoop(Main, s, x)
              => UNCHANGED <<got, received, recvFinished, eofs>>
         /\ TQ!tq_send(Main, s, x)
              => UNCHANGED <<got, received, recvFinished, eofs>>
         /\ TQ!tq_send_finish(Main, s)
              => UNCHANGED <<got, received, recvFinished, eofs, accepted, fifo,
                             content, pending, ret>>
<1>1. TQ!SendLoop(Main, s, x) => UNCHANGED <<got, received, recvFinished, eofs>>
  BY DEF TQ!SendLoop, TQ!SendWait, TQ!SendEof, TQ!SendWrite, TQ!SendNoMemory,
     TQ!queueVars, TQ!flagVars
<1>2. TQ!tq_send(Main, s, x) => UNCHANGED <<got, received, recvFinished, eofs>>
  BY <1>1 DEF TQ!tq_send, TQ!queueVars, TQ!flagVars
<1>3. TQ!tq_send_finish(Main, s)
        => UNCHANGED <<got, received, recvFinished, eofs, accepted, fifo, content,
                       pending, ret>>
  BY DEF TQ!tq_send_finish, TQ!queueVars
<1> QED
  BY <1>1, <1>2, <1>3

(* What the main thread leaves alone of the muxer thread's state.          *)
LEMMA MainSide ==
  ASSUME CallerStep \/ MainStep
  PROVE  /\ UNCHANGED <<got, received, recvFinished, refuseIdx, threadRet, written>>
         /\ \/ UNCHANGED <<thread, fileFull>>
            \/ /\ \E s \in Streams : of_stream_init(s)
               /\ thread' = "start" /\ tq' = "up" /\ main' = "flush"
<1>1. ASSUME NEW s \in Streams, of_output_packet(s)
      PROVE  UNCHANGED <<got, received, recvFinished, muxVars>>
  <2>1. UNCHANGED muxVars
    BY <1>1 DEF of_output_packet
  <2>2. PICK x : submit_packet(s, x)
    BY <1>1 DEF of_output_packet
  <2>3. UNCHANGED <<got, received, recvFinished>>
    BY <2>2, SendSide DEF submit_packet, thread_submit_packet, SubmitEnd, SubmitSend,
       tqVars
  <2> QED
    BY <2>1, <2>3
<1>2. ASSUME NEW s \in Streams, of_stream_init(s)
      PROVE  /\ UNCHANGED <<got, received, recvFinished, refuseIdx, threadRet, written>>
             /\ \/ UNCHANGED <<thread, fileFull>>
                \/ thread' = "start" /\ tq' = "up" /\ main' = "flush"
  BY <1>2 DEF of_stream_init, tqVars
<1>3. CASE ResumeSend
  BY <1>3, SendSide DEF ResumeSend, TQ!ResumeSend, muxVars
<1>4. CASE SendFailed
  BY <1>4, SendSide DEF SendFailed, muxVars
<1>5. CASE FlushPacket
  BY <1>5, SendSide DEF FlushPacket, thread_submit_packet, SubmitEnd, SubmitSend, muxVars
<1>6. CASE StopStream
  BY <1>6, SendSide DEF StopStream, muxVars
<1>7. CASE JoinThread
  BY <1>7 DEF JoinThread, TQ!tq_free, TQ!flagVars, muxVars
<1>8. CASE of_write_trailer \/ SendReturned \/ FlushNext \/ of_close
  BY <1>8 DEF of_write_trailer, SendReturned, FlushNext, of_close, tqVars, muxVars
<1> QED
  BY <1>1, <1>2, <1>3, <1>4, <1>5, <1>6, <1>7, <1>8 DEF CallerStep, MainStep, muxVars

(* What the muxer thread leaves alone of the main thread's state.          *)
LEMMA ThreadSide ==
  ASSUME ThreadStep
  PROVE  /\ UNCHANGED <<mainVars, queueVars, histVars>>
         /\ UNCHANGED <<accepted, sendFinished, pending, ret>>
<1>1. CASE ThreadReceives
  <2>1. UNCHANGED <<accepted, sendFinished, pending, ret>>
    BY <1>1 DEF ThreadReceives, TQ!tq_receive, TQ!ReceiveItem, TQ!ReceiveStreamEof,
       TQ!ReceiveDone, TQ!ReceiveWait, TQ!queueVars, TQ!flagVars
  <2> QED
    BY <1>1, <2>1 DEF ThreadReceives
<1>2. CASE RefuseStream \/ ThreadFinishes
  BY <1>2 DEF RefuseStream, ThreadFinishes, TQ!tq_receive_finish, TQ!queueVars, tqVars
<1>3. CASE ThreadStarts \/ write_packet
  BY <1>3 DEF ThreadStarts, write_packet, tqVars
<1> QED
  BY <1>1, <1>2, <1>3 DEF ThreadStep

(* A stutter, the main thread or the muxer thread.                         *)
LEMMA WhoSteps ==
  ASSUME [Next]_vars
  PROVE  UNCHANGED vars \/ CallerStep \/ MainStep \/ ThreadStep
  BY DEF Next, Closed

(* What the muxer thread got when it goes to write.                        *)
LEMMA Received ==
  ASSUME Base, ThreadReceives, thread' = "write"
  PROVE  /\ got'.stream \in Streams /\ got'.item \in PacketIds
         /\ got' = [code |-> "ok", stream |-> got'.stream, item |-> got'.item]
         /\ received' = Append(received, [stream |-> got'.stream, item |-> got'.item])
<1>1. thread = "receive" /\ got'.code = "ok"
  BY DEF ThreadReceives, ThreadEnds
<1>2. TQ!ReceiveItem
  BY <1>1 DEF ThreadReceives, TQ!tq_receive, TQ!ReceiveStreamEof, TQ!ReceiveDone,
     TQ!ReceiveWait, TQ!Blocked
<1>3. tq = "up"
  BY <1>1 DEF Base, PlaceInv, TypeOK
<1>4. TQP!TypeOK /\ TQP!ObjectsNotShared
  BY <1>3 DEF Base, HoldInv, TQP!IInv
<1>5. fifo # <<>>
  BY <1>2 DEF TQ!ReceiveItem
<1>6. Head(fifo).stream \in TQP!Streams /\ content[Head(fifo).obj] \in PacketIds
  BY <1>4, <1>5, QueueAssumptions, TQP!HeadOfFifo
<1>7. TQP!Streams = Streams
  BY DEF TQP!Streams, Streams
<1>8. /\ got' = [code |-> "ok", stream |-> Head(fifo).stream,
                 item |-> content[Head(fifo).obj]]
      /\ received' = Append(received, [stream |-> Head(fifo).stream,
                                       item |-> content[Head(fifo).obj]])
  BY <1>2 DEF TQ!ReceiveItem
<1> QED
  BY <1>6, <1>7, <1>8

(* Whether there is a queue and a thread still fits the main thread.       *)
LEMMA StepPlace ==
  ASSUME Base, [Next]_vars
  PROVE  PlaceInv'
<1>a. tq' # "none" => initialized' = Streams
  <2>1. CASE UNCHANGED vars \/ ThreadStep
    BY <2>1, ThreadSide DEF vars, mainVars, Base, PlaceInv
  <2>2. CASE CallerStep \/ MainStep
    <3>1. CASE \E s \in Streams : of_stream_init(s)
      <4>1. tq' # tq => initialized' = Streams
        BY <3>1 DEF of_stream_init
      <4>2. tq # "none" => ~\E s \in Streams : of_stream_init(s)
        BY DEF Base, PlaceInv, of_stream_init
      <4> QED
        BY <3>1, <4>1, <4>2
    <3>2. CASE ~\E s \in Streams : of_stream_init(s)
      <4>1. initialized' = initialized /\ (tq' = tq \/ JoinThread)
        BY <2>2, <3>2 DEF CallerStep, MainStep, of_output_packet, of_write_trailer,
           ResumeSend, SendReturned, SendFailed, FlushPacket, FlushNext, StopStream,
           JoinThread, of_close, mainVars
      <4> QED
        BY <4>1, QueueState DEF Base, PlaceInv
    <3> QED
      BY <3>1, <3>2
  <2> QED
    BY <2>1, <2>2, WhoSteps
<1> DEFINE Idle == /\ live = {} /\ accepted = <<>> /\ sendFinished = {}
                   /\ pending[Main] = TQ!NoCall
           Places == /\ tq = "none" => /\ thread = "none" /\ Idle
                                       /\ main \in {"run", "close", "closed"}
                                       /\ ~fileFull /\ muxFinished = {}
                     /\ tq = "up" => thread # "none" /\ main # "closed"
                     /\ tq = "freed" => /\ thread = "exit" /\ live = {}
                                        /\ main \in {"close", "closed"}
                     /\ main = "closed" => \A s \in Streams : muxing_queue[s] = <<>>
<1> SUFFICES Places'
  BY <1>a DEF PlaceInv
<1>0. PlaceInv /\ tq \in {"none", "up", "freed"}
  BY DEF Base, TypeOK
<1>1. CASE tq = "none"
  <2>1. /\ main \in {"run", "close", "closed"} /\ thread = "none"
        /\ Idle /\ ~fileFull /\ muxFinished = {}
    BY <1>0, <1>1 DEF PlaceInv
  <2>2. \/ UNCHANGED vars
        \/ \E s \in Streams : of_stream_init(s)
        \/ \E s \in Streams : of_output_packet(s) /\ UNCHANGED tqVars
        \/ of_write_trailer
        \/ of_close
    BY <1>1, <2>1 DEF Next, CallerStep, MainStep, ThreadStep, Closed,
       of_output_packet, submit_packet, ResumeSend, SendReturned, SendFailed,
       FlushPacket, FlushNext, StopStream, JoinThread, ThreadStarts, ThreadReceives,
       write_packet, RefuseStream, ThreadFinishes
  <2>3. UNCHANGED tqVars => Idle'
    BY <2>1 DEF tqVars, TQ!NoCall
  <2>4. CASE UNCHANGED vars
    BY <1>0, <2>4 DEF vars, tqVars, mainVars, queueVars, muxVars, PlaceInv, TQ!NoCall
  <2>5. ASSUME NEW s \in Streams, of_stream_init(s)
        PROVE  Places'
    BY <1>1, <2>1, <2>3, <2>5 DEF of_stream_init, ExitProgram, PlaceInv, TQ!NoCall
  <2>6. ASSUME NEW s \in Streams, of_output_packet(s), UNCHANGED tqVars
        PROVE  Places'
    <3>1. PICK x : queue_packet(s, x) /\ muxFinished' = muxFinished
      BY <1>1, <2>6 DEF of_output_packet, submit_packet
    <3>2. main' \in {"run", "close"}
      BY <2>6, <3>1 DEF of_output_packet, queue_packet, Enqueue, SubmitFails, ExitProgram
    <3>3. UNCHANGED <<tq, thread, fileFull>>
      BY <2>6 DEF of_output_packet, muxVars
    <3> QED
      BY <1>1, <2>1, <2>3, <2>6, <3>1, <3>2, <3>3 DEF PlaceInv, TQ!NoCall
  <2>7. CASE of_write_trailer
    BY <1>1, <2>1, <2>3, <2>7 DEF of_write_trailer, PlaceInv, muxVars, TQ!NoCall
  <2>8. CASE of_close
    BY <1>1, <2>1, <2>3, <2>8 DEF of_close, PlaceInv, muxVars, TQ!NoCall
  <2> QED
    BY <2>2, <2>4, <2>5, <2>6, <2>7, <2>8
<1>2. CASE tq = "up"
  <2>0. thread # "none" /\ main # "closed"
    BY <1>0, <1>2 DEF PlaceInv
  <2>1. CASE JoinThread
    BY <2>1, <1>2, QueueState, QueueKept DEF JoinThread, PlaceInv
  <2>2. CASE ThreadStep
    <3>1. thread' # "none" /\ tq' = tq /\ main' = main
      BY <2>2, ThreadSide DEF mainVars, ThreadStep, ThreadStarts, ThreadEnds,
         ThreadReceives, write_packet, RefuseStream, ThreadFinishes
    <3> QED
      BY <1>2, <2>0, <3>1 DEF PlaceInv
  <2>3. CASE UNCHANGED vars
    BY <1>2, <2>0, <2>3 DEF vars, mainVars, muxVars, PlaceInv
  <2>4. CASE (CallerStep \/ MainStep) /\ ~JoinThread
    <3>1. thread' # "none"
      BY <2>0, <2>4, MainSide
    <3>2. tq' = "up" /\ main' # "closed"
      <4>1. ASSUME NEW s \in Streams, of_output_packet(s)
            PROVE  tq' = "up" /\ main' # "closed"
        BY <4>1, <1>2 DEF of_output_packet, submit_packet, thread_submit_packet,
           SubmitEnd, SubmitSend
      <4>2. ASSUME SendFailed
            PROVE  tq' = "up" /\ main' # "closed"
        BY <4>2, <1>2 DEF SendFailed, SubmitFails, ExitProgram, Base, TypeOK
      <4>3. ASSUME SendReturned
            PROVE  tq' = "up" /\ main' # "closed"
        BY <4>3, <1>2 DEF SendReturned, Base, TypeOK
      <4> QED
        BY <1>2, <2>0, <2>4, <4>1, <4>2, <4>3
           DEF CallerStep, MainStep, of_stream_init, ExitProgram, of_write_trailer,
           ResumeSend, FlushPacket, thread_submit_packet, SubmitEnd, SubmitSend,
           FlushNext, StopStream, of_close, mainVars
    <3> QED
      BY <3>1, <3>2 DEF PlaceInv
  <2> QED
    BY <2>1, <2>2, <2>3, <2>4, WhoSteps
<1>3. CASE tq = "freed"
  <2>1. tq' = tq /\ live' = live /\ main \in {"close", "closed"} /\ thread = "exit"
        /\ live = {}
    BY <1>0, <1>3, QueueState DEF PlaceInv, TQP!vars
  <2>2. UNCHANGED vars \/ of_close
    BY <1>3, AfterFree
  <2>3. CASE UNCHANGED vars
    BY <1>0, <1>3, <2>1, <2>3 DEF vars, mainVars, queueVars, muxVars, PlaceInv
  <2>4. CASE of_close
    BY <1>3, <2>1, <2>4 DEF of_close, PlaceInv, muxVars
  <2> QED
    BY <2>2, <2>3, <2>4
<1> QED
  BY <1>0, <1>1, <1>2, <1>3

(* What the threads hold still names a stream and a packet.                *)
LEMMA StepHold ==
  ASSUME Base, [Next]_vars
  PROVE  HoldInv'
<1>0. HoldInv
  BY DEF Base
<1>1. tq' # "freed" => TQP!IInv'
  BY QueueKept
<1>2. main' = "sent" => call'.stream \in Streams
  <2>1. CASE UNCHANGED vars \/ ThreadStep
    BY <1>0, <2>1, ThreadSide DEF vars, mainVars, HoldInv
  <2>2. ASSUME NEW s \in Streams, of_output_packet(s), main' = "sent"
        PROVE  call'.stream \in Streams
    <3>1. PICK x : submit_packet(s, x) /\ main = "run"
      BY <2>2 DEF of_output_packet
    <3>2. SubmitSend(s, x, "run")
      BY <2>2, <3>1 DEF submit_packet, thread_submit_packet, SubmitEnd, queue_packet,
         Enqueue, SubmitFails, ExitProgram
    <3> QED
      BY <3>2 DEF SubmitSend
  <2>3. ASSUME FlushPacket, main' = "sent"
        PROVE  call'.stream \in Streams
    <3>1. idx \in Streams
      BY <2>3, LoopFacts DEF FlushPacket, Base, TypeOK
    <3> QED
      BY <2>3, <3>1 DEF FlushPacket, thread_submit_packet, SubmitEnd, SubmitSend
  <2>4. CASE ResumeSend
    BY <1>0, <2>4 DEF ResumeSend, mainVars, HoldInv
  <2>5. ASSUME NEW s \in Streams, of_stream_init(s)
        PROVE  main' # "sent"
    BY <2>5 DEF of_stream_init, ExitProgram
  <2>6. ASSUME SendFailed \/ SendReturned
        PROVE  main' # "sent"
    BY <2>6 DEF SendFailed, SendReturned, SubmitFails, ExitProgram, Base, TypeOK
  <2>7. ASSUME of_write_trailer \/ FlushNext \/ StopStream \/ JoinThread \/ of_close
        PROVE  main' # "sent"
    BY <2>7 DEF of_write_trailer, FlushNext, StopStream, JoinThread, of_close
  <2> QED
    BY <2>1, <2>2, <2>3, <2>4, <2>5, <2>6, <2>7, WhoSteps DEF CallerStep, MainStep
<1>3. thread' = "write" => got'.stream \in Streams /\ got'.item \in PacketIds
  <2>1. CASE UNCHANGED vars
    BY <1>0, <2>1 DEF vars, tqVars, muxVars, HoldInv
  <2>2. CASE CallerStep \/ MainStep
    BY <1>0, <2>2, MainSide DEF HoldInv
  <2>3. ASSUME ThreadStep, thread' = "write"
        PROVE  ThreadReceives
    BY <2>3 DEF ThreadStep, ThreadStarts, ThreadEnds, write_packet, RefuseStream,
       ThreadFinishes
  <2> QED
    BY <2>1, <2>2, <2>3, Received, WhoSteps
<1> QED
  BY <1>1, <1>2, <1>3 DEF HoldInv

(* The places and types hold in every reachable state.                     *)
LEMMA Placed == Spec => []Base
<1>1. Base /\ [Next]_vars => Base'
  BY StepTypes, StepPlace, StepHold DEF Base
<1> QED
  BY InitBase, <1>1, PTL DEF Spec

(* of_stream_init .. of_close, muxer_thread: every variable keeps its type.*)
THEOREM TypeCorrect == Spec => []TypeOK
<1>1. Base => TypeOK
  BY DEF Base
<1> QED
  BY <1>1, Placed, PTL

(* thread_stop, tq_free, ost_free: when the file is closed, the thread is  *)
(* gone and nothing is left in either queue or of its packets.             *)
THEOREM ClosedIsEmpty == Spec => []NothingLeft
<1>1. Base => NothingLeft
  BY DEF Base, TypeOK, PlaceInv, NothingLeft
<1> QED
  BY <1>1, Placed, PTL

-----------------------------------------------------------------------------
(* One muxing queue: n packets in room for c, of size d, after e ends.     *)
Bounded(n, c, d, e) ==
  /\ n <= c /\ c # 0
  /\ c <= InitCap \/ c <= MaxQueue \/ c <= 2 * (Threshold + MaxEofs - 1)
  /\ n <= d + e /\ e <= MaxEofs

(* A queue that is full grows by queue_packet's rule, and one packet more  *)
(* fits.                                                                   *)
LEMMA GrowthBounded ==
  ASSUME NEW n \in Nat, NEW c \in Nat, NEW d \in Nat, NEW e \in Nat, NEW z \in {0, 1},
         NEW g \in Nat, Bounded(n, c, d, e),
         IF d + z > Threshold /\ 2 * c > MaxQueue THEN g = MaxQueue ELSE g = 2 * c,
         z = 1 => e = 0, z = 0 => e < MaxEofs,
         n = c => g > c
  PROVE  LET k == IF n = c THEN g ELSE c
             f == IF z = 0 THEN e + 1 ELSE e
         IN  Bounded(n + 1, k, d + z, f) /\ Bounded(n, k, d, f)
  BY MuxAssumption DEF Bounded

(* Before anything is queued.                                              *)
LEMMA InitCapInv == Init => CapInv
  BY MuxAssumption DEF Init, CapInv

(* Every step keeps the muxing queues within their bounds.                 *)
LEMMA StepCapInv ==
  ASSUME Base, CapInv, [Next]_vars
  PROVE  CapInv'
<1> DEFINE B(s) == Bounded(Len(muxing_queue[s]), queueCap[s], data_size[s], eofCalls[s])
<1>0. /\ muxing_queue \in [Streams -> Seq(PacketIds \cup {NullPacket})]
      /\ queueCap \in [Streams -> Nat] /\ data_size \in [Streams -> Nat]
      /\ calls \in [Streams -> Nat] /\ eofCalls \in [Streams -> Nat]
  BY DEF Base, TypeOK
<1>a. \A s \in Streams : B(s)
  BY DEF CapInv, Bounded
<1> SUFFICES ASSUME NEW r \in Streams PROVE B(r)'
  BY DEF CapInv, Bounded
<1>b. ASSUME UNCHANGED <<muxing_queue, queueCap, data_size, eofCalls>>
      PROVE  B(r)'
  BY <1>a, <1>b
<1>c. /\ Len(muxing_queue[r]) \in Nat /\ queueCap[r] \in Nat /\ data_size[r] \in Nat
      /\ eofCalls[r] \in Nat /\ InitCap \in Nat
  BY <1>0, MuxAssumption, LenProperties
<1>d. ASSUME muxing_queue'[r] = <<>>, UNCHANGED <<queueCap, data_size, eofCalls>>
      PROVE  B(r)'
  <2>1. Len(muxing_queue'[r]) = 0
    BY <1>d
  <2> QED
    BY <1>a, <1>c, <1>d, <2>1 DEF Bounded
<1>1. ASSUME NEW s \in Streams, of_output_packet(s)
      PROVE  B(r)'
  <2>1. CASE UNCHANGED <<queueVars, eofCalls>>
    BY <1>b, <2>1 DEF queueVars
  <2>2. CASE r # s
    <3>1. eofCalls'[r] = eofCalls[r]
      BY <1>0, <1>1, <2>2 DEF of_output_packet
    <3>2. PICK x : submit_packet(s, x)
      BY <1>1 DEF of_output_packet
    <3>3. /\ muxing_queue'[r] = muxing_queue[r] /\ queueCap'[r] = queueCap[r]
          /\ data_size'[r] = data_size[r]
      BY <1>0, <2>2, <3>2 DEF submit_packet, queue_packet, Enqueue, queueVars
    <3> QED
      BY <1>a, <3>1, <3>3
  <2>3. CASE r = s
    <3>1. PICK x \in PacketIds \cup {NullPacket} :
            /\ submit_packet(s, x)
            /\ x # NullPacket => eofCalls[s] = 0 /\ eofCalls'[s] = eofCalls[s]
            /\ x = NullPacket => eofCalls[s] < MaxEofs
                                 /\ eofCalls'[s] = eofCalls[s] + 1
      <4>1. CASE eofCalls[s] = 0 /\ calls[s] < MaxPackets /\ UNCHANGED eofCalls
                 /\ calls' = [calls EXCEPT ![s] = @ + 1] /\ submit_packet(s, calls'[s])
        <5>1. calls'[s] \in PacketIds /\ calls'[s] # NullPacket
          BY <4>1, CallFacts, QueueAssumptions DEF Base
        <5> QED
          BY <4>1, <5>1
      <4>2. CASE eofCalls[s] < MaxEofs /\ submit_packet(s, NullPacket)
                 /\ eofCalls' = [eofCalls EXCEPT ![s] = @ + 1]
        BY <1>0, <4>2
      <4> QED
        BY <1>1, <4>1, <4>2 DEF of_output_packet
    <3> DEFINE n == Len(muxing_queue[s])
               c == queueCap[s]
               d == data_size[s]
               e == eofCalls[s]
               z == IF x = NullPacket THEN 0 ELSE 1
               g == GrownCap(s, z)
               k == IF n = c THEN g ELSE c
               f == IF z = 0 THEN e + 1 ELSE e
    <3>2. n \in Nat /\ c \in Nat /\ d \in Nat /\ e \in Nat /\ z \in {0, 1} /\ g \in Nat
      BY <1>0, <1>c, <2>3, MuxAssumption DEF GrownCap
    <3>3. /\ IF d + z > Threshold /\ 2 * c > MaxQueue THEN g = MaxQueue ELSE g = 2 * c
          /\ z = 1 => e = 0
          /\ z = 0 => e < MaxEofs
          /\ eofCalls'[s] = f
      BY <3>1 DEF GrownCap
    <3>4. Bounded(n, c, d, e)
      BY <1>a
    <3> HIDE DEF n, c, d, e, z, g
    <3>5. ASSUME n = c => g > c
          PROVE  Bounded(n + 1, k, d + z, f) /\ Bounded(n, k, d, f)
      BY <3>2, <3>3, <3>4, <3>5, GrowthBounded
    <3>6. Bounded(n, c, d, f)
      BY <3>2, <3>3, <3>4, MuxAssumption DEF Bounded
    <3>7. \/ UNCHANGED <<muxing_queue, queueCap, data_size>>
          \/ /\ n = c => g > c
             /\ queueCap'[s] = k
             /\ \/ /\ muxing_queue'[s] = Append(muxing_queue[s], x)
                   /\ data_size'[s] = d + z
                \/ UNCHANGED <<muxing_queue, data_size>>
      <4>1. CASE UNCHANGED queueVars
        BY <4>1 DEF queueVars
      <4>2. ~(n = c /\ g <= c) => (n = c => g > c)
        BY <3>2
      <4> USE DEF n, c, d, z, g
      <4>3. CASE /\ ~(n = c /\ g <= c)
                 /\ queueCap' = [queueCap EXCEPT ![s] = IF n = c THEN g ELSE @]
                 /\ Enqueue(s, x, z) \/ UNCHANGED <<muxing_queue, data_size>>
        <5>1. queueCap'[s] = k
          BY <1>0, <4>3
        <5> QED
          BY <1>0, <4>2, <4>3, <5>1 DEF Enqueue
      <4> QED
        BY <3>1, <4>1, <4>3 DEF submit_packet, queue_packet
    <3>8. muxing_queue'[s] = Append(muxing_queue[s], x) => Len(muxing_queue'[s]) = n + 1
      BY <1>0, AppendProperties DEF n
    <3> HIDE DEF k, f
    <3>9. B(s)'
      BY <3>3, <3>5, <3>6, <3>7, <3>8 DEF n, c, d
    <3> QED
      BY <2>3, <3>9
  <2> QED
    BY <2>1, <2>2, <2>3
<1>2. CASE FlushPacket
  <2>1. CASE idx = r
    <3>1. muxing_queue'[r] = Tail(muxing_queue[r]) /\ muxing_queue[r] # <<>>
          /\ UNCHANGED <<queueCap, data_size, eofCalls>>
      BY <1>0, <1>2, <2>1 DEF FlushPacket
    <3>2. Len(muxing_queue'[r]) \in Nat
          /\ Len(muxing_queue'[r]) = Len(muxing_queue[r]) - 1
      BY <1>0, <1>c, <3>1, HeadTailProperties
    <3> QED
      BY <1>a, <1>c, <3>1, <3>2 DEF Bounded
  <2>2. CASE idx # r
    <3>1. muxing_queue'[r] = muxing_queue[r]
          /\ UNCHANGED <<queueCap, data_size, eofCalls>>
      BY <1>0, <1>2, <2>2 DEF FlushPacket
    <3> QED
      BY <1>a, <3>1
  <2> QED
    BY <2>1, <2>2
<1>3. CASE of_close
  <2>1. CASE muxing_queue' = [s \in Streams |-> <<>>]
    BY <1>3, <1>d, <2>1 DEF of_close, histVars
  <2>2. CASE UNCHANGED muxing_queue
    BY <1>3, <1>b, <2>2 DEF of_close, histVars
  <2> QED
    BY <1>3, <2>1, <2>2 DEF of_close
<1>4. ASSUME NEW s \in Streams, of_stream_init(s)
      PROVE  B(r)'
  BY <1>b, <1>4 DEF of_stream_init, queueVars, histVars
<1>5. CASE of_write_trailer \/ ResumeSend \/ SendReturned \/ SendFailed \/ FlushNext
           \/ StopStream \/ JoinThread
  BY <1>b, <1>5 DEF of_write_trailer, ResumeSend, SendReturned, SendFailed, FlushNext,
     StopStream, JoinThread, queueVars, histVars
<1>6. CASE ThreadStep
  BY <1>b, <1>6, ThreadSide DEF queueVars, histVars
<1>7. CASE UNCHANGED vars
  BY <1>b, <1>7 DEF vars, queueVars, histVars
<1> QED
  BY <1>1, <1>2, <1>3, <1>4, <1>5, <1>6, <1>7, WhoSteps DEF CallerStep, MainStep

(* queue_packet: how long a muxing queue gets.                             *)
THEOREM QueueStaysBounded == Spec => []MuxingQueueBounded
<1>1. Base /\ CapInv /\ [Next]_vars => CapInv'
  BY StepCapInv
<1>2. Base /\ CapInv => MuxingQueueBounded
  <2> SUFFICES ASSUME Base, CapInv, NEW s \in Streams
               PROVE  \/ Len(muxing_queue[s]) <= InitCap
                      \/ Len(muxing_queue[s]) <= MaxQueue
                      \/ Len(muxing_queue[s]) <= 2 * (Threshold + MaxEofs - 1)
    BY DEF MuxingQueueBounded
  <2>1. Len(muxing_queue[s]) \in Nat /\ queueCap[s] \in Nat
    BY LenProperties DEF Base, TypeOK
  <2> QED
    BY <2>1, MuxAssumption DEF CapInv
<1> QED
  BY InitCapInv, <1>1, <1>2, Placed, PTL DEF Spec

-----------------------------------------------------------------------------
(* The packets of a sequence that grows at its end ...                     *)
LEMMA AppendIds ==
  ASSUME NEW S \in SUBSET Nat, NEW q \in Seq(S), NEW x \in S
  PROVE  /\ Ids(Append(q, x)) = Ids(q) \cup {x}
         /\ Append(q, x) # <<>> /\ Last(Append(q, x)) = x
         /\ Increasing(q) /\ (\A y \in Ids(q) : y < x) => Increasing(Append(q, x))
<1> DEFINE n == Len(q)
           p == Append(q, x)
<1>1. /\ n \in Nat /\ DOMAIN q = 1 .. n /\ DOMAIN p = 1 .. n + 1
      /\ p[n + 1] = x /\ \A i \in 1 .. n : p[i] = q[i]
  BY AppendProperties, LenProperties
<1>2. p # <<>> /\ Last(p) = x
  BY AppendProperties, LenProperties DEF Last
<1> HIDE DEF n, p
<1>3. \A i \in DOMAIN q : i \in DOMAIN p /\ p[i] = q[i]
  BY <1>1
<1>4. \A i \in DOMAIN p : i \in DOMAIN q \/ i = n + 1
  BY <1>1
<1>5. Ids(p) \subseteq Ids(q) \cup {x}
  BY <1>1, <1>3, <1>4 DEF Ids
<1>6. Ids(q) \cup {x} \subseteq Ids(p)
  <2>1. n + 1 \in DOMAIN p
    BY <1>1
  <2> QED
    BY <1>1, <1>3, <2>1 DEF Ids
<1>7. ASSUME Increasing(q), \A y \in Ids(q) : y < x
      PROVE  Increasing(p)
  <2> SUFFICES ASSUME NEW i \in DOMAIN p, NEW j \in DOMAIN p, i < j
               PROVE  p[i] < p[j]
    BY DEF Increasing
  <2>1. i \in DOMAIN q
    BY <1>1, <1>4
  <2>2. CASE j \in DOMAIN q
    BY <1>3, <1>7, <2>1, <2>2 DEF Increasing
  <2>3. CASE j = n + 1
    BY <1>1, <1>3, <1>7, <2>1, <2>3 DEF Ids
  <2> QED
    BY <1>4, <2>2, <2>3
<1> QED
  BY <1>2, <1>5, <1>6, <1>7 DEF p

(* ... or loses its last packet.                                           *)
LEMMA FrontIds ==
  ASSUME NEW S \in SUBSET Nat, NEW q \in Seq(S), q # <<>>, Increasing(q)
  PROVE  /\ Ids(SubSeq(q, 1, Len(q) - 1)) = Ids(q) \ {Last(q)}
         /\ Increasing(SubSeq(q, 1, Len(q) - 1))
         /\ Last(q) \in Ids(q)
<1> DEFINE n == Len(q)
           p == SubSeq(q, 1, Len(q) - 1)
<1>1. /\ n \in Nat \ {0} /\ DOMAIN q = 1 .. n /\ q[n] \in S
      /\ p \in Seq(S) /\ Len(p) = n - 1 /\ \A i \in 1 .. n - 1 : p[i] = q[i]
  BY TQP!FrontProperties, LenProperties
<1>2. DOMAIN p = 1 .. n - 1
  BY <1>1, LenProperties
<1>a. \A i \in 1 .. n : q[i] \in S
  BY <1>1, ElementOfSeq
<1> HIDE DEF n, p
<1>3. Last(q) = q[n] /\ n \in DOMAIN q
  BY <1>1 DEF Last, n
<1>4. \A i \in DOMAIN p : i \in DOMAIN q /\ p[i] = q[i] /\ i < n
  BY <1>1, <1>2
<1>5. \A i \in DOMAIN q : i \in DOMAIN p \/ i = n
  BY <1>1, <1>2
<1>6. \A i \in DOMAIN p : q[i] # q[n]
  <2> SUFFICES ASSUME NEW i \in DOMAIN p PROVE q[i] # q[n]
    OBVIOUS
  <2>1. q[i] < q[n] /\ q[i] \in Nat /\ q[n] \in Nat
    BY <1>1, <1>3, <1>4, <1>a DEF Increasing
  <2> QED
    BY <2>1
<1>7. Ids(p) = Ids(q) \ {Last(q)}
  BY <1>3, <1>4, <1>5, <1>6 DEF Ids
<1>8. Increasing(p)
  BY <1>4 DEF Increasing
<1> QED
  BY <1>3, <1>7, <1>8 DEF p, Ids

(* Taking the head of a muxing queue.                                      *)
LEMMA TailIds ==
  ASSUME NEW q \in Seq(PacketIds \cup {NullPacket}), q # <<>>, Ordered(q)
  PROVE  /\ Ids(q) = {Head(q)} \cup Ids(Tail(q))
         /\ Ordered(Tail(q))
         /\ Head(q) = NullPacket => Ids(Tail(q)) \ {NullPacket} = {}
         /\ Head(q) # NullPacket
              => \A y \in Ids(Tail(q)) \ {NullPacket} : Head(q) < y
<1> DEFINE n == Len(q)
           p == Tail(q)
           h == Head(q)
<1>1. /\ n \in Nat \ {0} /\ DOMAIN q = 1 .. n /\ h = q[1]
      /\ p \in Seq(PacketIds \cup {NullPacket}) /\ Len(p) = n - 1
      /\ \A i \in 1 .. n - 1 : p[i] = q[i + 1]
  BY EmptySeq, HeadTailProperties, LenProperties
<1>2. DOMAIN p = 1 .. n - 1
  BY <1>1, LenProperties
<1> HIDE DEF n, p, h
<1>3. \A i \in DOMAIN p : i + 1 \in DOMAIN q /\ p[i] = q[i + 1] /\ 1 < i + 1
  BY <1>1, <1>2
<1>4. \A j \in DOMAIN q : j = 1 \/ (j - 1 \in DOMAIN p /\ p[j - 1] = q[j])
  <2> SUFFICES ASSUME NEW j \in DOMAIN q, j # 1
               PROVE  j - 1 \in DOMAIN p /\ p[j - 1] = q[j]
    OBVIOUS
  <2>1. j - 1 \in 1 .. n - 1 /\ (j - 1) + 1 = j
    BY <1>1
  <2> QED
    BY <1>1, <1>2, <2>1
<1>5. 1 \in DOMAIN q
  BY <1>1
<1>6. Ids(q) \subseteq {h} \cup Ids(p)
  BY <1>1, <1>4 DEF Ids
<1>7. {h} \cup Ids(p) \subseteq Ids(q)
  BY <1>1, <1>3, <1>5 DEF Ids
<1>8. Ordered(p)
  <2> SUFFICES ASSUME NEW i \in DOMAIN p, NEW j \in DOMAIN p, i < j
               PROVE  p[j] = NullPacket \/ (p[i] # NullPacket /\ p[i] < p[j])
    BY DEF Ordered
  <2>1. i + 1 < j + 1
    BY <1>2
  <2> QED
    BY <1>3, <2>1 DEF Ordered
<1>9. \A i \in DOMAIN p : p[i] = NullPacket \/ (h # NullPacket /\ h < p[i])
  BY <1>1, <1>3, <1>5 DEF Ordered
<1>10. h = NullPacket => Ids(p) \ {NullPacket} = {}
  BY <1>9 DEF Ids
<1>11. h # NullPacket => \A y \in Ids(p) \ {NullPacket} : h < y
  BY <1>9 DEF Ids
<1> QED
  BY <1>6, <1>7, <1>8, <1>10, <1>11 DEF p, h

(* Adding to a muxing queue.                                               *)
LEMMA OrderedAppend ==
  ASSUME NEW q \in Seq(PacketIds \cup {NullPacket}), Ordered(q),
         NEW x \in PacketIds \cup {NullPacket},
         x # NullPacket => /\ NullPacket \notin Ids(q)
                           /\ \A y \in Ids(q) \ {NullPacket} : y < x
  PROVE  Ordered(Append(q, x))
<1> DEFINE n == Len(q)
           p == Append(q, x)
<1>1. /\ n \in Nat /\ DOMAIN q = 1 .. n /\ DOMAIN p = 1 .. n + 1
      /\ p[n + 1] = x /\ \A i \in 1 .. n : p[i] = q[i]
  BY AppendProperties, LenProperties
<1> HIDE DEF n, p
<1> SUFFICES ASSUME NEW i \in DOMAIN p, NEW j \in DOMAIN p, i < j
             PROVE  p[j] = NullPacket \/ (p[i] # NullPacket /\ p[i] < p[j])
  BY DEF Ordered, p
<1>2. i \in DOMAIN q /\ p[i] = q[i] /\ q[i] \in Ids(q)
  <2>1. i \in 1 .. n
    BY <1>1
  <2> QED
    BY <1>1, <2>1 DEF Ids
<1>3. CASE j = n + 1
  BY <1>1, <1>2, <1>3
<1>4. CASE j # n + 1
  <2>1. j \in DOMAIN q /\ p[j] = q[j]
    BY <1>1, <1>4
  <2> QED
    BY <1>2, <2>1 DEF Ordered
<1> QED
  BY <1>3, <1>4

(* The packets of a stream when one more is accepted or received.          *)
LEMMA OfStreamAppend ==
  ASSUME NEW P, NEW q \in Seq(P), NEW e \in P, NEW r
  PROVE  OfStream(Append(q, e), r)
           = OfStream(q, r) \cup (IF e.stream = r THEN {e.item} ELSE {})
<1> DEFINE n == Len(q)
           p == Append(q, e)
<1>1. /\ n \in Nat /\ DOMAIN q = 1 .. n /\ DOMAIN p = 1 .. n + 1
      /\ p[n + 1] = e /\ \A i \in 1 .. n : p[i] = q[i]
  BY AppendProperties, LenProperties
<1> HIDE DEF n, p
<1>2. \A i \in DOMAIN q : i \in DOMAIN p /\ p[i] = q[i]
  BY <1>1
<1>3. \A i \in DOMAIN p : i \in DOMAIN q \/ i = n + 1
  BY <1>1
<1>4. n + 1 \in DOMAIN p
  BY <1>1
<1>5. \A y : y \in OfStream(p, r) <=> \E i \in DOMAIN p : p[i].stream = r /\ y = p[i].item
  BY DEF OfStream
<1>6. \A y : y \in OfStream(q, r) <=> \E i \in DOMAIN q : q[i].stream = r /\ y = q[i].item
  BY DEF OfStream
<1>7. \A y : y \in OfStream(p, r) =>
             y \in OfStream(q, r) \/ (e.stream = r /\ y = e.item)
  BY <1>1, <1>2, <1>3, <1>5, <1>6
<1>8. \A y : y \in OfStream(q, r) \/ (e.stream = r /\ y = e.item) => y \in OfStream(p, r)
  BY <1>1, <1>2, <1>4, <1>5, <1>6
<1> QED
  BY <1>7, <1>8 DEF p

(* Initial parts: a later packet is taken, the next one is accepted, or    *)
(* one that was not accepted is given up.                                  *)
LEMMA InitialParts ==
  ASSUME NEW A, NEW T, NEW x, InitialPart(A, T)
  PROVE  /\ (\A t \in T : t < x) => InitialPart(A, T \cup {x})
         /\ x \in T /\ (\A t \in T \ (A \cup {x}) : x < t) => InitialPart(A \cup {x}, T)
         /\ x \notin A => InitialPart(A, T \ {x})
  BY DEF InitialPart

-----------------------------------------------------------------------------
(* How a send of packet x of stream s may end.                             *)
Waits(s, x) ==
  /\ pending'[Main] = [stream |-> s, item |-> x] /\ pending'[Main] # TQ!NoCall
  /\ UNCHANGED <<accepted, sendFinished, fifo>>

Accepts(s, x) ==
  /\ pending'[Main] = TQ!NoCall /\ ret'[Main] = "ok"
  /\ accepted' = Append(accepted, [stream |-> s, item |-> x])
  /\ UNCHANGED sendFinished

Refuses(s) ==
  /\ pending'[Main] = TQ!NoCall
  /\ \/ ret'[Main] = "EOF" /\ s \in recvFinished /\ sendFinished' = sendFinished \cup {s}
     \/ ret'[Main] = "ENOMEM" /\ UNCHANGED sendFinished
  /\ UNCHANGED <<accepted, fifo>>

Outcome(s, x) == Waits(s, x) \/ Accepts(s, x) \/ Refuses(s)

(* There is no other way.                                                  *)
LEMMA SendOutcome ==
  ASSUME Base, NEW s \in Streams, NEW x \in PacketIds
  PROVE  /\ TQ!SendLoop(Main, s, x) => Outcome(s, x)
         /\ s \notin sendFinished /\ TQ!tq_send(Main, s, x) => Outcome(s, x)
<1>0. /\ pending \in [{Main} -> TQ!Packets \cup {TQ!NoCall}]
      /\ ret \in [{Main} -> TQ!Codes]
  BY DEF Base, TypeOK, TQ!TypeOK
<1>1. [stream |-> s, item |-> x] # TQ!NoCall
  BY DEF TQ!NoCall, Streams
<1>2. TQ!SendWait(Main, s, x) => Waits(s, x)
  BY <1>0, <1>1 DEF TQ!SendWait, Waits, TQ!queueVars, TQ!flagVars
<1>3. TQ!SendEof(Main, s) => Refuses(s)
  BY <1>0 DEF TQ!SendEof, TQ!Return, Refuses, TQ!queueVars
<1>4. TQ!SendWrite(Main, s, x) => Accepts(s, x)
  BY <1>0 DEF TQ!SendWrite, TQ!Return, Accepts, TQ!flagVars
<1>5. TQ!SendNoMemory(Main, s) => Refuses(s)
  BY <1>0 DEF TQ!SendNoMemory, TQ!Return, Refuses, TQ!queueVars, TQ!flagVars
<1>6. TQ!SendLoop(Main, s, x) => Outcome(s, x)
  BY <1>2, <1>3, <1>4, <1>5 DEF TQ!SendLoop, Outcome
<1> QED
  BY <1>6 DEF TQ!tq_send

(* What accepted holds.                                                    *)
LEMMA AcceptedTypes ==
  ASSUME Base
  PROVE  /\ accepted \in Seq(TQ!Packets) /\ received \in Seq(TQ!Packets)
         /\ \A s \in Streams, x \in PacketIds : [stream |-> s, item |-> x] \in TQ!Packets
         /\ \A p \in TQ!Packets : p.stream \in Streams /\ p.item \in PacketIds
                                  /\ p = [stream |-> p.stream, item |-> p.item]
         /\ PacketIds \in SUBSET Nat /\ NullPacket \notin PacketIds
<1>1. TQ!Packets = [stream : Streams, item : PacketIds]
  BY DEF TQ!Packets, TQ!Streams, Streams
<1>2. accepted \in Seq(TQ!Packets) /\ received \in Seq(TQ!Packets)
  BY DEF Base, TypeOK, TQ!TypeOK
<1> QED
  BY <1>1, <1>2 DEF PacketIds, NullPacket

(* A stream that a step does not touch, or only ends.                      *)
LEMMA StreamKept ==
  ASSUME Base, Base', NEW r \in Streams, StreamInv(r),
         taken'[r] = taken[r], Accepted(r)' = Accepted(r),
         muxing_queue'[r] = muxing_queue[r],
         Waiting(r)' = Waiting(r), Lost(r) \subseteq Lost(r)',
         calls[r] <= calls'[r], eofCalls'[r] = 0 => eofCalls[r] = 0,
         Kept(r)' => Kept(r), Ended(r)' => Ended(r) \/ Queued(r) = {}
  PROVE  StreamInv(r)'
<1>1. Taken(r)' = Taken(r) /\ Queued(r)' = Queued(r)
  BY DEF Taken, Queued
<1>2. ASSUME NEW x \in Taken(r) PROVE x <= calls'[r]
  <2>1. x \in Nat
    <3>1. taken[r] \in Seq(PacketIds)
      BY DEF Base, TypeOK
    <3>2. \A i \in DOMAIN taken[r] : taken[r][i] \in PacketIds
      BY <3>1, ElementOfSeq, LenProperties
    <3> QED
      BY <3>2 DEF Taken, Ids, PacketIds
  <2>2. x <= calls[r] /\ calls[r] \in Nat /\ calls'[r] \in Nat
    BY DEF StreamInv, Base, TypeOK
  <2> QED
    BY <2>1, <2>2
<1>3. Kept(r)' => Taken(r) \ Lost(r)' \subseteq Accepted(r) \cup Waiting(r) \cup Queued(r)
  BY DEF StreamInv
<1>4. Ended(r)' => Queued(r) = {}
  BY DEF StreamInv
<1> QED
  BY <1>1, <1>2, <1>3, <1>4 DEF StreamInv

(* A packet is offered to the queue: all that was taken of the stream is   *)
(* accepted, is this packet, or waits behind it.                           *)
LEMMA Offer ==
  ASSUME Base, Base', AcceptInv, NEW s \in Streams, NEW x \in PacketIds,
         Outcome(s, x), main' = "sent", call'.stream = s,
         call'.from = "run" => x = Last(taken'[s]),
         Increasing(taken'[s]), \A y \in Taken(s)' : y <= calls'[s],
         InitialPart(Accepted(s), Taken(s)'), x \in Taken(s)' \ Accepted(s),
         Ordered(muxing_queue'[s]),
         Queued(s)' \subseteq Taken(s)' \ (Accepted(s) \cup {x}),
         \A y \in Queued(s)' : x < y,
         Taken(s)' \subseteq Accepted(s) \cup {x} \cup Queued(s)',
         eofCalls'[s] = 0 => NullPacket \notin Ids(muxing_queue'[s]),
         s \notin muxFinished', s \notin sendFinished,
         recvFinished \subseteq sendFinished \/ ~Writable, UNCHANGED <<fileFull, threadRet>>
  PROVE  StreamInv(s)' /\ AcceptInv' /\ SendInv'
<1> DEFINE e == [stream |-> s, item |-> x]
<1>0. /\ accepted \in Seq(TQ!Packets) /\ e \in TQ!Packets
      /\ \A p \in TQ!Packets : p.item \in Nat
  BY AcceptedTypes
<1>a. ~Ended(s)'
  BY DEF Ended
<1>1. CASE Waits(s, x)
  <2>1. Accepted(s)' = Accepted(s) /\ Waiting(s)' = {x} /\ Lost(s)' = {}
    BY <1>1 DEF Waits, Accepted, Waiting, Lost, Sending, Failing
  <2>2. StreamInv(s)'
    BY <1>a, <2>1 DEF StreamInv
  <2>3. AcceptInv'
    BY <1>1 DEF Waits, AcceptInv
  <2>4. SendInv'
    BY <1>1 DEF Waits, SendInv, Sending, Failing
  <2> QED
    BY <2>2, <2>3, <2>4
<1>2. CASE Accepts(s, x)
  <2>1. Waiting(s)' = {} /\ Lost(s)' = {}
    BY <1>2 DEF Accepts, Waiting, Lost, Sending, Failing
  <2>2. Accepted(s)' = Accepted(s) \cup {x}
    <3>1. OfStream(Append(accepted, e), s) = OfStream(accepted, s) \cup {x}
      BY <1>0, OfStreamAppend
    <3> QED
      BY <1>2, <3>1 DEF Accepts, Accepted
  <2>3. InitialPart(Accepted(s) \cup {x}, Taken(s)')
    BY InitialParts
  <2>4. StreamInv(s)'
    BY <1>a, <2>1, <2>2, <2>3 DEF StreamInv
  <2>5. AcceptInv'
    <3> DEFINE n == Len(accepted)
    <3>1. /\ n \in Nat /\ DOMAIN accepted = 1 .. n /\ DOMAIN accepted' = 1 .. n + 1
          /\ accepted'[n + 1] = e /\ \A i \in 1 .. n : accepted'[i] = accepted[i]
      BY <1>0, <1>2, AppendProperties, LenProperties DEF Accepts
    <3> HIDE DEF n
    <3> SUFFICES ASSUME NEW i \in DOMAIN accepted', NEW j \in DOMAIN accepted', i < j,
                        accepted'[i].stream = accepted'[j].stream
                 PROVE  accepted'[i].item < accepted'[j].item
      BY DEF AcceptInv
    <3>2. i \in DOMAIN accepted /\ accepted'[i] = accepted[i]
      BY <3>1
    <3>3. CASE j \in DOMAIN accepted
      <4>1. accepted'[j] = accepted[j]
        BY <3>1, <3>3
      <4> QED
        BY <3>2, <3>3, <4>1 DEF AcceptInv
    <3>4. CASE j = n + 1
      <4>1. accepted[i].stream = s /\ accepted'[j].item = x
        BY <3>1, <3>2, <3>4
      <4>2. accepted[i].item \in Accepted(s)
        BY <3>2, <4>1 DEF Accepted, OfStream
      <4> QED
        BY <3>2, <4>1, <4>2 DEF InitialPart
    <3> QED
      BY <3>1, <3>3, <3>4
  <2>6. SendInv'
    BY <1>2 DEF Accepts, SendInv, Sending, Failing
  <2> QED
    BY <2>4, <2>5, <2>6
<1>3. CASE Refuses(s)
  <2>1. Accepted(s)' = Accepted(s) /\ Waiting(s)' = {} /\ Failing'
    BY <1>3 DEF Refuses, Accepted, Waiting, Sending, Failing
  <2>2. x \in Lost(s)' /\ (Lost(s)' = {x} \/ Lost(s)' = Taken(s)')
    BY <2>1 DEF Lost
  <2>3. StreamInv(s)'
    BY <1>a, <2>1, <2>2 DEF StreamInv
  <2>4. AcceptInv'
    BY <1>3 DEF Refuses, AcceptInv
  <2>5. ret'[Main] \in {"EOF", "ENOMEM"} /\ (ret'[Main] = "EOF" => ~Writable')
    BY <1>3 DEF Refuses, Writable
  <2>6. taken'[s] # <<>>
    BY DEF Taken, Ids
  <2>7. SendInv'
    BY <1>3, <2>1, <2>5, <2>6 DEF Refuses, SendInv, Sending, Failing
  <2> QED
    BY <2>3, <2>4, <2>7
<1> QED
  BY <1>1, <1>2, <1>3 DEF Outcome

(* What the main thread sends and what went through the queue.             *)
Order == FlowInv /\ AcceptInv /\ SendInv

(* A step that neither hands a packet over nor sends one.                  *)
LEMMA QuietStep ==
  ASSUME Base, Base', Order,
         UNCHANGED <<taken, accepted, calls, eofCalls, muxFinished, pending, ret>>,
         \/ UNCHANGED <<main, call>>
         \/ ~Sending /\ ~Failing /\ main' # "sent",
         Writable' => Writable, status' = "ok" => status = "ok",
         main = "closed" => main' = "closed",
         \/ UNCHANGED muxing_queue
         \/ main' = "closed" /\ muxing_queue' = [s \in Streams |-> <<>>]
  PROVE  Order'
<1>1. AcceptInv'
  BY DEF AcceptInv, Order
<1>2. \A r : Accepted(r)' = Accepted(r) /\ Taken(r)' = Taken(r)
  BY DEF Accepted, Taken
<1>3. \A r : Waiting(r)' = Waiting(r) /\ Lost(r)' = Lost(r)
  <2>1. CASE UNCHANGED <<main, call>>
    BY <1>2, <2>1 DEF Waiting, Lost, Sending, Failing, TQ!NoCall
  <2>2. CASE ~Sending /\ ~Failing /\ main' # "sent"
    BY <2>2 DEF Waiting, Lost, Sending, Failing
  <2> QED
    BY <2>1, <2>2
<1>4. SendInv'
  <2>1. CASE UNCHANGED <<main, call>>
    BY <2>1, <1>2 DEF Order, SendInv, Sending, Failing, TQ!NoCall, Accepted
  <2>2. CASE ~Sending /\ ~Failing /\ main' # "sent"
    BY <2>2 DEF Order, SendInv, Sending, Failing, TQ!NoCall
  <2> QED
    BY <2>1, <2>2
<1>5. ASSUME NEW r \in Streams
      PROVE  StreamInv(r)'
  <2>0. StreamInv(r)
    BY DEF Order, FlowInv
  <2>1. CASE UNCHANGED muxing_queue
    <3>1. (Kept(r)' => Kept(r)) /\ (Ended(r)' => Ended(r))
      BY DEF Kept, Ended, Intact
    <3>2. calls[r] <= calls'[r]
      BY DEF Base, TypeOK
    <3> QED
      BY <1>2, <1>3, <2>0, <2>1, <3>1, <3>2, StreamKept
  <2>2. CASE main' = "closed" /\ muxing_queue' = [s \in Streams |-> <<>>]
    <3>1. Waiting(r)' = {} /\ ~Kept(r)'
      BY <2>2 DEF Waiting, Sending, Kept
    <3>2. Ids(<<>>) = {} /\ Ordered(<<>>)
      BY DEF Ids, Ordered
    <3>3. Queued(r)' = {} /\ muxing_queue'[r] = <<>>
      BY <2>2, <3>2 DEF Queued
    <3> QED
      BY <1>2, <1>3, <2>0, <3>1, <3>2, <3>3 DEF StreamInv
  <2> QED
    BY <2>1, <2>2
<1> QED
  BY <1>1, <1>4, <1>5 DEF Order, FlowInv

(* An error of the muxer thread and a full file stay.                      *)
LEMMA WritableStays ==
  ASSUME Base, EndInv, [Next]_vars
  PROVE  Writable' => Writable
<1>0. thread \notin {"finish", "exit"} => threadRet = "ok"
  BY DEF EndInv
<1>1. CASE CallerStep \/ MainStep
  <2>1. CASE UNCHANGED <<thread, fileFull>>
    BY <1>1, <2>1, MainSide DEF Writable
  <2>2. ASSUME NEW s \in Streams, of_stream_init(s)
        PROVE  Writable
    <3>1. tq = "none"
      BY <2>2 DEF Base, PlaceInv, of_stream_init
    <3> QED
      BY <1>0, <3>1 DEF Base, PlaceInv, Writable
  <2> QED
    BY <1>1, <2>1, <2>2, MainSide
<1>2. CASE ThreadStarts
  BY <1>2 DEF ThreadStarts, ThreadEnds, Writable
<1>3. CASE ThreadReceives
  BY <1>0, <1>3 DEF ThreadReceives, ThreadEnds, Writable
<1>4. CASE write_packet
  BY <1>0, <1>4 DEF write_packet, Writable
<1>5. CASE RefuseStream \/ ThreadFinishes
  BY <1>5 DEF RefuseStream, ThreadFinishes, Writable
<1>6. CASE UNCHANGED vars
  BY <1>6 DEF vars, muxVars, Writable
<1> QED
  BY <1>1, <1>2, <1>3, <1>4, <1>5, <1>6, WhoSteps DEF ThreadStep

(* No step but these is about packets.                                     *)
LEMMA QuietSteps ==
  ASSUME Base, Base', Order, EndInv, [Next]_vars,
         ~\E s \in Streams : of_output_packet(s),
         ~FlushPacket, ~ResumeSend, ~SendFailed
  PROVE  Order'
<1>0. Writable' => Writable
  BY WritableStays
<1>1. CASE ThreadStep
  <2>1. UNCHANGED <<taken, accepted, calls, eofCalls, muxFinished, pending, ret, main,
                    call, status, muxing_queue>>
    BY <1>1, ThreadSide DEF mainVars, queueVars, histVars
  <2> QED
    BY <1>0, <2>1, QuietStep
<1>2. CASE UNCHANGED vars
  BY <1>0, <1>2, QuietStep DEF vars, tqVars, mainVars, queueVars, histVars
<1>3. ASSUME NEW s \in Streams, of_stream_init(s)
      PROVE  Order'
  <2>1. main = "run" /\ main' # "sent" /\ (status' = "ok" => status = "ok")
    BY <1>3 DEF of_stream_init, ExitProgram
  <2>2. UNCHANGED <<taken, accepted, calls, eofCalls, muxFinished, pending, ret,
                    muxing_queue>>
    BY <1>3 DEF of_stream_init, tqVars, queueVars, histVars
  <2> QED
    BY <1>0, <2>1, <2>2, QuietStep DEF Sending, Failing
<1>4. CASE of_write_trailer \/ FlushNext
  <2>1. main # "sent" /\ main' \notin {"sent", "closed"} /\ main # "closed"
        /\ (status' = "ok" => status = "ok")
    BY <1>4 DEF of_write_trailer, FlushNext
  <2>2. UNCHANGED <<taken, accepted, calls, eofCalls, muxFinished, pending, ret,
                    muxing_queue>>
    BY <1>4 DEF of_write_trailer, FlushNext, tqVars, queueVars, histVars
  <2> QED
    BY <1>0, <2>1, <2>2, QuietStep DEF Sending, Failing
<1>5. CASE SendReturned
  <2>1. main = "sent" /\ main' # "sent" /\ status' = status /\ ~Sending /\ ~Failing
    BY <1>5 DEF SendReturned, Sending, Failing, Base, TypeOK
  <2>2. UNCHANGED <<taken, accepted, calls, eofCalls, muxFinished, pending, ret,
                    muxing_queue>>
    BY <1>5 DEF SendReturned, tqVars, queueVars, histVars
  <2> QED
    BY <1>0, <2>1, <2>2, QuietStep
<1>6. CASE StopStream
  <2>1. main = "stop" /\ main' = "stop" /\ status' = status
    BY <1>6 DEF StopStream
  <2>2. UNCHANGED <<taken, accepted, calls, eofCalls, muxFinished, pending, ret,
                    muxing_queue>>
    BY <1>6, SendSide DEF StopStream, queueVars, histVars
  <2> QED
    BY <1>0, <2>1, <2>2, QuietStep DEF Sending, Failing
<1>7. CASE JoinThread
  <2>1. main = "stop" /\ main' = "close" /\ (status' = "ok" => status = "ok")
    BY <1>7 DEF JoinThread, main_return_code
  <2>2. UNCHANGED <<taken, accepted, calls, eofCalls, muxFinished, pending, ret,
                    muxing_queue>>
    BY <1>7 DEF JoinThread, TQ!tq_free, TQ!flagVars, queueVars, histVars
  <2> QED
    BY <1>0, <2>1, <2>2, QuietStep DEF Sending, Failing
<1>8. CASE of_close
  <2>1. main = "close" /\ main' \in {"stop", "closed"} /\ status' = status
    BY <1>8 DEF of_close
  <2>2. UNCHANGED <<taken, accepted, calls, eofCalls, muxFinished, pending, ret>>
    BY <1>8 DEF of_close, tqVars, histVars
  <2>3. \/ UNCHANGED muxing_queue
        \/ main' = "closed" /\ muxing_queue' = [s \in Streams |-> <<>>]
    BY <1>8 DEF of_close
  <2> QED
    BY <1>0, <2>1, <2>2, <2>3, QuietStep DEF Sending, Failing
<1> QED
  BY <1>1, <1>2, <1>3, <1>4, <1>5, <1>6, <1>7, <1>8, WhoSteps DEF CallerStep, MainStep

(* The other streams when a packet of stream s is offered.                 *)
LEMMA OfferOthers ==
  ASSUME Base, NEW s \in Streams, NEW x \in PacketIds, Outcome(s, x),
         main' = "sent", call'.stream = s, NEW r \in Streams, r # s
  PROVE  Accepted(r)' = Accepted(r) /\ Waiting(r)' = {} /\ Lost(r)' = {}
<1>1. Waiting(r)' = {} /\ Lost(r)' = {}
  BY DEF Waiting, Lost
<1>2. CASE UNCHANGED accepted
  BY <1>1, <1>2 DEF Accepted
<1>3. CASE accepted' = Append(accepted, [stream |-> s, item |-> x])
  <2>1. PICK e \in TQ!Packets : e = [stream |-> s, item |-> x]
    BY AcceptedTypes
  <2>2. OfStream(Append(accepted, e), r)
          = OfStream(accepted, r) \cup (IF e.stream = r THEN {e.item} ELSE {})
    BY AcceptedTypes, OfStreamAppend
  <2>3. OfStream(Append(accepted, e), r) = OfStream(accepted, r)
    BY <2>1, <2>2
  <2> QED
    BY <1>1, <1>3, <2>1, <2>3 DEF Accepted
<1> QED
  BY <1>2, <1>3 DEF Outcome, Waits, Accepts, Refuses

(* Numbers of packets are natural numbers.                                 *)
LEMMA TakenTypes ==
  ASSUME Base, NEW s \in Streams
  PROVE  /\ taken[s] \in Seq(PacketIds) /\ calls[s] \in Nat /\ eofCalls[s] \in Nat
         /\ muxing_queue[s] \in Seq(PacketIds \cup {NullPacket})
         /\ Taken(s) \subseteq PacketIds /\ Taken(s) \subseteq Nat
         /\ Queued(s) \subseteq PacketIds /\ Queued(s) \subseteq Nat
<1>1. /\ taken[s] \in Seq(PacketIds) /\ calls[s] \in Nat /\ eofCalls[s] \in Nat
      /\ muxing_queue[s] \in Seq(PacketIds \cup {NullPacket})
  BY DEF Base, TypeOK
<1>2. \A i \in DOMAIN taken[s] : taken[s][i] \in PacketIds
  BY <1>1, ElementOfSeq, LenProperties
<1>3. \A i \in DOMAIN muxing_queue[s] : muxing_queue[s][i] \in PacketIds \cup {NullPacket}
  BY <1>1, ElementOfSeq, LenProperties
<1>4. Taken(s) \subseteq PacketIds
  BY <1>2 DEF Taken, Ids
<1>5. Queued(s) \subseteq PacketIds
  BY <1>3 DEF Queued, Ids
<1> QED
  BY <1>1, <1>4, <1>5 DEF PacketIds

(* tq_send goes on.                                                        *)
LEMMA ResumeStep ==
  ASSUME Base, Base', Order, EndInv, ResumeSend
  PROVE  Order'
<1>1. /\ main = "sent" /\ Sending /\ ~Failing /\ main' = "sent" /\ call' = call
      /\ UNCHANGED <<muxFinished, muxing_queue, calls, eofCalls, taken, status,
                     fileFull, threadRet>>
  BY DEF ResumeSend, TQ!ResumeSend, Sending, Failing, mainVars, queueVars, histVars,
     muxVars
<1>a. PICK s \in Streams : s = call.stream
  BY <1>1 DEF Base, HoldInv
<1>b. PICK x : x = pending[Main].item
  OBVIOUS
<1>2. /\ pending[Main].stream = s /\ s \notin muxFinished
      /\ s \notin sendFinished
      /\ recvFinished \subseteq sendFinished \/ ~Writable
      /\ call.from = "run" => x = Last(taken[s])
  BY <1>1, <1>a, <1>b DEF Order, SendInv, EndInv
<1>3. StreamInv(s)
  BY DEF Order, FlowInv
<1>4. Waiting(s) = {x} /\ Lost(s) = {} /\ Kept(s)
  BY <1>1, <1>2, <1>a, <1>b DEF Waiting, Lost, Kept
<1>5. x \in Taken(s) \ Accepted(s) /\ x \in PacketIds /\ Taken(s) \subseteq Nat
      /\ Queued(s) \subseteq Nat
  BY <1>2, <1>3, <1>4, TakenTypes DEF StreamInv
<1>6. Outcome(s, x)
  <2>1. TQ!SendLoop(Main, s, x)
    BY <1>2, <1>a, <1>b DEF ResumeSend, TQ!ResumeSend
  <2> QED
    BY <1>5, <2>1, SendOutcome
<1>7. s = call'.stream
  BY <1>1, <1>a
<1>8. Taken(s)' = Taken(s) /\ Queued(s)' = Queued(s)
  BY <1>1 DEF Taken, Queued
<1>9. Queued(s) \subseteq Taken(s) \ (Accepted(s) \cup {x}) /\ \A y \in Queued(s) : x < y
  <2>1. Queued(s) \subseteq Taken(s) \ Accepted(s) /\ \A y \in Queued(s) : x < y
    BY <1>3, <1>4 DEF StreamInv
  <2>2. ASSUME NEW y \in Queued(s) PROVE y # x
    BY <1>5, <2>1, <2>2
  <2> QED
    BY <2>1, <2>2
<1>10. /\ Taken(s) \subseteq Accepted(s) \cup {x} \cup Queued(s)
       /\ Increasing(taken[s]) /\ \A y \in Taken(s) : y <= calls[s]
       /\ InitialPart(Accepted(s), Taken(s)) /\ Ordered(muxing_queue[s])
       /\ eofCalls[s] = 0 => NullPacket \notin Ids(muxing_queue[s])
  BY <1>3, <1>4 DEF StreamInv
<1>11. StreamInv(s)' /\ AcceptInv' /\ SendInv'
  BY <1>1, <1>2, <1>5, <1>6, <1>7, <1>8, <1>9, <1>10, Offer DEF Order
<1>12. ASSUME NEW r \in Streams, r # s
       PROVE  StreamInv(r)'
  <2>1. Accepted(r)' = Accepted(r) /\ Waiting(r)' = {} /\ Lost(r)' = {}
    BY <1>1, <1>2, <1>5, <1>6, <1>7, <1>12, OfferOthers
  <2>2. Waiting(r) = {} /\ Lost(r) = {} /\ (Kept(r)' => Kept(r)) /\ (Ended(r)' => Ended(r))
    BY <1>1, <1>a, <1>12 DEF Waiting, Lost, Kept, Ended, Intact, Writable
  <2>3. calls[r] <= calls'[r]
    BY <1>1, TakenTypes
  <2> QED
    BY <1>1, <2>1, <2>2, <2>3, StreamKept DEF Order, FlowInv
<1> QED
  BY <1>11, <1>12 DEF Order, FlowInv

(* A packet of this call is taken and offered to the queue.                *)
LEMMA SendNewStep ==
  ASSUME Base, Base', Order, EndInv, DrainInv, NEW s \in Streams, tq = "up",
         main = "run", calls' = [calls EXCEPT ![s] = @ + 1], calls[s] < MaxPackets,
         s \notin muxFinished, SubmitSend(s, calls'[s], "run"),
         taken' = [taken EXCEPT ![s] = Append(@, calls'[s])],
         eofCalls[s] = 0, UNCHANGED <<muxing_queue, eofCalls, fileFull, threadRet>>
  PROVE  Order'
<1>1. PICK x \in PacketIds : x = calls'[s] /\ x = calls[s] + 1
  BY CallFacts DEF Base
<1>2. ~Sending /\ ~Failing /\ main' = "sent" /\ call' = [stream |-> s, from |-> "run"]
      /\ UNCHANGED <<muxFinished, status>>
  BY DEF Sending, Failing, SubmitSend
<1>3. muxing_queue[s] = <<>> /\ s \notin sendFinished
      /\ (recvFinished \subseteq sendFinished \/ ~Writable)
  BY <1>2 DEF DrainInv, EndInv
<1>4. Outcome(s, x)
  BY <1>1, <1>3, SendOutcome DEF SubmitSend
<1>5. StreamInv(s) /\ Waiting(s) = {} /\ Lost(s) = {} /\ Kept(s)
  BY <1>2 DEF Order, FlowInv, Waiting, Lost, Kept
<1>6. Queued(s) = {} /\ Queued(s)' = {}
  BY <1>3 DEF Queued, Ids
<1>7. taken[s] \in Seq(PacketIds) /\ Taken(s) \subseteq Nat /\ calls[s] \in Nat
  BY TakenTypes
<1>8. ASSUME NEW y \in Taken(s) PROVE y < x /\ y <= calls'[s]
  <2>1. y <= calls[s] /\ y \in Nat
    BY <1>5, <1>7 DEF StreamInv
  <2>2. y < calls[s] + 1 /\ y <= calls[s] + 1
    BY <1>7, <2>1
  <2> QED
    BY <1>1, <2>2
<1>9. taken'[s] = Append(taken[s], x)
  BY <1>1 DEF Base, TypeOK
<1>10. /\ Ids(taken'[s]) = Ids(taken[s]) \cup {x}
       /\ Last(taken'[s]) = x /\ Increasing(taken'[s])
  <2>1. Increasing(taken[s]) /\ \A y \in Ids(taken[s]) : y < x
    BY <1>5, <1>8 DEF StreamInv, Taken
  <2>2. PICK q \in Seq(PacketIds) : q = taken[s]
    BY <1>7
  <2>3. PacketIds \in SUBSET Nat
    BY AcceptedTypes
  <2>4. /\ Ids(Append(q, x)) = Ids(q) \cup {x} /\ Last(Append(q, x)) = x
        /\ Increasing(q) /\ (\A y \in Ids(q) : y < x) => Increasing(Append(q, x))
    BY <2>3, AppendIds
  <2> QED
    BY <1>9, <2>1, <2>2, <2>4
<1>11. Taken(s)' = Taken(s) \cup {x}
  BY <1>10 DEF Taken
<1>12. InitialPart(Accepted(s), Taken(s)') /\ x \notin Accepted(s)
  <2>1. InitialPart(Accepted(s), Taken(s))
    BY <1>5 DEF StreamInv
  <2>2. x \notin Taken(s)
    BY <1>7, <1>8
  <2> QED
    BY <1>8, <1>11, <2>1, <2>2, InitialParts DEF InitialPart
<1>13. Taken(s)' \subseteq Accepted(s) \cup {x} \cup Queued(s)'
  BY <1>5, <1>6, <1>11 DEF StreamInv
<1>14. Ordered(muxing_queue'[s]) /\ NullPacket \notin Ids(muxing_queue'[s])
  BY <1>3 DEF Ordered, Ids
<1>15. \A y \in Taken(s)' : y <= calls'[s]
  BY <1>1, <1>7, <1>8, <1>11
<1>16. StreamInv(s)' /\ AcceptInv' /\ SendInv'
  BY <1>1, <1>2, <1>3, <1>4, <1>6, <1>10, <1>11, <1>12, <1>13, <1>14, <1>15, Offer
     DEF Order
<1>17. ASSUME NEW r \in Streams, r # s
       PROVE  StreamInv(r)'
  <2>1. Accepted(r)' = Accepted(r) /\ Waiting(r)' = {} /\ Lost(r)' = {}
    BY <1>2, <1>4, <1>17, OfferOthers
  <2>2. Waiting(r) = {} /\ Lost(r) = {} /\ (Kept(r)' => Kept(r)) /\ (Ended(r)' => Ended(r))
    BY <1>2 DEF Waiting, Lost, Kept, Ended, Intact, Writable
  <2>3. taken'[r] = taken[r] /\ calls'[r] = calls[r] /\ calls[r] <= calls'[r]
    BY <1>17, TakenTypes DEF Base, TypeOK
  <2> QED
    BY <2>1, <2>2, <2>3, StreamKept DEF Order, FlowInv
<1> QED
  BY <1>16, <1>17 DEF Order, FlowInv

(* The head of a muxing queue is offered to the queue.                     *)
LEMMA SendQueuedStep ==
  ASSUME Base, Base', Order, EndInv, NEW s \in Streams, main = "flush",
         muxing_queue[s] # <<>>, NEW x \in PacketIds, x = Head(muxing_queue[s]),
         s \notin muxFinished, SubmitSend(s, x, "flush"),
         muxing_queue' = [muxing_queue EXCEPT ![s] = Tail(@)],
         UNCHANGED <<taken, calls, eofCalls, fileFull, threadRet>>
  PROVE  Order'
<1>1. ~Sending /\ ~Failing /\ main' = "sent" /\ call' = [stream |-> s, from |-> "flush"]
      /\ UNCHANGED <<muxFinished, status>>
  BY DEF Sending, Failing, SubmitSend
<1>2. s \notin sendFinished /\ (recvFinished \subseteq sendFinished \/ ~Writable)
  BY <1>1 DEF EndInv
<1>3. Outcome(s, x)
  BY <1>2, SendOutcome DEF SubmitSend
<1>4. StreamInv(s) /\ Waiting(s) = {} /\ Lost(s) = {} /\ Kept(s)
  BY <1>1 DEF Order, FlowInv, Waiting, Lost, Kept
<1>5. muxing_queue[s] \in Seq(PacketIds \cup {NullPacket}) /\ Ordered(muxing_queue[s])
  BY <1>4, TakenTypes DEF StreamInv
<1>6. muxing_queue'[s] = Tail(muxing_queue[s])
  BY DEF Base, TypeOK
<1>7. /\ Ids(muxing_queue[s]) = {x} \cup Ids(muxing_queue'[s])
      /\ Ordered(muxing_queue'[s]) /\ x # NullPacket
      /\ \A y \in Ids(muxing_queue'[s]) \ {NullPacket} : x < y
  BY <1>5, <1>6, TailIds, AcceptedTypes
<1>8. /\ Queued(s) = {x} \cup Queued(s)' /\ \A y \in Queued(s)' : x < y
      /\ Taken(s)' = Taken(s)
  BY <1>7 DEF Queued, Taken
<1>9. x \notin Queued(s)'
  <2>1. x \in Nat
    BY DEF PacketIds
  <2> QED
    BY <1>8, <2>1
<1>10. /\ Increasing(taken[s]) /\ \A y \in Taken(s) : y <= calls[s]
       /\ InitialPart(Accepted(s), Taken(s))
       /\ Queued(s) \subseteq Taken(s) \ Accepted(s)
       /\ Taken(s) \subseteq Accepted(s) \cup Queued(s)
       /\ eofCalls[s] = 0 => NullPacket \notin Ids(muxing_queue[s])
  BY <1>4 DEF StreamInv
<1>11. /\ x \in Taken(s)' \ Accepted(s)
       /\ Queued(s)' \subseteq Taken(s)' \ (Accepted(s) \cup {x})
       /\ Taken(s)' \subseteq Accepted(s) \cup {x} \cup Queued(s)'
       /\ eofCalls'[s] = 0 => NullPacket \notin Ids(muxing_queue'[s])
  BY <1>7, <1>8, <1>9, <1>10
<1>12. StreamInv(s)' /\ AcceptInv' /\ SendInv'
  BY <1>1, <1>2, <1>3, <1>7, <1>8, <1>10, <1>11, Offer DEF Order
<1>13. ASSUME NEW r \in Streams, r # s
       PROVE  StreamInv(r)'
  <2>1. Accepted(r)' = Accepted(r) /\ Waiting(r)' = {} /\ Lost(r)' = {}
    BY <1>1, <1>3, <1>13, OfferOthers
  <2>2. Waiting(r) = {} /\ Lost(r) = {} /\ (Kept(r)' => Kept(r)) /\ (Ended(r)' => Ended(r))
    BY <1>1 DEF Waiting, Lost, Kept, Ended, Intact, Writable
  <2>3. muxing_queue'[r] = muxing_queue[r] /\ calls[r] <= calls'[r]
    BY <1>13, TakenTypes DEF Base, TypeOK
  <2> QED
    BY <2>1, <2>2, <2>3, StreamKept DEF Order, FlowInv
<1> QED
  BY <1>12, <1>13 DEF Order, FlowInv

(* thread_submit_packet ends the stream, or drops what comes behind it.    *)
LEMMA EndStep ==
  ASSUME Base, Base', Order, DrainInv, NEW s \in Streams, tq = "up", main = "run",
         SubmitEnd(s, "run"), UNCHANGED <<muxing_queue, fileFull, threadRet>>,
         \A r \in Streams : calls[r] <= calls'[r] /\ (eofCalls'[r] = 0 => eofCalls[r] = 0)
  PROVE  Order'
<1>1. /\ main' = "run" /\ muxFinished' = muxFinished \cup {s}
      /\ UNCHANGED <<taken, status, accepted, pending, ret>>
  BY SendSide DEF SubmitEnd
<1>2. ASSUME NEW r \in Streams
      PROVE  StreamInv(r)'
  <2>1. Accepted(r)' = Accepted(r) /\ taken'[r] = taken[r]
    BY <1>1 DEF Accepted
  <2>2. /\ Waiting(r) = {} /\ Waiting(r)' = {} /\ Lost(r) = {} /\ Lost(r)' = {}
    BY <1>1 DEF Waiting, Lost, Sending, Failing
  <2>3. Queued(r) = {}
    BY DEF DrainInv, Queued, Ids
  <2>4. Kept(r)' => Kept(r)
    BY <1>1 DEF Kept, Intact, Writable
  <2> QED
    BY <2>1, <2>2, <2>3, <2>4, StreamKept DEF Order, FlowInv
<1>3. AcceptInv' /\ SendInv'
  BY <1>1 DEF Order, AcceptInv, SendInv, Sending, Failing, TQ!NoCall
<1> QED
  BY <1>2, <1>3 DEF Order, FlowInv

(* thread_start finds the end of a stream in its muxing queue.             *)
LEMMA EndQueuedStep ==
  ASSUME Base, Base', Order, NEW s \in Streams, main = "flush",
         muxing_queue[s] # <<>>, NEW x, x = Head(muxing_queue[s]),
         x = NullPacket \/ s \in muxFinished, SubmitEnd(s, "flush"),
         muxing_queue' = [muxing_queue EXCEPT ![s] = Tail(@)],
         UNCHANGED <<calls, eofCalls, fileFull, threadRet>>
  PROVE  Order'
<1>1. /\ main' = "flush" /\ muxFinished' = muxFinished \cup {s}
      /\ UNCHANGED <<taken, status, accepted, pending, ret>>
  BY SendSide DEF SubmitEnd
<1>2. \A r : Accepted(r)' = Accepted(r) /\ Taken(r)' = Taken(r)
  BY <1>1 DEF Accepted, Taken
<1>3. \A r : Waiting(r) = {} /\ Waiting(r)' = {} /\ Lost(r) = {} /\ Lost(r)' = {}
  BY <1>1 DEF Waiting, Lost, Sending, Failing
<1>4. AcceptInv' /\ SendInv'
  BY <1>1 DEF Order, AcceptInv, SendInv, Sending, Failing, TQ!NoCall
<1>5. ASSUME NEW r \in Streams, r # s
      PROVE  StreamInv(r)'
  <2>1. muxing_queue'[r] = muxing_queue[r] /\ calls[r] <= calls'[r]
    BY <1>5, TakenTypes DEF Base, TypeOK
  <2>2. (Kept(r)' => Kept(r)) /\ (Ended(r)' => Ended(r))
    BY <1>1, <1>5 DEF Kept, Ended, Intact, Writable
  <2> QED
    BY <1>1, <1>2, <1>3, <2>1, <2>2, StreamKept DEF Order, FlowInv
<1>6. StreamInv(s)'
  <2>1. StreamInv(s)
    BY DEF Order, FlowInv
  <2>2. /\ muxing_queue[s] \in Seq(PacketIds \cup {NullPacket})
        /\ Ordered(muxing_queue[s])
    BY <2>1, TakenTypes DEF StreamInv
  <2>3. muxing_queue'[s] = Tail(muxing_queue[s])
    BY DEF Base, TypeOK
  <2>4. /\ Ids(muxing_queue[s]) = {x} \cup Ids(muxing_queue'[s])
        /\ Ordered(muxing_queue'[s])
        /\ x = NullPacket => Ids(muxing_queue'[s]) \ {NullPacket} = {}
    BY <2>2, <2>3, TailIds
  <2>5. /\ Queued(s)' \subseteq Queued(s)
        /\ x = NullPacket => Queued(s) = {} /\ Queued(s)' = {}
    BY <2>4 DEF Queued
  <2>6. (Kept(s)' => Intact) /\ (Ended(s)' => Intact)
    BY <1>1 DEF Kept, Ended, Intact, Writable
  <2>7. Intact => Queued(s) = {} /\ Queued(s)' = {} /\ Kept(s)
    BY <2>1, <2>5 DEF StreamInv, Ended, Kept
  <2>8. Queued(s) \subseteq Taken(s) \ Accepted(s)
        /\ Increasing(taken'[s]) /\ (\A y \in Taken(s) : y <= calls'[s])
        /\ InitialPart(Accepted(s), Taken(s))
    BY <1>1, <2>1 DEF StreamInv
  <2>9. eofCalls'[s] = 0 => NullPacket \notin Ids(muxing_queue'[s])
    BY <2>1, <2>4 DEF StreamInv
  <2>10. Kept(s)' => Taken(s) \subseteq Accepted(s)
    BY <1>3, <2>1, <2>6, <2>7 DEF StreamInv
  <2> QED
    BY <1>2, <1>3, <2>4, <2>5, <2>6, <2>7, <2>8, <2>9, <2>10 DEF StreamInv
<1> QED
  BY <1>4, <1>5, <1>6 DEF Order, FlowInv

(* A send failed: the stream ends, and the packet is not taken after all,  *)
(* or the file is not what it should be.                                   *)
LEMMA SendFailedStep ==
  ASSUME Base, Base', Order, DrainInv, SendFailed
  PROVE  Order'
<1>a. PICK s \in Streams : s = call.stream
  BY DEF SendFailed, Base, HoldInv
<1>1. /\ Failing /\ ~Sending /\ main = "sent" /\ tq = "up"
  BY DEF SendFailed, Failing, Sending, Base, PlaceInv, TypeOK
<1>2. /\ main' # "sent" /\ muxFinished' = muxFinished \cup {s}
      /\ UNCHANGED <<accepted, pending, ret, calls, eofCalls, muxing_queue, fileFull,
                     threadRet>>
      /\ status' = "ok" => status = "ok"
  <2>1. UNCHANGED <<accepted, pending, ret>>
    BY SendSide DEF SendFailed
  <2>2. call.from # "sent"
    BY DEF Base, TypeOK
  <2> QED
    BY <1>a, <2>1, <2>2 DEF SendFailed, SubmitFails, ExitProgram, queueVars, muxVars
<1>3. \A r : Accepted(r)' = Accepted(r) /\ Queued(r)' = Queued(r)
  BY <1>2 DEF Accepted, Queued
<1>4. \A r : Waiting(r) = {} /\ Waiting(r)' = {} /\ Lost(r)' = {}
  BY <1>1, <1>2 DEF Waiting, Lost, Sending, Failing
<1>5. AcceptInv' /\ SendInv'
  BY <1>1, <1>2 DEF Order, AcceptInv, SendInv, Sending, Failing, TQ!NoCall
<1>6. ASSUME NEW r \in Streams, r # s
      PROVE  StreamInv(r)'
  <2>1. taken'[r] = taken[r] /\ calls[r] <= calls'[r]
    BY <1>2, <1>6, <1>a, TakenTypes DEF SendFailed, Base, TypeOK
  <2>2. (Kept(r)' => Kept(r)) /\ (Ended(r)' => Ended(r)) /\ Lost(r) = {}
    BY <1>1, <1>2, <1>6, <1>a DEF Kept, Ended, Intact, Writable, Lost
  <2> QED
    BY <1>2, <1>3, <1>4, <2>1, <2>2, StreamKept DEF Order, FlowInv
<1>7. StreamInv(s)'
  <2>1. StreamInv(s) /\ SendInv /\ s \notin muxFinished /\ Kept(s)
    BY <1>1, <1>a DEF Order, FlowInv, SendInv, Kept
  <2>2. call.from \in {"run", "flush"}
    BY <1>1, <1>a DEF Base, TypeOK
  <2>3. CASE call.from = "flush"
    <3>1. ~Intact'
      <4>1. ret[Main] = "EOF" => ~Writable'
        BY <1>1, <1>2, <2>1 DEF SendInv, Writable
      <4>2. ret[Main] # "EOF" => status' = "fatal"
        BY <2>3 DEF SendFailed, SubmitFails, ExitProgram
      <4> QED
        BY <4>1, <4>2 DEF Intact
    <3>2. ~Kept(s)' /\ ~Ended(s)'
      BY <1>2, <3>1 DEF Kept, Ended
    <3>3. taken' = taken
      BY <2>3 DEF SendFailed
    <3>4. Taken(s)' = Taken(s)
      BY <3>3 DEF Taken
    <3> QED
      BY <1>2, <1>3, <1>4, <2>1, <3>2, <3>3, <3>4 DEF StreamInv
  <2>4. CASE call.from = "run"
    <3>1. muxing_queue[s] = <<>> /\ Queued(s) = {}
      BY <1>1, <2>4 DEF DrainInv, Queued, Ids
    <3>2. taken[s] # <<>> /\ Last(taken[s]) \notin Accepted(s)
          /\ Lost(s) = {Last(taken[s])}
      BY <1>1, <1>a, <2>1, <2>4 DEF SendInv, Lost
    <3>3. taken'[s] = SubSeq(taken[s], 1, Len(taken[s]) - 1)
      BY <1>a, <2>4 DEF SendFailed, Base, TypeOK
    <3>4. /\ Ids(taken'[s]) = Ids(taken[s]) \ {Last(taken[s])}
          /\ Increasing(taken'[s])
      <4>1. PICK q \in Seq(PacketIds) : q = taken[s]
        BY TakenTypes
      <4>2. PacketIds \in SUBSET Nat /\ Increasing(q) /\ q # <<>>
        BY <2>1, <3>2, <4>1, AcceptedTypes DEF StreamInv
      <4>3. /\ Ids(SubSeq(q, 1, Len(q) - 1)) = Ids(q) \ {Last(q)}
            /\ Increasing(SubSeq(q, 1, Len(q) - 1))
        BY <4>2, FrontIds
      <4> QED
        BY <3>3, <4>1, <4>3
    <3>5. Taken(s)' = Taken(s) \ {Last(taken[s])}
      BY <3>4 DEF Taken
    <3>6. InitialPart(Accepted(s), Taken(s)')
      <4>1. InitialPart(Accepted(s), Taken(s))
        BY <2>1 DEF StreamInv
      <4>2. InitialPart(Accepted(s), Taken(s) \ {Last(taken[s])})
        BY <3>2, <4>1, InitialParts
      <4> QED
        BY <3>5, <4>2
    <3>7. /\ Taken(s)' \subseteq Accepted(s)
          /\ \A y \in Taken(s)' : y <= calls'[s]
      BY <1>2, <1>4, <2>1, <3>1, <3>2, <3>5 DEF StreamInv
    <3>8. Ordered(muxing_queue'[s]) /\ (eofCalls'[s] = 0 => NullPacket \notin Ids(muxing_queue'[s]))
      BY <1>2, <2>1 DEF StreamInv
    <3> QED
      BY <1>2, <1>3, <1>4, <3>1, <3>4, <3>6, <3>7, <3>8 DEF StreamInv
  <2> QED
    BY <2>2, <2>3, <2>4
<1> QED
  BY <1>5, <1>6, <1>7 DEF Order, FlowInv

(* Before there is a queue, a packet or an end goes into the muxing queue. *)
LEMMA QueuePacketStep ==
  ASSUME Base, Base', Order, NEW s \in Streams, tq = "none", main = "run",
         NEW x \in PacketIds \cup {NullPacket}, queue_packet(s, x),
         UNCHANGED <<tqVars, muxFinished, fileFull, threadRet>>,
         \A r \in Streams : calls[r] <= calls'[r] /\ (eofCalls'[r] = 0 => eofCalls[r] = 0),
         x # NullPacket => x = calls[s] + 1 /\ calls'[s] = x /\ eofCalls[s] = 0,
         x = NullPacket => eofCalls'[s] # 0
  PROVE  Order'
<1>1. /\ main' \in {"run", "close"} /\ (status' = "ok" => status = "ok")
      /\ UNCHANGED <<accepted, pending, ret>>
  BY DEF queue_packet, Enqueue, SubmitFails, ExitProgram, tqVars
<1>2. \A r : /\ Accepted(r)' = Accepted(r) /\ Waiting(r) = {} /\ Waiting(r)' = {}
             /\ Lost(r) = {} /\ Lost(r)' = {}
  BY <1>1 DEF Accepted, Waiting, Lost, Sending, Failing
<1>3. AcceptInv' /\ SendInv'
  BY <1>1 DEF Order, AcceptInv, SendInv, Sending, Failing, TQ!NoCall
<1>4. \A r \in Streams : Kept(r) /\ ~Ended(r) /\ ~Ended(r)'
  BY DEF Base, PlaceInv, Kept, Ended
<1>5. \/ UNCHANGED <<taken, muxing_queue>>
      \/ /\ muxing_queue' = [muxing_queue EXCEPT ![s] = Append(@, x)]
         /\ taken' = IF x = NullPacket THEN taken
                                       ELSE [taken EXCEPT ![s] = Append(@, x)]
  BY DEF queue_packet, Enqueue, queueVars
<1>6. ASSUME NEW r \in Streams, r # s \/ UNCHANGED <<taken, muxing_queue>>
      PROVE  StreamInv(r)'
  <2>1. taken'[r] = taken[r] /\ muxing_queue'[r] = muxing_queue[r]
    BY <1>5, <1>6 DEF Base, TypeOK
  <2> QED
    BY <1>2, <1>4, <2>1, StreamKept DEF Order, FlowInv
<1>7. ASSUME muxing_queue' = [muxing_queue EXCEPT ![s] = Append(@, x)],
             taken' = IF x = NullPacket THEN taken
                                        ELSE [taken EXCEPT ![s] = Append(@, x)]
      PROVE  StreamInv(s)'
  <2>1. StreamInv(s)
    BY DEF Order, FlowInv
  <2>2. PICK q \in Seq(PacketIds \cup {NullPacket}) : q = muxing_queue[s]
    BY TakenTypes
  <2>3. PICK t \in Seq(PacketIds) : t = taken[s]
    BY TakenTypes
  <2>4. muxing_queue'[s] = Append(q, x)
        /\ taken'[s] = IF x = NullPacket THEN t ELSE Append(t, x)
    BY <1>7, <2>2, <2>3 DEF Base, TypeOK
  <2>5. PacketIds \in SUBSET Nat /\ PacketIds \cup {NullPacket} \in SUBSET Nat
        /\ NullPacket \notin PacketIds
    BY DEF PacketIds, NullPacket
  <2>6. Ids(muxing_queue'[s]) = Ids(muxing_queue[s]) \cup {x}
    <3>1. Ids(Append(q, x)) = Ids(q) \cup {x}
      BY <2>5, AppendIds
    <3> QED
      BY <2>2, <2>4, <3>1
  <2>7. Increasing(t) /\ Ordered(q) /\ (eofCalls[s] = 0 => NullPacket \notin Ids(q))
        /\ Queued(s) \subseteq Taken(s) \ Accepted(s)
        /\ InitialPart(Accepted(s), Taken(s))
        /\ Taken(s) \subseteq Accepted(s) \cup Queued(s)
        /\ \A y \in Taken(s) : y <= calls[s]
    BY <1>2, <1>4, <2>1, <2>2, <2>3 DEF StreamInv
  <2>8. CASE x = NullPacket
    <3>1. Queued(s)' = Queued(s) /\ Taken(s)' = Taken(s) /\ taken'[s] = taken[s]
      BY <2>3, <2>4, <2>6, <2>8 DEF Queued, Taken
    <3>2. Ordered(muxing_queue'[s])
      BY <2>4, <2>7, <2>8, OrderedAppend
    <3>3. \A y \in Taken(s) : y <= calls'[s]
      <4> SUFFICES ASSUME NEW y \in Taken(s) PROVE y <= calls'[s]
        OBVIOUS
      <4>1. y <= calls[s] /\ y \in Nat /\ calls[s] \in Nat /\ calls'[s] \in Nat
            /\ calls[s] <= calls'[s]
        BY <2>7, TakenTypes DEF Base, TypeOK
      <4> QED
        BY <4>1
    <3> QED
      BY <1>2, <1>4, <2>3, <2>7, <2>8, <3>1, <3>2, <3>3 DEF StreamInv
  <2>9. CASE x # NullPacket
    <3>0. x \in PacketIds /\ x \in Nat /\ x = calls[s] + 1 /\ calls'[s] = x
          /\ NullPacket \notin Ids(q) /\ calls[s] \in Nat
      BY <2>5, <2>7, <2>9, TakenTypes
    <3>1. ASSUME NEW y \in Taken(s) PROVE y < x /\ y <= x
      <4>1. y \in Nat /\ y <= calls[s]
        BY <2>7, TakenTypes
      <4> QED
        BY <3>0, <4>1
    <3>2. \A y \in Ids(q) \ {NullPacket} : y < x
      BY <2>2, <2>7, <3>1 DEF Queued
    <3>3. Ordered(muxing_queue'[s])
      BY <2>4, <2>7, <2>9, <3>0, <3>2, OrderedAppend
    <3>4. /\ Ids(taken'[s]) = Ids(taken[s]) \cup {x} /\ Increasing(taken'[s])
      <4>1. /\ Ids(Append(t, x)) = Ids(t) \cup {x}
            /\ Increasing(t) /\ (\A y \in Ids(t) : y < x) => Increasing(Append(t, x))
        BY <2>5, <3>0, AppendIds
      <4> QED
        BY <2>3, <2>4, <2>7, <2>9, <3>1, <4>1 DEF Taken
    <3>5. Taken(s)' = Taken(s) \cup {x} /\ Queued(s)' = Queued(s) \cup {x}
      BY <2>6, <2>9, <3>4 DEF Taken, Queued
    <3>6. x \notin Taken(s) /\ x \notin Accepted(s)
      <4>1. x \notin Taken(s)
        BY <3>0, <3>1
      <4> QED
        BY <2>7, <4>1 DEF InitialPart
    <3>7. InitialPart(Accepted(s), Taken(s)')
      <4>1. InitialPart(Accepted(s), Taken(s) \cup {x})
        BY <2>7, <3>1, InitialParts
      <4> QED
        BY <3>5, <4>1
    <3>8. \A y \in Taken(s)' : y <= calls'[s]
      BY <3>0, <3>1, <3>5
    <3>9. Queued(s)' \subseteq Taken(s)' \ Accepted(s)
          /\ Taken(s)' \subseteq Accepted(s) \cup Queued(s)'
      BY <2>7, <3>5, <3>6
    <3>10. NullPacket \notin Ids(muxing_queue'[s])
      BY <2>2, <2>6, <2>9, <3>0
    <3> QED
      BY <1>2, <1>4, <3>3, <3>4, <3>7, <3>8, <3>9, <3>10 DEF StreamInv
  <2> QED
    BY <2>8, <2>9
<1> QED
  BY <1>3, <1>5, <1>6, <1>7 DEF Order, FlowInv

(* of_output_packet, in all its cases.                                     *)
LEMMA OutputStep ==
  ASSUME Base, Base', Order, EndInv, DrainInv, NEW s \in Streams, of_output_packet(s)
  PROVE  Order'
<1>0. main = "run" /\ UNCHANGED <<fileFull, threadRet>>
  BY DEF of_output_packet, muxVars
<1>a. calls \in [Streams -> Nat] /\ eofCalls \in [Streams -> Nat]
  BY DEF Base, TypeOK
<1>1. CASE /\ eofCalls[s] = 0 /\ calls[s] < MaxPackets
           /\ calls' = [calls EXCEPT ![s] = @ + 1] /\ UNCHANGED eofCalls
           /\ submit_packet(s, calls'[s])
  <2>1. PICK x \in PacketIds : x = calls'[s] /\ x = calls[s] + 1 /\ x # NullPacket
    BY <1>1, CallFacts, AcceptedTypes DEF Base
  <2>2. \A r \in Streams : calls[r] <= calls'[r] /\ (eofCalls'[r] = 0 => eofCalls[r] = 0)
    BY <1>1, <1>a
  <2>3. CASE tq = "none" /\ queue_packet(s, x) /\ UNCHANGED <<tqVars, muxFinished>>
    BY <1>0, <1>1, <2>1, <2>2, <2>3, QueuePacketStep
  <2>4. CASE tq = "up" /\ SubmitEnd(s, "run") /\ UNCHANGED queueVars
    BY <1>0, <2>2, <2>4, EndStep DEF queueVars
  <2>5. CASE /\ tq = "up" /\ s \notin muxFinished /\ SubmitSend(s, calls'[s], "run")
             /\ taken' = [taken EXCEPT ![s] = Append(@, calls'[s])] /\ UNCHANGED queueVars
    BY <1>0, <1>1, <2>5, SendNewStep DEF queueVars
  <2> QED
    BY <1>1, <2>1, <2>3, <2>4, <2>5 DEF submit_packet, thread_submit_packet
<1>2. CASE /\ eofCalls' = [eofCalls EXCEPT ![s] = @ + 1] /\ UNCHANGED calls
           /\ submit_packet(s, NullPacket)
  <2>2. /\ \A r \in Streams : calls[r] <= calls'[r] /\ (eofCalls'[r] = 0 => eofCalls[r] = 0)
        /\ eofCalls'[s] # 0
    BY <1>2, <1>a
  <2>3. CASE tq = "none" /\ queue_packet(s, NullPacket) /\ UNCHANGED <<tqVars, muxFinished>>
    BY <1>0, <2>2, <2>3, QueuePacketStep
  <2>4. CASE tq = "up" /\ SubmitEnd(s, "run") /\ UNCHANGED queueVars
    BY <1>0, <2>2, <2>4, EndStep DEF queueVars
  <2> QED
    BY <1>2, <2>3, <2>4 DEF submit_packet, thread_submit_packet
<1> QED
  BY <1>1, <1>2 DEF of_output_packet

(* thread_start takes a packet or an end out of a muxing queue.            *)
LEMMA FlushStep ==
  ASSUME Base, Base', Order, EndInv, FlushPacket
  PROVE  Order'
<1>1. PICK s \in Streams : s = idx
  BY LoopFacts DEF FlushPacket, Base, TypeOK
<1>2. PICK x \in PacketIds \cup {NullPacket} : x = Head(muxing_queue[s])
  BY <1>1, QueueHead DEF FlushPacket, Base
<1>3. /\ main = "flush" /\ muxing_queue[s] # <<>>
      /\ thread_submit_packet(s, x, "flush")
      /\ muxing_queue' = [muxing_queue EXCEPT ![s] = Tail(@)]
      /\ UNCHANGED <<calls, eofCalls, fileFull, threadRet>>
  BY <1>1, <1>2 DEF FlushPacket, muxVars
<1>4. CASE (x = NullPacket \/ s \in muxFinished) /\ SubmitEnd(s, "flush")
  BY <1>2, <1>3, <1>4, EndQueuedStep
<1>5. CASE x # NullPacket /\ s \notin muxFinished /\ SubmitSend(s, x, "flush")
           /\ taken' = taken
  BY <1>2, <1>3, <1>5, SendQueuedStep
<1> QED
  BY <1>3, <1>4, <1>5 DEF thread_submit_packet

(* Every step keeps the order of the packets.                              *)
LEMMA StepOrder ==
  ASSUME Base, Base', Order, EndInv, DrainInv, [Next]_vars
  PROVE  Order'
  BY OutputStep, FlushStep, ResumeStep, SendFailedStep, QuietSteps

-----------------------------------------------------------------------------
(* thread_start goes through the streams.                                  *)
LEMMA StepDrain ==
  ASSUME Base, DrainInv, [Next]_vars
  PROVE  DrainInv'
<1> SUFFICES ASSUME tq' = "up" PROVE DrainInv'
  BY DEF DrainInv
<1> DEFINE AllDrained == \A s \in Streams : muxing_queue[s] = <<>>
           Drained    == \A s \in Streams : s < idx => muxing_queue[s] = <<>>
           Behind     == \/ main = "run"
                         \/ main = "sent" /\ call.from = "run"
                         \/ main \in {"stop", "close"} /\ status # "fatal"
           Within     == main = "flush" \/ (main = "sent" /\ call.from = "flush")
<1>0. tq = "up" => (Within => Drained) /\ (Behind => AllDrained)
  BY DEF DrainInv
<1> SUFFICES (Within => Drained)' /\ (Behind => AllDrained)'
  BY DEF DrainInv
<1>a. /\ idx \in 0 .. NbStreams /\ NbStreams \in Nat /\ call.from \in {"run", "flush"}
      /\ Streams = 0 .. NbStreams - 1
  BY MuxAssumption DEF Base, TypeOK, Streams
<1>1. ASSUME NEW s \in Streams, of_stream_init(s)
      PROVE  (Within => Drained)' /\ (Behind => AllDrained)'
  <2>1. tq = "none"
    BY <1>1 DEF of_stream_init, Base, PlaceInv
  <2>2. main' = "flush" /\ idx' = 0
    BY <1>1, <2>1 DEF of_stream_init
  <2> QED
    BY <1>a, <2>2
<1>2. ASSUME NEW s \in Streams, of_output_packet(s)
      PROVE  (Within => Drained)' /\ (Behind => AllDrained)'
  <2>1. main = "run" /\ tq = "up"
    BY <1>2 DEF of_output_packet
  <2>2. muxing_queue' = muxing_queue /\ (main' = "run" \/ (main' = "sent" /\ call'.from = "run"))
    BY <1>2, <2>1 DEF of_output_packet, submit_packet, thread_submit_packet, SubmitEnd,
       SubmitSend, queueVars
  <2> QED
    BY <1>0, <2>1, <2>2
<1>3. CASE UNCHANGED <<tq, main, call, idx, status, muxing_queue>>
  BY <1>0, <1>3
<1>4. CASE SendReturned
  <2>1. /\ main = "sent" /\ main' = call.from /\ tq = "up"
        /\ UNCHANGED <<idx, muxing_queue>>
    BY <1>4 DEF SendReturned, queueVars
  <2> QED
    BY <1>0, <1>a, <2>1
<1>5. CASE SendFailed
  <2>1. /\ main = "sent" /\ tq = "up" /\ UNCHANGED <<idx, muxing_queue>>
        /\ main' = call.from \/ (main' = "close" /\ status' = "fatal")
           \/ (main' = "run" /\ call.from = "run")
    BY <1>5 DEF SendFailed, SubmitFails, ExitProgram, queueVars
  <2> QED
    BY <1>0, <1>a, <2>1
<1>6. CASE FlushPacket
  <2>1. /\ main = "flush" /\ tq = "up" /\ idx' = idx
        /\ main' = "flush" \/ (main' = "sent" /\ call'.from = "flush")
        /\ muxing_queue' = [muxing_queue EXCEPT ![idx] = Tail(@)]
    BY <1>6 DEF FlushPacket, thread_submit_packet, SubmitEnd, SubmitSend
  <2>2. \A s \in Streams : s < idx => muxing_queue'[s] = muxing_queue[s]
    <3> SUFFICES ASSUME NEW s \in Streams, s < idx PROVE muxing_queue'[s] = muxing_queue[s]
      OBVIOUS
    <3>1. s # idx
      BY <1>a
    <3> QED
      BY <2>1, <3>1 DEF Base, TypeOK
  <2> QED
    BY <1>0, <2>1, <2>2
<1>7. CASE FlushNext
  <2>1. /\ main = "flush" /\ tq = "up" /\ muxing_queue' = muxing_queue
        /\ idx < NbStreams => muxing_queue[idx] = <<>>
        /\ \/ idx < NbStreams /\ idx' = idx + 1 /\ main' = main
           \/ idx = NbStreams /\ idx' = 0 /\ main' = "run"
    BY <1>7 DEF FlushNext, queueVars
  <2>2. CASE idx < NbStreams /\ idx' = idx + 1 /\ main' = main
    <3>1. \A s \in Streams : s < idx + 1 => s < idx \/ s = idx
      BY <1>a
    <3> QED
      BY <1>0, <2>1, <2>2, <3>1
  <2>3. CASE idx = NbStreams /\ idx' = 0 /\ main' = "run"
    <3>1. \A s \in Streams : s < idx
      BY <1>a, <2>3
    <3> QED
      BY <1>0, <2>1, <2>3, <3>1
  <2> QED
    BY <2>1, <2>2, <2>3
<1>8. CASE of_write_trailer \/ StopStream \/ of_close
  <2>1. /\ tq = "up" /\ main' = "stop" /\ muxing_queue' = muxing_queue
        /\ main \in {"run", "stop", "close"} /\ status' = status
    BY <1>8 DEF of_write_trailer, StopStream, of_close, queueVars
  <2> QED
    BY <1>0, <2>1
<1>9. ~JoinThread
  BY DEF JoinThread
<1>10. CASE ThreadStep \/ UNCHANGED vars \/ ResumeSend
  BY <1>3, <1>10, ThreadSide DEF vars, mainVars, queueVars, ResumeSend
<1> QED
  BY <1>1, <1>2, <1>4, <1>5, <1>6, <1>7, <1>8, <1>9, <1>10, WhoSteps
     DEF CallerStep, MainStep

(* What the steps that hand a packet or an end over do to the queue.       *)
LEMMA HandOver ==
  ASSUME Base, Order, EndInv,
         (\E s \in Streams : of_output_packet(s)) \/ FlushPacket \/ ResumeSend
  PROVE  \/ UNCHANGED <<tqVars, muxFinished>> /\ main = "run" /\ main' # "sent"
         \/ \E s \in Streams :
              /\ sendFinished' = sendFinished \cup {s}
              /\ muxFinished' = muxFinished \cup {s}
              /\ main' = main /\ main # "sent"
              /\ UNCHANGED fifo
         \/ \E s \in Streams, x \in PacketIds :
              /\ Outcome(s, x) /\ s \notin sendFinished
              /\ main' = "sent" /\ call'.stream = s /\ muxFinished' = muxFinished
              /\ sendFinished \subseteq muxFinished
<1>1. ASSUME NEW s \in Streams, NEW x \in PacketIds \cup {NullPacket}, NEW f,
             thread_submit_packet(s, x, f), f = main, main \in {"run", "flush"}
      PROVE  \/ \E r \in Streams :
                  /\ sendFinished' = sendFinished \cup {r}
                  /\ muxFinished' = muxFinished \cup {r}
                  /\ main' = main /\ main # "sent"
                  /\ UNCHANGED fifo
             \/ \E r \in Streams, y \in PacketIds :
                  /\ Outcome(r, y) /\ r \notin sendFinished
                  /\ main' = "sent" /\ call'.stream = r /\ muxFinished' = muxFinished
                  /\ sendFinished \subseteq muxFinished
  <2>1. CASE SubmitEnd(s, f)
    BY <1>1, <2>1, SendSide DEF SubmitEnd, TQ!tq_send_finish
  <2>2. CASE x # NullPacket /\ s \notin muxFinished /\ SubmitSend(s, x, f)
    <3>1. x \in PacketIds /\ sendFinished \subseteq muxFinished /\ s \notin sendFinished
      BY <1>1, <2>2 DEF EndInv, Failing
    <3>2. Outcome(s, x)
      BY <2>2, <3>1, SendOutcome DEF SubmitSend
    <3> QED
      BY <2>2, <3>1, <3>2 DEF SubmitSend
  <2> QED
    BY <1>1, <2>1, <2>2 DEF thread_submit_packet
<1>2. ASSUME NEW s \in Streams, of_output_packet(s)
      PROVE  \/ UNCHANGED <<tqVars, muxFinished>> /\ main = "run" /\ main' # "sent"
             \/ \E x \in PacketIds \cup {NullPacket} :
                  thread_submit_packet(s, x, "run") /\ main = "run"
  <2>1. PICK x \in PacketIds \cup {NullPacket} : submit_packet(s, x) /\ main = "run"
    <3>1. calls[s] < MaxPackets /\ calls' = [calls EXCEPT ![s] = @ + 1]
            => calls'[s] \in PacketIds
      BY CallFacts DEF Base
    <3> QED
      BY <1>2, <3>1 DEF of_output_packet
  <2>2. CASE thread_submit_packet(s, x, "run")
    BY <2>1, <2>2
  <2>3. CASE queue_packet(s, x) /\ UNCHANGED <<tqVars, call, muxFinished>>
    BY <2>1, <2>3 DEF queue_packet, Enqueue, SubmitFails, ExitProgram
  <2> QED
    BY <2>1, <2>2, <2>3 DEF submit_packet
<1>3. CASE FlushPacket
  <2>1. idx \in Streams
    BY <1>3, LoopFacts DEF FlushPacket, Base, TypeOK
  <2>2. /\ Head(muxing_queue[idx]) \in PacketIds \cup {NullPacket}
        /\ thread_submit_packet(idx, Head(muxing_queue[idx]), "flush") /\ main = "flush"
    BY <1>3, <2>1, QueueHead DEF FlushPacket, Base
  <2> QED
    BY <1>1, <2>1, <2>2
<1>4. CASE ResumeSend
  <2>1. /\ Sending /\ ~Failing /\ main = "sent" /\ main' = "sent" /\ call' = call
        /\ muxFinished' = muxFinished
        /\ TQ!SendLoop(Main, pending[Main].stream, pending[Main].item)
    BY <1>4 DEF ResumeSend, TQ!ResumeSend, Sending, Failing, mainVars
  <2>2. PICK s \in Streams : s = call.stream
    BY <2>1 DEF Base, HoldInv
  <2>3. pending[Main].stream = s /\ s \notin muxFinished /\ sendFinished \subseteq muxFinished
    BY <2>1, <2>2 DEF Order, SendInv, EndInv
  <2>4. pending[Main].item \in PacketIds
    <3>1. pending[Main].item \in Waiting(s)
      BY <2>1, <2>2 DEF Waiting
    <3> QED
      BY <3>1, TakenTypes DEF Order, FlowInv, StreamInv
  <2>5. Outcome(s, pending[Main].item)
    BY <2>1, <2>3, <2>4, SendOutcome
  <2> QED
    BY <2>1, <2>2, <2>3, <2>4, <2>5
<1> QED
  BY <1>1, <1>2, <1>3, <1>4

(* The main thread only ends streams, and puts nothing behind their ends.  *)
LEMMA MainEnds ==
  ASSUME Base, Base', Order, EndInv, CallerStep \/ MainStep
  PROVE  /\ sendFinished \subseteq sendFinished'
         /\ sendFinished = Streams /\ fifo = <<>> => fifo' = <<>>
         /\ main' \in {"run", "flush", "sent"} =>
              sendFinished' \subseteq muxFinished'
                \cup (IF Failing' THEN {call'.stream} ELSE {})
<1> DEFINE Goal == /\ sendFinished \subseteq sendFinished'
                   /\ sendFinished = Streams /\ fifo = <<>> => fifo' = <<>>
                   /\ main' \in {"run", "flush", "sent"} =>
                        sendFinished' \subseteq muxFinished'
                          \cup (IF Failing' THEN {call'.stream} ELSE {})
<1> SUFFICES Goal
  OBVIOUS
<1>0. main \in {"run", "flush", "sent"} =>
        sendFinished \subseteq muxFinished \cup (IF Failing THEN {call.stream} ELSE {})
  BY DEF EndInv
<1>1. CASE UNCHANGED <<tqVars, muxFinished>> /\ main \in {"run", "flush"}
  <2>1. ~Failing
    BY <1>1 DEF Failing
  <2> QED
    BY <1>0, <1>1, <2>1 DEF tqVars
<1>2. CASE (\E s \in Streams : of_output_packet(s)) \/ FlushPacket \/ ResumeSend
  <2>1. ASSUME NEW s \in Streams, sendFinished' = sendFinished \cup {s},
               muxFinished' = muxFinished \cup {s}, main' = main, main # "sent",
               UNCHANGED fifo
        PROVE  Goal
    <3>1. ~Failing
      BY <2>1 DEF Failing
    <3> QED
      BY <1>0, <2>1, <3>1
  <2>2. ASSUME NEW s \in Streams, NEW x \in PacketIds, Outcome(s, x),
               s \notin sendFinished, main' = "sent", call'.stream = s,
               muxFinished' = muxFinished, sendFinished \subseteq muxFinished
        PROVE  Goal
    <3>1. CASE Waits(s, x) \/ Accepts(s, x)
      BY <2>2, <3>1 DEF Waits, Accepts
    <3>2. CASE Refuses(s)
      <4>1. Failing'
        BY <2>2, <3>2 DEF Refuses, Failing, TQ!NoCall
      <4> QED
        BY <2>2, <3>2, <4>1 DEF Refuses
    <3> QED
      BY <2>2, <3>1, <3>2 DEF Outcome
  <2> QED
    BY <1>1, <1>2, <2>1, <2>2, HandOver
<1>3. CASE SendFailed
  <2>1. /\ sendFinished' = sendFinished \cup {call.stream}
        /\ muxFinished' = muxFinished \cup {call.stream}
        /\ UNCHANGED fifo /\ main = "sent"
    BY <1>3, SendSide DEF SendFailed, TQ!tq_send_finish
  <2> QED
    BY <1>0, <2>1
<1>4. CASE SendReturned
  <2>1. UNCHANGED <<sendFinished, muxFinished, fifo>> /\ main = "sent" /\ ~Failing
    BY <1>4 DEF SendReturned, tqVars, Failing
  <2> QED
    BY <1>0, <2>1
<1>5. CASE FlushNext \/ \E s \in Streams : of_stream_init(s)
  BY <1>1, <1>5 DEF FlushNext, of_stream_init
<1>6. CASE of_write_trailer \/ of_close
  <2>1. UNCHANGED <<sendFinished, fifo>> /\ main' \notin {"run", "flush", "sent"}
    BY <1>6 DEF of_write_trailer, of_close, tqVars
  <2> QED
    BY <2>1
<1>7. CASE StopStream
  <2>1. sendFinished \subseteq sendFinished' /\ fifo' = fifo /\ main' = "stop"
    BY <1>7, SendSide DEF StopStream, TQ!tq_send_finish
  <2> QED
    BY <2>1
<1>8. CASE JoinThread
  <2>1. sendFinished' = sendFinished /\ fifo' = <<>> /\ main' = "close"
    BY <1>8 DEF JoinThread, TQ!tq_free, TQ!flagVars
  <2> QED
    BY <2>1
<1> QED
  BY <1>2, <1>3, <1>4, <1>5, <1>6, <1>7, <1>8 DEF CallerStep, MainStep

(* Every step keeps the ends of the streams.                               *)
LEMMA StepEnd ==
  ASSUME Base, Base', Order, EndInv, [Next]_vars
  PROVE  EndInv'
<1> DEFINE E1 == main \in {"run", "flush", "sent"} =>
                   sendFinished \subseteq muxFinished
                     \cup (IF Failing THEN {call.stream} ELSE {})
           E2 == recvFinished \subseteq sendFinished \/ ~Writable
           E3 == thread \notin {"finish", "exit"} => threadRet = "ok"
           E4 == thread \in {"finish", "exit"} /\ threadRet = "ok" =>
                   sendFinished = Streams /\ recvFinished = Streams /\ fifo = <<>>
<1>0. E1 /\ E2 /\ E3 /\ E4
  BY DEF EndInv
<1> SUFFICES E1' /\ E2' /\ E3' /\ E4'
  BY DEF EndInv
<1>a. Writable' => Writable
  BY WritableStays
<1>b. /\ sendFinished \subseteq Streams /\ recvFinished \subseteq Streams
      /\ sendFinished' \subseteq Streams /\ recvFinished' \subseteq Streams
      /\ threadRet \in {"ok", "error"}
  BY DEF Base, TypeOK, TQ!TypeOK, TQ!Streams, Streams
<1>1. CASE UNCHANGED vars
  <2>1. UNCHANGED <<main, sendFinished, recvFinished, muxFinished, call, pending, ret,
                    thread, threadRet, fifo>>
    BY <1>1 DEF vars, tqVars, mainVars, muxVars
  <2>2. Failing' = Failing
    BY <2>1 DEF Failing, TQ!NoCall
  <2> QED
    BY <1>0, <1>a, <2>1, <2>2
<1>2. CASE CallerStep \/ MainStep
  <2>1. E1'
    BY <1>2, MainEnds
  <2>2. UNCHANGED <<recvFinished, threadRet>>
    BY <1>2, MainSide
  <2>3. sendFinished \subseteq sendFinished'
    BY <1>2, MainEnds
  <2>4. E2'
    BY <1>0, <1>a, <2>2, <2>3
  <2>5. CASE UNCHANGED thread
    <3>1. sendFinished = Streams /\ fifo = <<>> => fifo' = <<>> /\ sendFinished' = Streams
      BY <1>2, <1>b, <2>3, MainEnds
    <3> QED
      BY <1>0, <2>1, <2>2, <2>4, <2>5, <3>1
  <2>6. ASSUME NEW s \in Streams, of_stream_init(s), thread' = "start"
        PROVE  E3' /\ E4'
    <3>1. thread = "none"
      BY <2>6 DEF Base, PlaceInv, of_stream_init
    <3> QED
      BY <1>0, <2>2, <2>6, <3>1
  <2> QED
    BY <1>2, <2>1, <2>4, <2>5, <2>6, MainSide
<1>3. CASE ThreadStep
  <2>1. UNCHANGED <<main, sendFinished, muxFinished, call, pending, ret>>
    BY <1>3, ThreadSide DEF mainVars
  <2>2. Failing' = Failing
    BY <2>1 DEF Failing, TQ!NoCall
  <2>3. E1'
    BY <1>0, <2>1, <2>2
  <2>4. CASE ThreadStarts
    <3>1. recvFinished' = recvFinished /\ thread = "start"
          /\ \/ thread' = "receive" /\ threadRet' = threadRet
             \/ thread' = "finish" /\ threadRet' = "error"
      BY <2>4 DEF ThreadStarts, ThreadEnds, tqVars
    <3> QED
      BY <1>0, <1>a, <2>1, <2>3, <3>1
  <2>5. CASE ThreadReceives
    <3>1. recvFinished' \subseteq sendFinished \/ ~Writable
      <4>1. CASE TQ!ReceiveStreamEof
        BY <1>0, <4>1 DEF TQ!ReceiveStreamEof, TQ!EofStreams
      <4>2. CASE TQ!ReceiveItem \/ TQ!ReceiveDone \/ TQ!ReceiveWait
        <5>1. recvFinished' = recvFinished
          BY <4>2 DEF TQ!ReceiveItem, TQ!ReceiveDone, TQ!ReceiveWait, TQ!flagVars
        <5> QED
          BY <1>0, <5>1
      <4> QED
        BY <2>5, <4>1, <4>2 DEF ThreadReceives, TQ!tq_receive
    <3>2. CASE got'.code = "EOF" /\ got'.stream < 0 /\ ThreadEnds("ok")
      <4>1. ~TQ!ReceiveItem
        BY <3>2 DEF TQ!ReceiveItem
      <4>2. ~TQ!ReceiveStreamEof
        <5> SUFFICES ASSUME TQ!ReceiveStreamEof PROVE FALSE
          OBVIOUS
        <5>1. PICK s \in sendFinished : got'.stream = s
          BY DEF TQ!ReceiveStreamEof, TQ!EofStreams
        <5>2. s \in 0 .. NbStreams - 1 /\ NbStreams \in Nat
          BY <1>b, MuxAssumption DEF Streams
        <5> QED
          BY <3>2, <5>1, <5>2
      <4>3. ~TQ!ReceiveWait
        BY <3>2 DEF TQ!ReceiveWait, TQ!Blocked
      <4>4. TQ!ReceiveDone
        BY <2>5, <4>1, <4>2, <4>3 DEF ThreadReceives, TQ!tq_receive
      <4>5. /\ sendFinished \cap recvFinished = Streams /\ fifo = <<>>
            /\ UNCHANGED <<fifo, recvFinished>>
        BY <4>4 DEF TQ!ReceiveDone, TQ!Finished, TQ!queueVars, TQ!flagVars,
           TQ!Streams, Streams
      <4>6. thread' = "finish"
        BY <3>2 DEF ThreadEnds
      <4>7. sendFinished' = Streams /\ recvFinished' = Streams /\ fifo' = <<>>
        BY <1>b, <2>1, <4>5
      <4> QED
        BY <1>a, <2>1, <2>3, <3>1, <4>6, <4>7
    <3>3. CASE thread' \in {"write", "receive"} /\ threadRet' = threadRet
      <4>1. thread = "receive"
        BY <2>5 DEF ThreadReceives
      <4> QED
        BY <1>0, <1>a, <2>1, <2>3, <3>1, <3>3, <4>1
    <3> QED
      BY <2>5, <3>2, <3>3 DEF ThreadReceives
  <2>6. CASE write_packet
    <3>1. recvFinished' = recvFinished /\ thread = "write"
          /\ \/ thread' = "receive" /\ threadRet' = threadRet
             \/ thread' = "finish" /\ threadRet' = "error"
      BY <2>6 DEF write_packet, ThreadEnds, tqVars
    <3> QED
      BY <1>0, <1>a, <2>1, <2>3, <3>1
  <2>7. CASE RefuseStream
    <3>1. fileFull' /\ thread = "write" /\ thread' = "receive" /\ threadRet' = threadRet
      BY <2>7 DEF RefuseStream
    <3>2. ~Writable'
      BY <3>1 DEF Writable
    <3> QED
      BY <1>0, <2>3, <3>1, <3>2
  <2>8. CASE ThreadFinishes
    <3>1. /\ thread = "finish" /\ threadRet' = threadRet /\ thread' \in {"finish", "exit"}
          /\ recvFinished \subseteq recvFinished' /\ fifo' = fifo
      BY <2>8 DEF ThreadFinishes, TQ!tq_receive_finish, TQ!queueVars, tqVars
    <3>2. CASE threadRet = "ok"
      BY <1>0, <1>b, <2>1, <2>3, <3>1, <3>2
    <3>3. CASE threadRet # "ok"
      <4>1. ~Writable'
        BY <3>1, <3>3 DEF Writable
      <4> QED
        BY <2>3, <3>1, <3>3, <4>1
    <3> QED
      BY <3>2, <3>3
  <2> QED
    BY <1>3, <2>4, <2>5, <2>6, <2>7, <2>8 DEF ThreadStep
<1> QED
  BY <1>1, <1>2, <1>3, WhoSteps

-----------------------------------------------------------------------------
(* What the muxer thread received is what the queue accepted first.        *)
FirstReceived ==
  /\ Len(received) \in Nat /\ DOMAIN received = 1 .. Len(received)
  /\ Len(accepted) \in Nat /\ DOMAIN accepted = 1 .. Len(accepted)
  /\ \A i \in DOMAIN received : i \in DOMAIN accepted /\ accepted[i] = received[i]
  /\ fifo = <<>> => accepted = received
  /\ \A r \in Streams : OfStream(received, r) \subseteq Accepted(r)

(* As long as there is a queue.                                            *)
LEMMA ReceivedFirst == Base /\ tq # "freed" => FirstReceived
<1> SUFFICES ASSUME Base, tq # "freed" PROVE FirstReceived
  OBVIOUS
<1>1. TQP!TypeOK /\ TQP!ObjectsNotShared /\ TQP!InOrder
  BY DEF Base, HoldInv, TQP!IInv
<1>2. /\ TQP!Buffered \in Seq(TQP!Packets) /\ Len(TQP!Buffered) = Len(fifo)
  BY <1>1, QueueAssumptions, TQP!BufferedType
<1>3. /\ accepted \in Seq(TQP!Packets) /\ received \in Seq(TQP!Packets)
      /\ fifo \in Seq([stream : TQP!Streams, obj : Objs])
      /\ accepted = received \o TQP!Buffered
  BY <1>1 DEF TQP!TypeOK, TQP!InOrder
<1>4. PICK b \in Seq(TQP!Packets) : b = TQP!Buffered
  BY <1>2
<1>5. /\ Len(received) \in Nat /\ DOMAIN received = 1 .. Len(received)
      /\ Len(accepted) \in Nat /\ DOMAIN accepted = 1 .. Len(accepted)
      /\ Len(b) \in Nat
  BY <1>3, LenProperties
<1>6. /\ accepted = received \o b
      /\ Len(accepted) = Len(received) + Len(b)
      /\ \A i \in 1 .. Len(received) + Len(b) :
           accepted[i] = IF i <= Len(received) THEN received[i] ELSE b[i - Len(received)]
  BY <1>3, <1>4, ConcatProperties
<1>7. \A i \in DOMAIN received : i \in DOMAIN accepted /\ accepted[i] = received[i]
  BY <1>5, <1>6
<1>8. fifo = <<>> => accepted = received
  <2>1. fifo = <<>> => Len(fifo) = 0
    BY <1>3, EmptySeq
  <2>2. fifo = <<>> => b = <<>>
    BY <1>2, <1>4, <2>1, EmptySeq
  <2> QED
    BY <1>3, <1>4, <2>2, ConcatEmptySeq
<1>9. \A r \in Streams : OfStream(received, r) \subseteq Accepted(r)
  BY <1>7 DEF OfStream, Accepted
<1> QED
  BY <1>5, <1>7, <1>8, <1>9 DEF FirstReceived

(* The last packet received lies between the others that were received and *)
(* the ones that were not.                                                 *)
LEMMA LastReceived ==
  ASSUME Base, AcceptInv, tq # "freed", received # <<>>,
         NEW s \in Streams, NEW x \in PacketIds,
         Last(received) = [stream |-> s, item |-> x]
  PROVE  /\ x \in OfStream(received, s)
         /\ \A y \in OfStream(received, s) \ {x} : y < x
         /\ \A t \in Accepted(s) \ OfStream(received, s) : x < t
<1> DEFINE n == Len(received)
<1>1. /\ n \in Nat /\ DOMAIN received = 1 .. n
      /\ DOMAIN accepted = 1 .. Len(accepted) /\ Len(accepted) \in Nat
      /\ \A i \in DOMAIN received : i \in DOMAIN accepted /\ accepted[i] = received[i]
  BY ReceivedFirst DEF FirstReceived
<1>2. n # 0
  BY AcceptedTypes, EmptySeq
<1>3. n \in DOMAIN received /\ received[n].stream = s /\ received[n].item = x
  BY <1>1, <1>2 DEF Last
<1>4. n \in DOMAIN accepted /\ accepted[n] = received[n]
  BY <1>1, <1>3
<1> HIDE DEF n
<1>5. x \in OfStream(received, s)
  BY <1>3 DEF OfStream
<1>6. ASSUME NEW y \in OfStream(received, s) \ {x}
      PROVE  y < x
  <2>1. PICK i \in DOMAIN received : received[i].stream = s /\ received[i].item = y
    BY <1>6 DEF OfStream
  <2>2. i < n /\ i \in DOMAIN accepted /\ accepted[i] = received[i]
    BY <1>1, <1>3, <1>6, <2>1
  <2> QED
    BY <1>3, <1>4, <2>1, <2>2 DEF AcceptInv
<1>7. ASSUME NEW t \in Accepted(s) \ OfStream(received, s)
      PROVE  x < t
  <2>1. PICK i \in DOMAIN accepted : accepted[i].stream = s /\ accepted[i].item = t
    BY <1>7 DEF OfStream, Accepted
  <2>2. i \notin DOMAIN received
    BY <1>1, <1>7, <2>1 DEF OfStream
  <2>3. n < i
    BY <1>1, <2>1, <2>2
  <2> QED
    BY <1>3, <1>4, <2>1, <2>3 DEF AcceptInv
<1> QED
  BY <1>5, <1>6, <1>7

(* What a step of the main thread takes is the packet of a new call.       *)
LEMMA NewTaken ==
  ASSUME Base, Order, CallerStep \/ MainStep, NEW r \in Streams
  PROVE  /\ Taken(r)' \subseteq Taken(r) \cup {calls[r] + 1}
         /\ tq' = "freed" => taken' = taken
<1>0. taken \in [Streams -> Seq(PacketIds)] /\ PacketIds \in SUBSET Nat
  BY DEF Base, TypeOK, PacketIds
<1>1. CASE UNCHANGED taken
  BY <1>1 DEF Taken
<1>2. ASSUME NEW s \in Streams, of_output_packet(s)
      PROVE  /\ Taken(r)' \subseteq Taken(r) \cup {calls[r] + 1}
             /\ tq' = "freed" => taken' = taken
  <2>1. tq' = tq
    BY <1>2 DEF of_output_packet
  <2>2. PICK x \in PacketIds \cup {NullPacket} :
          submit_packet(s, x) /\ (x # NullPacket => x = calls[s] + 1)
    <3>1. calls[s] < MaxPackets /\ calls' = [calls EXCEPT ![s] = @ + 1]
            => calls'[s] \in PacketIds /\ calls'[s] = calls[s] + 1
      BY CallFacts DEF Base
    <3> QED
      BY <1>2, <3>1 DEF of_output_packet
  <2>3. tq = "freed" => taken' = taken
    BY <2>2 DEF submit_packet
  <2>4. \/ taken' = taken
        \/ x # NullPacket /\ taken' = [taken EXCEPT ![s] = Append(@, x)]
    BY <2>2 DEF submit_packet, thread_submit_packet, SubmitEnd, queue_packet, Enqueue
  <2>5. CASE x # NullPacket /\ taken' = [taken EXCEPT ![s] = Append(@, x)]
    <3>1. PICK q \in Seq(PacketIds) : q = taken[s]
      BY <1>0
    <3>2. Ids(Append(q, x)) = Ids(q) \cup {x}
      BY <1>0, <2>5, AppendIds
    <3>3. Taken(r)' \subseteq Taken(r) \cup (IF r = s THEN {x} ELSE {})
      BY <1>0, <2>5, <3>1, <3>2 DEF Taken
    <3> QED
      BY <2>1, <2>2, <2>3, <2>5, <3>3
  <2> QED
    BY <1>1, <2>1, <2>3, <2>4, <2>5
<1>3. CASE SendFailed
  <2>1. /\ Failing /\ main = "sent"
        /\ \/ taken' = taken
           \/ /\ call.from = "run"
              /\ taken' = [taken EXCEPT ![call.stream] = SubSeq(@, 1, Len(@) - 1)]
    BY <1>3 DEF SendFailed, Failing, Base, TypeOK
  <2>2. tq' # "freed"
    BY <1>3, <2>1 DEF SendFailed, Base, PlaceInv
  <2>3. PICK s \in Streams : s = call.stream
    BY <2>1 DEF Base, HoldInv
  <2>4. CASE call.from = "run" /\ taken' = [taken EXCEPT ![s] = SubSeq(@, 1, Len(@) - 1)]
    <3>1. PICK q \in Seq(PacketIds) : q = taken[s]
      BY <1>0
    <3>2. q # <<>> /\ Increasing(q)
      BY <2>1, <2>3, <2>4, <3>1 DEF Order, SendInv, FlowInv, StreamInv
    <3>3. Ids(SubSeq(q, 1, Len(q) - 1)) = Ids(q) \ {Last(q)}
      BY <1>0, <3>2, FrontIds
    <3>4. Taken(r)' \subseteq Taken(r)
      BY <1>0, <2>4, <3>1, <3>3 DEF Taken
    <3> QED
      BY <2>2, <3>4
  <2> QED
    BY <1>1, <2>1, <2>2, <2>3, <2>4
<1>4. CASE FlushPacket
  BY <1>1, <1>4 DEF FlushPacket, thread_submit_packet, SubmitEnd
<1>5. ASSUME \/ of_write_trailer \/ ResumeSend \/ SendReturned \/ FlushNext \/ StopStream
             \/ JoinThread \/ of_close \/ \E s \in Streams : of_stream_init(s)
      PROVE  UNCHANGED taken
  BY <1>5 DEF of_write_trailer, ResumeSend, SendReturned, FlushNext, StopStream,
     JoinThread, of_close, of_stream_init, histVars
<1> QED
  BY <1>1, <1>2, <1>3, <1>4, <1>5 DEF CallerStep, MainStep

-----------------------------------------------------------------------------
(* One more packet in the file.                                            *)
LEMMA WriteOne ==
  ASSUME Base, Order, EndInv, WriteInv, thread = "write", ~fileFull,
         NEW s \in Streams, s = got.stream, NEW x \in PacketIds, x = got.item,
         written' = [written EXCEPT ![s] = Append(@, x)]
  PROVE  /\ Increasing(written'[s])
         /\ Ids(written'[s]) = OfStream(received, s)
         /\ InitialPart(Ids(written'[s]), Taken(s))
<1>0. written \in [Streams -> Seq(PacketIds)] /\ PacketIds \in SUBSET Nat
  BY DEF Base, TypeOK, PacketIds
<1>1. PICK q \in Seq(PacketIds) : q = written[s]
  BY <1>0
<1>2. written'[s] = Append(q, x)
  BY <1>0, <1>1
<1>3. tq # "freed" /\ Writable
  BY DEF Base, PlaceInv, TypeOK, EndInv, Writable
<1>4. received # <<>> /\ Last(received) = [stream |-> s, item |-> x]
  BY DEF WriteInv
<1>5. /\ x \in OfStream(received, s)
      /\ \A y \in OfStream(received, s) \ {x} : y < x
      /\ \A t \in Accepted(s) \ OfStream(received, s) : x < t
  BY <1>3, <1>4, LastReceived DEF Order
<1>6. Increasing(q) /\ Ids(q) = OfStream(received, s) \ {x}
  BY <1>1, <1>3 DEF WriteInv, InFlight
<1>7. Ids(Append(q, x)) = Ids(q) \cup {x} /\ Increasing(Append(q, x))
  BY <1>0, <1>5, <1>6, AppendIds
<1>8. Ids(Append(q, x)) = OfStream(received, s)
  BY <1>5, <1>6, <1>7
<1>9. InitialPart(Ids(q), Taken(s)) /\ InitialPart(Accepted(s), Taken(s))
  BY <1>1 DEF WriteInv, Order, FlowInv, StreamInv
<1>10. OfStream(received, s) \subseteq Accepted(s)
  BY <1>3, ReceivedFirst DEF FirstReceived
<1>11. \A t \in Taken(s) \ (Ids(q) \cup {x}) : x < t
  BY <1>5, <1>7, <1>8, <1>9, <1>10 DEF InitialPart
<1>12. InitialPart(Ids(q) \cup {x}, Taken(s))
  BY <1>5, <1>9, <1>10, <1>11 DEF InitialPart
<1> QED
  BY <1>2, <1>7, <1>8, <1>12

(* What is received was not received before.                               *)
LEMMA ReceivedOnce ==
  ASSUME Base, Base', Order, ThreadReceives, thread' = "write",
         NEW s \in Streams, NEW x \in PacketIds,
         got' = [code |-> "ok", stream |-> s, item |-> x],
         received' = Append(received, [stream |-> s, item |-> x])
  PROVE  /\ OfStream(received', s) \ {x} = OfStream(received, s)
         /\ \A r \in Streams \ {s} : OfStream(received', r) = OfStream(received, r)
         /\ \A r \in Streams : OfStream(received, r) \subseteq OfStream(received', r)
         /\ received' # <<>> /\ Last(received') = [stream |-> s, item |-> x]
<1>1. PICK e \in TQ!Packets : e = [stream |-> s, item |-> x]
  BY AcceptedTypes
<1>2. PICK q \in Seq(TQ!Packets) : q = received
  BY AcceptedTypes
<1>3. received' = Append(q, e)
  BY <1>1, <1>2
<1>4. \A r : OfStream(Append(q, e), r)
               = OfStream(q, r) \cup (IF e.stream = r THEN {e.item} ELSE {})
  BY OfStreamAppend
<1>5. Append(q, e) # <<>> /\ Last(Append(q, e)) = e
  BY AppendProperties, LenProperties DEF Last
<1>6. tq = "up" /\ tq' = "up" /\ accepted' = accepted
  <2>1. tq = "up"
    BY DEF ThreadReceives, Base, PlaceInv, TypeOK
  <2> QED
    BY <2>1, ThreadSide DEF ThreadStep, mainVars
<1>7. /\ Len(received) \in Nat /\ DOMAIN received = 1 .. Len(received)
      /\ \A i \in DOMAIN received : i \in DOMAIN accepted /\ accepted[i] = received[i]
  BY <1>6, ReceivedFirst DEF FirstReceived
<1>8a. (Base /\ tq # "freed")' => FirstReceived'
  BY ReceivedFirst, PTL
<1>8. \A i \in DOMAIN received' : i \in DOMAIN accepted' /\ accepted'[i] = received'[i]
  BY <1>6, <1>8a DEF FirstReceived
<1>9. /\ DOMAIN received' = 1 .. Len(received) + 1
      /\ received'[Len(received) + 1] = e
  BY <1>2, <1>3, AppendProperties, LenProperties
<1>10. x \notin OfStream(received, s)
  <2> SUFFICES ASSUME x \in OfStream(received, s) PROVE FALSE
    OBVIOUS
  <2>1. PICK i \in DOMAIN received : received[i].stream = s /\ received[i].item = x
    BY DEF OfStream
  <2>2. /\ i \in DOMAIN accepted /\ accepted[i].stream = s /\ accepted[i].item = x
        /\ i < Len(received) + 1
    BY <1>7, <2>1
  <2>3. Len(received) + 1 \in DOMAIN accepted /\ accepted[Len(received) + 1] = e
    <3>1. Len(received) + 1 \in DOMAIN received'
      BY <1>7, <1>9
    <3> QED
      BY <1>6, <1>8, <1>9, <3>1
  <2>4. x < x
    BY <1>1, <2>2, <2>3 DEF Order, AcceptInv
  <2> QED
    BY <2>4 DEF PacketIds
<1>11. \A r : OfStream(received', r)
                = OfStream(received, r) \cup (IF s = r THEN {x} ELSE {})
  BY <1>1, <1>2, <1>3, <1>4
<1>12. OfStream(received', s) \ {x} = OfStream(received, s)
  BY <1>10, <1>11
<1>13. \A r \in Streams \ {s} : OfStream(received', r) = OfStream(received, r)
  BY <1>11
<1> QED
  BY <1>1, <1>3, <1>5, <1>11, <1>12, <1>13

(* Every step keeps the file in order.                                     *)
LEMMA StepWrite ==
  ASSUME Base, Base', Order, Order', EndInv, WriteInv, [Next]_vars
  PROVE  WriteInv'
<1> DEFINE File(r) == /\ Increasing(written[r])
                      /\ Ids(written[r]) \subseteq OfStream(received, r)
                      /\ InitialPart(Ids(written[r]), Taken(r))
                      /\ Writable => Ids(written[r]) = OfStream(received, r) \ InFlight(r)
           Held == thread = "write" =>
                     /\ received # <<>>
                     /\ Last(received) = [stream |-> got.stream, item |-> got.item]
<1>0. (\A r \in Streams : File(r)) /\ Held
  BY DEF WriteInv
<1> SUFFICES (\A r \in Streams : File(r)') /\ Held'
  BY DEF WriteInv
<1>a. Writable' => Writable
  BY WritableStays
<1>1. CASE UNCHANGED vars
  <2>1. UNCHANGED <<written, received, got, thread, taken>>
    BY <1>1 DEF vars, tqVars, muxVars, histVars
  <2>2. \A r \in Streams : Taken(r)' = Taken(r) /\ InFlight(r)' = InFlight(r)
    BY <2>1 DEF Taken, InFlight
  <2> QED
    BY <1>0, <1>a, <2>1, <2>2
<1>2. CASE CallerStep \/ MainStep
  <2>1. UNCHANGED <<written, received, got>>
    BY <1>2, MainSide
  <2>2. /\ thread = "write" <=> thread' = "write"
    <3>1. ASSUME NEW s \in Streams, of_stream_init(s), thread' = "start"
          PROVE  thread = "none"
      BY <3>1 DEF Base, PlaceInv, of_stream_init
    <3> QED
      BY <1>2, <3>1, MainSide
  <2>3. Held'
    BY <1>0, <2>1, <2>2
  <2>4. ASSUME NEW r \in Streams
        PROVE  File(r)'
    <3>1. InFlight(r)' = InFlight(r)
      BY <2>1, <2>2 DEF InFlight
    <3>2. Ids(written[r]) \subseteq Taken(r)'
      <4>1. CASE tq' = "freed"
        <5>1. Taken(r)' = Taken(r)
          BY <1>2, <4>1, NewTaken DEF Taken
        <5> QED
          BY <1>0, <5>1 DEF InitialPart
      <4>2. CASE tq' # "freed"
        <5>1. (Base /\ tq # "freed")' => FirstReceived'
          BY ReceivedFirst, PTL
        <5>2. OfStream(received', r) \subseteq Accepted(r)'
          BY <4>2, <5>1 DEF FirstReceived
        <5>3. Accepted(r)' \subseteq Taken(r)'
          BY DEF Order, FlowInv, StreamInv, InitialPart
        <5> QED
          BY <1>0, <2>1, <5>2, <5>3
      <4> QED
        BY <4>1, <4>2
    <3>3. ASSUME NEW a \in Ids(written[r]), NEW t \in Taken(r)' \ Ids(written[r])
          PROVE  a < t
      <4>1. CASE t \in Taken(r)
        BY <1>0, <3>3, <4>1 DEF InitialPart
      <4>2. CASE t = calls[r] + 1
        <5>1. a \in Taken(r) /\ a \in Nat /\ calls[r] \in Nat
          BY <1>0, TakenTypes DEF InitialPart
        <5>2. a <= calls[r]
          BY <5>1 DEF Order, FlowInv, StreamInv
        <5> QED
          BY <4>2, <5>1, <5>2
      <4> QED
        BY <1>2, <3>3, <4>1, <4>2, NewTaken
    <3>4. InitialPart(Ids(written[r]), Taken(r)')
      BY <3>2, <3>3 DEF InitialPart
    <3> QED
      BY <1>0, <1>a, <2>1, <3>1, <3>4
  <2> QED
    BY <2>3, <2>4
<1>3. CASE ThreadStep
  <2>0. \A r \in Streams : Taken(r)' = Taken(r)
    BY <1>3, ThreadSide DEF histVars, Taken
  <2>1. ASSUME thread # "write", thread' # "write", UNCHANGED <<written, received>>
        PROVE  (\A r \in Streams : File(r)') /\ Held'
    <3>1. \A r \in Streams : InFlight(r) = {} /\ InFlight(r)' = {}
      BY <2>1 DEF InFlight
    <3> QED
      BY <1>0, <1>a, <2>0, <2>1, <3>1
  <2>2. ASSUME ~Writable', thread' # "write", UNCHANGED <<written, received>>
        PROVE  (\A r \in Streams : File(r)') /\ Held'
    BY <1>0, <2>0, <2>2
  <2>3. CASE ThreadStarts \/ ThreadFinishes
    <3>1. thread # "write" /\ thread' # "write" /\ UNCHANGED <<written, received>>
      BY <2>3 DEF ThreadStarts, ThreadFinishes, ThreadEnds, TQ!tq_receive_finish,
         TQ!queueVars, tqVars
    <3> QED
      BY <2>1, <3>1
  <2>4. CASE ThreadReceives /\ thread' # "write"
    <3>1. thread = "receive" /\ written' = written
      BY <2>4 DEF ThreadReceives
    <3>2. received' = received
      <4>1. ~TQ!ReceiveItem
        BY <2>4 DEF ThreadReceives, ThreadEnds, TQ!ReceiveItem
      <4> QED
        BY <2>4, <4>1 DEF ThreadReceives, TQ!tq_receive, TQ!ReceiveStreamEof,
           TQ!ReceiveDone, TQ!ReceiveWait, TQ!queueVars
    <3> QED
      BY <2>1, <2>4, <3>1, <3>2
  <2>5. CASE ThreadReceives /\ thread' = "write"
    <3>1. thread = "receive" /\ written' = written
      BY <2>5 DEF ThreadReceives
    <3>2. PICK s \in Streams, x \in PacketIds : s = got'.stream /\ x = got'.item
      BY <2>5, Received
    <3>3. /\ got' = [code |-> "ok", stream |-> s, item |-> x]
          /\ received' = Append(received, [stream |-> s, item |-> x])
      BY <2>5, <3>2, Received
    <3>4. /\ OfStream(received', s) \ {x} = OfStream(received, s)
          /\ \A r \in Streams \ {s} : OfStream(received', r) = OfStream(received, r)
          /\ \A r \in Streams : OfStream(received, r) \subseteq OfStream(received', r)
          /\ received' # <<>> /\ Last(received') = [stream |-> s, item |-> x]
      BY <2>5, <3>3, ReceivedOnce
    <3>5. \A r \in Streams : /\ InFlight(r) = {}
                             /\ InFlight(r)' = IF r = s THEN {x} ELSE {}
      BY <2>5, <3>1, <3>3 DEF InFlight
    <3>6. \A r \in Streams : OfStream(received', r) \ InFlight(r)' = OfStream(received, r)
      BY <3>4, <3>5
    <3> QED
      BY <1>0, <1>a, <2>0, <3>1, <3>2, <3>4, <3>5, <3>6
  <2>6. CASE write_packet
    <3>1. PICK s \in Streams, x \in PacketIds : s = got.stream /\ x = got.item
      BY <2>6 DEF write_packet, Base, HoldInv
    <3>2. CASE thread' = "finish" /\ threadRet' = "error" /\ written' = written
      BY <2>2, <2>6, <3>2 DEF write_packet, tqVars, Writable
    <3>3. CASE thread' = "receive" /\ written' = [written EXCEPT ![s] = Append(@, x)]
      <4>1. /\ Increasing(written'[s])
            /\ Ids(written'[s]) = OfStream(received, s)
            /\ InitialPart(Ids(written'[s]), Taken(s))
        BY <2>6, <3>1, <3>3, WriteOne DEF write_packet
      <4>2. \A r \in Streams \ {s} : written'[r] = written[r] /\ InFlight(r) = {}
        BY <3>1, <3>3 DEF InFlight, Base, TypeOK
      <4>3. received' = received /\ \A r \in Streams : InFlight(r)' = {}
        BY <2>6, <3>3 DEF InFlight, write_packet, tqVars
      <4>4. File(s)'
        BY <2>0, <4>1, <4>3
      <4>5. \A r \in Streams \ {s} : File(r)'
        BY <1>0, <1>a, <2>0, <4>2, <4>3
      <4> QED
        BY <3>3, <4>4, <4>5
    <3> QED
      BY <2>6, <3>1, <3>2, <3>3 DEF write_packet, ThreadEnds
  <2>7. CASE RefuseStream
    <3>1. ~Writable' /\ thread' # "write" /\ UNCHANGED <<written, received>>
      BY <2>7 DEF RefuseStream, TQ!tq_receive_finish, TQ!queueVars, Writable
    <3> QED
      BY <2>2, <3>1
  <2> QED
    BY <1>3, <2>3, <2>4, <2>5, <2>6, <2>7 DEF ThreadStep
<1> QED
  BY <1>1, <1>2, <1>3, WhoSteps

(* Increasing sequences are as long as they have members: if the members   *)
(* of one are the first ones of the other, it is how the other starts.     *)
LEMMA SameStart ==
  ASSUME NEW S \in SUBSET Nat, NEW q \in Seq(S), NEW t \in Seq(S),
         Increasing(q), Increasing(t), InitialPart(Ids(q), Ids(t))
  PROVE  /\ Len(q) \in Nat /\ Len(t) \in Nat /\ Len(q) <= Len(t)
         /\ \A i \in 1 .. Len(q) : q[i] = t[i]
<1> DEFINE n == Len(q)
           l == Len(t)
           Bad == {i \in 1 .. n : ~(i <= l /\ q[i] = t[i])}
<1>1. /\ n \in Nat /\ DOMAIN q = 1 .. n /\ \A i \in 1 .. n : q[i] \in S
      /\ l \in Nat /\ DOMAIN t = 1 .. l /\ \A i \in 1 .. l : t[i] \in S
  BY LenProperties, ElementOfSeq
<1> HIDE DEF n, l
<1>2. Bad = {}
  <2> SUFFICES ASSUME Bad # {} PROVE FALSE
    OBVIOUS
  <2>1. Bad \subseteq Nat
    BY <1>1
  <2>2. PICK m \in Bad : \A i \in Bad : m <= i
    <3>1. PICK m \in Bad : \A i \in Bad : <<i, m>> \notin OpToRel(<, Nat)
      BY <2>1, WFMin, NatLessThanWellFounded, Zenon
    <3>2. \A i \in Bad : ~ (i < m)
      BY <2>1, <3>1 DEF OpToRel
    <3> QED BY <2>1, <3>2
  <2>3. m \in 1 .. n /\ ~(m <= l /\ q[m] = t[m]) /\ q[m] \in Ids(q)
    BY <1>1 DEF Ids
  <2>4. \A i \in 1 .. n : i < m => i <= l /\ q[i] = t[i]
    BY <1>1, <2>2, <2>3
  <2>5. PICK j \in 1 .. l : t[j] = q[m]
    <3>1. q[m] \in Ids(t)
      BY <2>3 DEF InitialPart
    <3> QED
      BY <1>1, <3>1 DEF Ids
  <2>6. ~(j < m)
    <3> SUFFICES ASSUME j < m PROVE FALSE
      OBVIOUS
    <3>1. j \in 1 .. n /\ q[j] = t[j]
      BY <1>1, <2>3, <2>4
    <3>2. q[j] < q[m]
      BY <1>1, <2>3, <3>1 DEF Increasing
    <3>3. q[j] = q[m] /\ q[m] \in Nat
      BY <1>1, <2>3, <2>5, <3>1
    <3> QED
      BY <3>2, <3>3
  <2>7. m \in 1 .. l /\ m < j
    BY <1>1, <2>3, <2>5, <2>6
  <2>8. t[m] < q[m] /\ t[m] \in Ids(t)
    BY <1>1, <2>5, <2>7 DEF Increasing, Ids
  <2>9. t[m] \in Ids(q)
    <3> SUFFICES ASSUME t[m] \notin Ids(q) PROVE FALSE
      OBVIOUS
    <3>1. q[m] < t[m] /\ q[m] \in Nat /\ t[m] \in Nat
      BY <1>1, <2>3, <2>7, <2>8 DEF InitialPart
    <3> QED
      BY <2>8, <3>1
  <2>10. PICK k \in 1 .. n : q[k] = t[m]
    BY <1>1, <2>9 DEF Ids
  <2>11. k < m
    <3> SUFFICES ASSUME ~(k < m) PROVE FALSE
      OBVIOUS
    <3>1. k = m \/ m < k
      BY <2>3, <1>1
    <3>2. m < k => q[m] < q[k]
      BY <1>1, <2>3 DEF Increasing
    <3>3. q[k] < q[m] /\ q[k] \in Nat /\ q[m] \in Nat
      BY <1>1, <2>3, <2>8, <2>10
    <3> QED
      BY <3>1, <3>2, <3>3
  <2>12. k \in 1 .. l /\ t[k] = t[m]
    BY <1>1, <2>4, <2>10, <2>11
  <2>13. t[k] < t[m]
    BY <1>1, <2>7, <2>11, <2>12 DEF Increasing
  <2>14. t[m] \in Nat
    BY <1>1, <2>7
  <2> QED
    BY <2>12, <2>13, <2>14
<1>3. \A i \in 1 .. n : i <= l /\ q[i] = t[i]
  BY <1>2
<1>4. n <= l
  BY <1>1, <1>3
<1> QED
  BY <1>1, <1>3, <1>4 DEF n, l

(* And if they have the same members they are the same.                    *)
LEMMA SameMembers ==
  ASSUME NEW S \in SUBSET Nat, NEW q \in Seq(S), NEW t \in Seq(S),
         Increasing(q), Increasing(t), Ids(q) = Ids(t)
  PROVE  q = t
<1>1. InitialPart(Ids(q), Ids(t)) /\ InitialPart(Ids(t), Ids(q))
  BY DEF InitialPart
<1>2. /\ Len(q) \in Nat /\ Len(t) \in Nat /\ Len(q) <= Len(t)
      /\ \A i \in 1 .. Len(q) : q[i] = t[i]
  BY <1>1, SameStart
<1>3. Len(t) <= Len(q)
  BY <1>1, SameStart
<1>4. Len(q) = Len(t)
  BY <1>2, <1>3
<1> QED
  BY <1>2, <1>4, SeqEqual

-----------------------------------------------------------------------------
(* From the first call to the file.                                        *)
FileInv == Order /\ DrainInv /\ EndInv /\ WriteInv

(* Before anything happens.                                                *)
LEMMA InitFile == Init => FileInv
<1> SUFFICES ASSUME Init PROVE FileInv
  OBVIOUS
<1>1. Ids(<<>>) = {} /\ Increasing(<<>>) /\ Ordered(<<>>)
      /\ \A s : OfStream(<<>>, s) = {}
  BY DEF Ids, Increasing, Ordered, OfStream
<1>2. /\ fifo = <<>> /\ accepted = <<>> /\ received = <<>> /\ sendFinished = {}
      /\ recvFinished = {} /\ pending[Main] = TQ!NoCall
  BY DEF Init, TQ!Init
<1>3. /\ main = "run" /\ tq = "none" /\ thread = "none" /\ threadRet = "ok"
      /\ muxFinished = {}
      /\ \A s \in Streams : /\ muxing_queue[s] = <<>> /\ taken[s] = <<>>
                            /\ written[s] = <<>>
  BY DEF Init
<1>4. \A s \in Streams : Taken(s) = {} /\ Accepted(s) = {} /\ Queued(s) = {}
                         /\ Waiting(s) = {}
  BY <1>1, <1>2, <1>3 DEF Taken, Accepted, Queued, Waiting, Sending
<1>5. FlowInv
  BY <1>1, <1>3, <1>4 DEF FlowInv, StreamInv, InitialPart, Ended
<1>6. AcceptInv
  BY <1>2 DEF AcceptInv
<1>7. SendInv
  BY <1>2, <1>3 DEF SendInv, Sending, Failing
<1>8. DrainInv /\ EndInv
  BY <1>2, <1>3 DEF DrainInv, EndInv
<1>9. WriteInv
  BY <1>1, <1>2, <1>3, <1>4 DEF WriteInv, InitialPart, InFlight
<1> QED
  BY <1>5, <1>6, <1>7, <1>8, <1>9 DEF FileInv, Order

(* And in every reachable state.                                           *)
LEMMA Filed == Spec => [](Base /\ FileInv)
<1>1. Base /\ Base' /\ FileInv /\ [Next]_vars => FileInv'
  <2> SUFFICES ASSUME Base, Base', FileInv, [Next]_vars PROVE FileInv'
    OBVIOUS
  <2>1. Order' /\ DrainInv' /\ EndInv'
    BY StepOrder, StepDrain, StepEnd DEF FileInv
  <2>2. WriteInv'
    BY <2>1, StepWrite DEF FileInv
  <2> QED
    BY <2>1, <2>2 DEF FileInv
<1> QED
  BY InitFile, <1>1, Placed, PTL DEF Spec

(* queue_packet, thread_start, tq_send, tq_receive, write_packet: the      *)
(* packets of a stream in the file are the first ones that were taken, in  *)
(* their order.                                                            *)
THEOREM FileInOrder == Spec => []WrittenInOrder
<1>1. Base /\ FileInv => WrittenInOrder
  <2> SUFFICES ASSUME Base, FileInv, NEW s \in Streams
               PROVE  /\ Len(written[s]) <= Len(taken[s])
                      /\ written[s] = SubSeq(taken[s], 1, Len(written[s]))
    BY DEF WrittenInOrder
  <2>1. PICK q \in Seq(PacketIds), t \in Seq(PacketIds) : q = written[s] /\ t = taken[s]
    BY DEF Base, TypeOK
  <2>2. Increasing(q) /\ Increasing(t) /\ InitialPart(Ids(q), Ids(t))
    BY <2>1 DEF FileInv, Order, FlowInv, StreamInv, WriteInv, Taken
  <2>3. /\ Len(q) \in Nat /\ Len(t) \in Nat /\ Len(q) <= Len(t)
        /\ \A i \in 1 .. Len(q) : q[i] = t[i]
    BY <2>2, SameStart, AcceptedTypes
  <2>4. q = SubSeq(t, 1, Len(q))
    <3> DEFINE n == Len(q)
    <3>1. 1 \in Int /\ n \in Nat /\ n \in Int /\ \A i \in 1 .. n : t[i] \in PacketIds
      BY <2>3, ElementOfSeq
    <3>2. \A i \in 1 .. n : q[i] = t[i]
      BY <2>3
    <3>3. n = Len(q)
      OBVIOUS
    <3> HIDE DEF n
    <3>4. /\ SubSeq(t, 1, n) \in Seq(PacketIds)
          /\ Len(SubSeq(t, 1, n)) = IF 1 <= n THEN n - 1 + 1 ELSE 0
          /\ \A i \in 1 .. n - 1 + 1 : SubSeq(t, 1, n)[i] = t[1 + i - 1]
      BY <3>1, SubSeqProperties
    <3>5. Len(SubSeq(t, 1, n)) = n
      BY <3>1, <3>4
    <3>6. \A i \in 1 .. n : SubSeq(t, 1, n)[i] = q[i]
      BY <3>1, <3>2, <3>4
    <3> QED
      BY <3>3, <3>4, <3>5, <3>6, SeqEqual
  <2> QED
    BY <2>1, <2>3, <2>4
<1> QED
  BY <1>1, Filed, PTL

-----------------------------------------------------------------------------
(* When the thread is joined without an error, the file is complete.       *)
LEMMA FileComplete ==
  ASSUME Base, FileInv, JoinThread, status = "ok", threadRet = "ok", ~fileFull
  PROVE  written = taken
<1>1. main = "stop" /\ thread = "exit" /\ tq = "up" /\ Intact
  BY DEF JoinThread, Base, PlaceInv, TypeOK, Intact, Writable
<1>2. fifo = <<>>
  BY <1>1 DEF FileInv, EndInv
<1>3. accepted = received
  BY <1>1, <1>2, ReceivedFirst DEF FirstReceived
<1>4. ASSUME NEW s \in Streams
      PROVE  written[s] = taken[s]
  <2>1. muxing_queue[s] = <<>>
    BY <1>1 DEF FileInv, DrainInv
  <2>2. Queued(s) = {} /\ Waiting(s) = {} /\ Lost(s) = {} /\ InFlight(s) = {}
    BY <1>1, <2>1 DEF Queued, Ids, Waiting, Sending, Lost, Failing, InFlight
  <2>3. Kept(s)
    BY <1>1 DEF Kept
  <2>4. Taken(s) = Accepted(s)
    BY <2>2, <2>3 DEF FileInv, Order, FlowInv, StreamInv, InitialPart
  <2>5. Ids(written[s]) = OfStream(received, s)
    BY <1>1, <2>2 DEF FileInv, WriteInv, Intact
  <2>6. PICK q \in Seq(PacketIds), t \in Seq(PacketIds) : q = written[s] /\ t = taken[s]
    BY DEF Base, TypeOK
  <2>7. Ids(q) = Ids(t)
    BY <1>3, <2>4, <2>5, <2>6 DEF Accepted, Taken
  <2>8. Increasing(q) /\ Increasing(t)
    BY <2>6 DEF FileInv, Order, FlowInv, StreamInv, WriteInv
  <2>9. q = t
    BY <2>7, <2>8, SameMembers, AcceptedTypes
  <2> QED
    BY <2>6, <2>9
<1>5. written \in [Streams -> Seq(PacketIds)] /\ taken \in [Streams -> Seq(PacketIds)]
  BY DEF Base, TypeOK
<1> QED
  BY <1>4, <1>5

(* Every step keeps the status true.                                       *)
LEMMA StepStatus ==
  ASSUME Base, Base', FileInv, StatusInv, [Next]_vars
  PROVE  StatusInv'
<1> DEFINE Early == main \in {"run", "flush", "sent"} => status = "ok" /\ trailer = "none"
           Upto  == /\ tq = "up" /\ main = "close" => status = "fatal" /\ trailer # "pending"
                    /\ tq = "up" /\ main = "stop" => trailer = "pending" \/ status = "fatal"
                    /\ tq # "freed" => trailer # "written"
           After == tq = "freed" =>
                      /\ threadRet = "error" => status # "ok"
                      /\ trailer = "written" /\ status = "ok" /\ ~fileFull => written = taken
<1>0. Early /\ Upto /\ After
  BY DEF StatusInv
<1> SUFFICES Early' /\ Upto' /\ After'
  BY DEF StatusInv
<1>a. tq \in {"none", "up", "freed"} /\ call.from \in {"run", "flush"}
      /\ threadRet \in {"ok", "error"}
  BY DEF Base, TypeOK
<1>1. CASE UNCHANGED vars
  BY <1>0, <1>1 DEF vars, mainVars, muxVars, histVars
<1>2. CASE tq = "freed" /\ of_close
  <2>1. main' = "closed" /\ UNCHANGED <<tq, status, trailer, threadRet, fileFull,
                                        written, taken>>
    BY <1>2 DEF of_close, muxVars, histVars
  <2> QED
    BY <1>0, <1>2, <2>1
<1>3. CASE tq # "freed" /\ ~JoinThread /\ ~UNCHANGED vars
  <2>0. tq' # "freed"
    BY <1>3, QueueState
  <2>1. CASE ThreadStep
    BY <1>0, <2>0, <2>1, ThreadSide DEF mainVars
  <2>2. ASSUME NEW s \in Streams, of_stream_init(s)
        PROVE  Early' /\ Upto'
    <3>1. main = "run" /\ tq = "none" /\ trailer' = trailer
      BY <2>2 DEF of_stream_init, Base, PlaceInv
    <3>2. \/ main' = "close" /\ tq' = "none"
          \/ main' \in {"run", "flush"} /\ status' = status
      BY <2>2, <3>1 DEF of_stream_init, ExitProgram
    <3> QED
      BY <1>0, <3>1, <3>2
  <2>3. ASSUME NEW s \in Streams, of_output_packet(s)
        PROVE  Early' /\ Upto'
    <3>1. main = "run" /\ UNCHANGED <<tq, trailer>>
      BY <2>3 DEF of_output_packet
    <3>2. \/ main' = "close" /\ tq = "none"
          \/ main' \in {"run", "sent"} /\ status' = status
      BY <2>3, <3>1 DEF of_output_packet, submit_packet, thread_submit_packet,
         SubmitEnd, SubmitSend, queue_packet, Enqueue, SubmitFails, ExitProgram
    <3> QED
      BY <1>0, <3>1, <3>2
  <2>4. CASE of_write_trailer
    <3>1. main = "run" /\ tq' = tq
          /\ \/ tq = "up" /\ main' = "stop" /\ trailer' = "pending"
             \/ tq = "none" /\ main' = "close" /\ trailer' = "failed"
      BY <2>4 DEF of_write_trailer
    <3> QED
      BY <2>0, <3>1
  <2>5. CASE SendReturned
    <3>1. main = "sent" /\ main' = call.from /\ UNCHANGED <<tq, status, trailer>>
      BY <2>5 DEF SendReturned
    <3> QED
      BY <1>0, <1>a, <2>0, <3>1
  <2>6. CASE SendFailed
    <3>1. main = "sent" /\ UNCHANGED <<tq, trailer>>
          /\ \/ main' = call.from /\ status' = status
             \/ main' = "close" /\ status' = "fatal"
             \/ main' = "run" /\ status' = status
      BY <2>6 DEF SendFailed, SubmitFails, ExitProgram
    <3> QED
      BY <1>0, <1>a, <2>0, <3>1
  <2>7. CASE FlushPacket \/ FlushNext
    <3>1. main = "flush" /\ main' \in {"run", "flush", "sent"}
          /\ UNCHANGED <<tq, status, trailer>>
      BY <2>7 DEF FlushPacket, FlushNext, thread_submit_packet, SubmitEnd, SubmitSend
    <3> QED
      BY <1>0, <2>0, <3>1
  <2>8. CASE StopStream
    <3>1. main' = main /\ UNCHANGED <<tq, status, trailer>> /\ main = "stop"
      BY <2>8 DEF StopStream
    <3> QED
      BY <1>0, <2>0, <3>1
  <2>9. CASE of_close
    <3>1. /\ main = "close" /\ UNCHANGED <<tq, status, trailer>>
          /\ \/ tq = "up" /\ main' = "stop"
             \/ tq # "up" /\ main' = "closed"
      BY <2>9 DEF of_close
    <3> QED
      BY <1>0, <2>0, <3>1
  <2>10. CASE ResumeSend
    BY <1>0, <2>0, <2>10 DEF ResumeSend, mainVars
  <2> QED
    BY <1>3, <2>0, <2>1, <2>2, <2>3, <2>4, <2>5, <2>6, <2>7, <2>8, <2>9, <2>10, WhoSteps
       DEF CallerStep, MainStep
<1>4. CASE JoinThread
  <2>1. /\ tq = "up" /\ main = "stop" /\ tq' = "freed" /\ main' = "close"
        /\ UNCHANGED <<threadRet, fileFull, written, taken>>
    BY <1>4, QueueState DEF JoinThread, muxVars, histVars
  <2>2. CASE trailer # "pending" /\ UNCHANGED <<status, trailer>>
    BY <1>0, <2>1, <2>2
  <2>3. CASE trailer = "pending" /\ trailer' = "failed"
             /\ status' \in {"fatal", main_return_code}
    BY <1>a, <2>1, <2>3 DEF main_return_code
  <2>4. CASE trailer = "pending" /\ trailer' = "written" /\ status' = main_return_code
    <3>1. threadRet = "error" => status' # "ok"
      BY <2>4 DEF main_return_code
    <3>2. status' = "ok" /\ ~fileFull => written = taken
      BY <1>4, <1>a, <2>4, FileComplete DEF main_return_code
    <3> QED
      BY <2>1, <3>1, <3>2
  <2> QED
    BY <1>4, <2>2, <2>3, <2>4 DEF JoinThread
<1> QED
  BY <1>1, <1>2, <1>3, <1>4, AfterFree, QueueState

(* of_write_trailer, of_close: a file whose trailer was written without an *)
(* error and that hit no size limit holds every packet that was taken, and *)
(* an error of the muxer thread is in the status.                          *)
THEOREM StatusTellsTruth == Spec => []StatusIsTrue
<1>1. Init => StatusInv
  BY DEF Init, StatusInv
<1>2. Base /\ Base' /\ FileInv /\ StatusInv /\ [Next]_vars => StatusInv'
  BY StepStatus
<1>3. Base /\ FileInv /\ StatusInv => StatusIsTrue
  <2> SUFFICES ASSUME Base, FileInv, StatusInv, main = "closed"
               PROVE  /\ trailer = "written" /\ status = "ok" /\ ~fileFull => written = taken
                      /\ threadRet = "error" => status # "ok"
    BY DEF StatusIsTrue
  <2>1. tq \in {"none", "freed"} /\ (tq = "none" => thread = "none")
    BY DEF Base, TypeOK, PlaceInv
  <2>2. tq = "none" => threadRet = "ok" /\ trailer # "written"
    BY <2>1 DEF FileInv, EndInv, StatusInv
  <2> QED
    BY <2>1, <2>2 DEF StatusInv
<1> QED
  BY <1>1, <1>2, <1>3, Filed, PTL DEF Spec

=============================================================================
