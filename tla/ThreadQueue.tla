---------------------------- MODULE ThreadQueue ----------------------------
(***************************************************************************)
(* The bounded, multi-stream FIFO of fftools/thread_queue.c together with  *)
(* the object pool (objpool.c) it owns.  Producers (Senders) and the one   *)
(* consumer (Receiver) are threads; every call runs under tq->lock, so one *)
(* critical section is one action, and a call that reaches                 *)
(* pthread_cond_wait leaves its thread in the set "waiting" until a        *)
(* broadcast (or a spurious wake-up) takes it out and the loop is          *)
(* re-evaluated.  All threads share the single condition variable.         *)
(*                                                                         *)
(* A queue element is a pool object; the payload is moved into the object  *)
(* by tq_send and out of it by tq_receive, so that an object handed out    *)
(* twice would corrupt the data: "content" is the memory of the objects.   *)
(***************************************************************************)
EXTENDS Integers, Sequences, FiniteSets

CONSTANTS
  NbStreams,  (* tq->nb_streams                                            *)
  QueueSize,  (* the capacity given to tq_alloc (thread_queue_size)        *)
  Senders,    (* the threads that call tq_send and tq_send_finish          *)
  Owner,      (* the one thread that sends for a stream                    *)
  Receiver,   (* the consumer thread                                       *)
  Items,      (* payloads                                                  *)
  Blank,      (* the contents of an object after av_packet_unref           *)
  Objs,       (* addresses the allocator may return                        *)
  PoolMax,    (* FF_ARRAY_ELEMS(op->pool)                                  *)
  MaxItems    (* bound: number of items ever accepted by the queue         *)

Streams == 0 .. NbStreams - 1

ASSUME NbStreamsAssumption == NbStreams \in Nat \ {0}
ASSUME QueueSizeAssumption == QueueSize \in Nat \ {0}
ASSUME OwnerAssumption     == Owner \in [Streams -> Senders]
ASSUME ReceiverAssumption  == Receiver \notin Senders
ASSUME BlankAssumption     == Blank \notin Items
ASSUME PoolMaxAssumption   == PoolMax \in Nat
ASSUME MaxItemsAssumption  == MaxItems \in Nat

VARIABLES
  fifo,          (* sequence of [stream, obj]: tq->fifo                    *)
  sendFinished,  (* streams with FINISHED_SEND                             *)
  recvFinished,  (* streams with FINISHED_RECV                             *)
  pool,          (* the stack op->pool[0 .. pool_count - 1]                *)
  live,          (* objects allocated and not freed                        *)
  content,       (* what each object holds                                 *)
  waiting,       (* threads inside pthread_cond_wait                       *)
  pending,       (* the tq_send call a thread is blocked in, or NoCall     *)
  ret,           (* the value the last tq_send of a thread returned        *)
  got,           (* what the last tq_receive returned; Blocked inside it   *)
  accepted,      (* history: the packets tq_send accepted, in order        *)
  received,      (* history: the packets tq_receive returned, in order     *)
  eofs           (* history: number of EOFs the consumer got per stream    *)

queueVars == <<fifo, pool, live, content, accepted, received>>
flagVars  == <<sendFinished, recvFinished, eofs>>
vars == <<fifo, sendFinished, recvFinished, pool, live, content, waiting,
          pending, ret, got, accepted, received, eofs>>

NoCall  == [stream |-> -1, item |-> Blank]
Blocked == [code |-> "blocked", stream |-> -1, item |-> Blank]
Packets == [stream : Streams, item : Items]
Threads == Senders \cup {Receiver}

FifoObjs == {fifo[i].obj : i \in 1 .. Len(fifo)}
PoolObjs == {pool[i] : i \in 1 .. Len(pool)}
Finished == sendFinished \cap recvFinished

Full == Len(fifo) >= QueueSize

(* tq_alloc *)
Init ==
  /\ fifo = <<>>
  /\ sendFinished = {} /\ recvFinished = {}
  /\ pool = <<>> /\ live = {}
  /\ content = [o \in Objs |-> Blank]
  /\ waiting = {}
  /\ pending = [t \in Senders |-> NoCall]
  /\ ret = [t \in Senders |-> "none"]
  /\ got = [code |-> "none", stream |-> -1, item |-> Blank]
  /\ accepted = <<>> /\ received = <<>>
  /\ eofs = [s \in Streams |-> 0]

-----------------------------------------------------------------------------
(* Variant: the object stays in the pool.                                  *)
objpool_get_NoPop(o) ==
  IF pool # <<>>
  THEN o = pool[Len(pool)] /\ UNCHANGED <<pool, live>>
  ELSE o \notin live /\ pool' = pool /\ live' = live \cup {o}

(* objpool_get: the top of the stack, or a fresh allocation.               *)
objpool_get(o) ==
  IF pool # <<>>
  THEN /\ o = pool[Len(pool)]
       /\ pool' = SubSeq(pool, 1, Len(pool) - 1)
       /\ live' = live
  ELSE /\ o \notin live
       /\ pool' = pool
       /\ live' = live \cup {o}

(* Variant: an object that finds no room is not freed.                     *)
objpool_release_Leak(o) ==
  IF Len(pool) < PoolMax
  THEN pool' = Append(pool, o) /\ live' = live
  ELSE UNCHANGED <<pool, live>>

(* objpool_release: the object is reset and kept while there is room.      *)
objpool_release(o) ==
  IF Len(pool) < PoolMax
  THEN pool' = Append(pool, o) /\ live' = live
  ELSE pool' = pool /\ live' = live \ {o}

-----------------------------------------------------------------------------
Return(t, code) ==
  /\ ret' = [ret EXCEPT ![t] = code]
  /\ pending' = [pending EXCEPT ![t] = NoCall]

(* The while loop of tq_send suspends the caller.                          *)
SendWait(t, s, x) ==
  /\ s \notin recvFinished
  /\ Full
  /\ waiting' = waiting \cup {t}
  /\ pending' = [pending EXCEPT ![t] = [stream |-> s, item |-> x]]
  /\ UNCHANGED <<queueVars, flagVars, ret, got>>

(* Variant: the stream is ended, but the loop goes on.                     *)
SendEof_Loops(t, s) ==
  /\ s \in recvFinished
  /\ sendFinished' = sendFinished \cup {s}
  /\ UNCHANGED <<queueVars, recvFinished, eofs, waiting, pending, ret, got>>

(* The consumer is done with the stream: EOF, and no broadcast.            *)
SendEof(t, s) ==
  /\ s \in recvFinished
  /\ sendFinished' = sendFinished \cup {s}
  /\ Return(t, "EOF")
  /\ UNCHANGED <<queueVars, recvFinished, eofs, waiting, got>>

(* Variant: FINISHED_RECV is not tested again after the wait.              *)
SendWrite_Refused(t, s, x) ==
  /\ ~Full
  /\ \E o \in Objs :
       /\ objpool_get(o)
       /\ content' = [content EXCEPT ![o] = x]
       /\ fifo' = Append(fifo, [stream |-> s, obj |-> o])
  /\ accepted' = Append(accepted, [stream |-> s, item |-> x])
  /\ waiting' = {}
  /\ Return(t, "ok")
  /\ UNCHANGED <<flagVars, received, got>>

(* The item is moved into a pool object and everybody is woken up.         *)
SendWrite(t, s, x) ==
  /\ s \notin recvFinished
  /\ ~Full
  /\ \E o \in Objs :
       /\ objpool_get(o)
       /\ content' = [content EXCEPT ![o] = x]
       /\ fifo' = Append(fifo, [stream |-> s, obj |-> o])
  /\ accepted' = Append(accepted, [stream |-> s, item |-> x])
  /\ waiting' = {}
  /\ Return(t, "ok")
  /\ UNCHANGED <<flagVars, received, got>>

(* objpool_get had to allocate and could not.                              *)
SendNoMemory(t, s) ==
  /\ s \notin recvFinished
  /\ ~Full
  /\ pool = <<>>
  /\ Return(t, "ENOMEM")
  /\ UNCHANGED <<queueVars, flagVars, waiting, got>>

SendLoop(t, s, x) ==
  \/ SendWait(t, s, x)
  \/ SendEof(t, s)
  \/ SendWrite(t, s, x)
  \/ SendNoMemory(t, s)

(* A thread calls tq_send; FINISHED_SEND is only tested on entry.          *)
tq_send(t, s, x) ==
  /\ pending[t] = NoCall
  /\ Owner[s] = t
  /\ Len(accepted) < MaxItems
  /\ \/ /\ s \in sendFinished
        /\ Return(t, "EINVAL")
        /\ UNCHANGED <<queueVars, flagVars, waiting, got>>
     \/ /\ s \notin sendFinished
        /\ SendLoop(t, s, x)

(* A sender that was woken up evaluates the loop condition again.          *)
ResumeSend(t) ==
  /\ pending[t] # NoCall
  /\ t \notin waiting
  /\ SendLoop(t, pending[t].stream, pending[t].item)

tq_send_finish(t, s) ==
  /\ pending[t] = NoCall
  /\ Owner[s] = t
  /\ sendFinished' = sendFinished \cup {s}
  /\ waiting' = {}
  /\ UNCHANGED <<queueVars, recvFinished, eofs, pending, ret, got>>

-----------------------------------------------------------------------------
(* receive_locked: an element of the fifo ...                              *)
ReceiveItem ==
  /\ fifo # <<>>
  /\ LET e == Head(fifo)
         p == [stream |-> e.stream, item |-> content[e.obj]] IN
       /\ objpool_release(e.obj)
       /\ content' = [content EXCEPT ![e.obj] = Blank]
       /\ got' = [code |-> "ok", stream |-> p.stream, item |-> p.item]
       /\ received' = Append(received, p)
  /\ fifo' = Tail(fifo)
  /\ waiting' = {}
  /\ UNCHANGED <<flagVars, pending, ret, accepted>>

(* ... else the first stream whose end the consumer was not told ...       *)
EofStreams == sendFinished \ recvFinished

(* Variant: FINISHED_RECV is forgotten.                                    *)
ReceiveStreamEof_Again ==
  /\ fifo = <<>>
  /\ \E s \in EofStreams :
       /\ \A r \in EofStreams : s <= r
       /\ got' = [code |-> "EOF", stream |-> s, item |-> Blank]
       /\ eofs' = [eofs EXCEPT ![s] = @ + 1]
  /\ UNCHANGED <<queueVars, sendFinished, recvFinished, waiting, pending, ret>>

ReceiveStreamEof ==
  /\ fifo = <<>>
  /\ \E s \in EofStreams :
       /\ \A r \in EofStreams : s <= r
       /\ recvFinished' = recvFinished \cup {s}
       /\ got' = [code |-> "EOF", stream |-> s, item |-> Blank]
       /\ eofs' = [eofs EXCEPT ![s] = @ + 1]
  /\ UNCHANGED <<queueVars, sendFinished, waiting, pending, ret>>

(* Variant: only the senders' flags are counted.                           *)
ReceiveDone_Early ==
  /\ fifo = <<>>
  /\ sendFinished = Streams
  /\ got' = [code |-> "EOF", stream |-> -1, item |-> Blank]
  /\ UNCHANGED <<queueVars, flagVars, waiting, pending, ret>>

(* ... else EOF for the whole queue ...                                    *)
ReceiveDone ==
  /\ fifo = <<>>
  /\ Finished = Streams
  /\ got' = [code |-> "EOF", stream |-> -1, item |-> Blank]
  /\ UNCHANGED <<queueVars, flagVars, waiting, pending, ret>>

(* ... else tq_receive sleeps.                                             *)
ReceiveWait ==
  /\ fifo = <<>>
  /\ EofStreams = {}
  /\ Finished # Streams
  /\ waiting' = waiting \cup {Receiver}
  /\ got' = Blocked
  /\ UNCHANGED <<queueVars, flagVars, pending, ret>>

(* One evaluation of the loop of tq_receive; a call that slept runs it     *)
(* again once it is woken up.                                              *)
tq_receive ==
  /\ Receiver \notin waiting
  /\ \/ ReceiveItem
     \/ ReceiveStreamEof
     \/ ReceiveDone
     \/ ReceiveWait

(* Variant: no broadcast.                                                  *)
tq_receive_finish_Silent(s) ==
  /\ got # Blocked
  /\ recvFinished' = recvFinished \cup {s}
  /\ UNCHANGED <<queueVars, sendFinished, eofs, waiting, pending, ret, got>>

tq_receive_finish(s) ==
  /\ got # Blocked
  /\ recvFinished' = recvFinished \cup {s}
  /\ waiting' = {}
  /\ UNCHANGED <<queueVars, sendFinished, eofs, pending, ret, got>>

(* tq_free: every object of the fifo is released and the pool is emptied.  *)
(* It runs when no other thread uses the queue, so it is no action of Next *)
(* but an operation of the module that owns the queue.                     *)
tq_free ==
  /\ fifo' = <<>>
  /\ pool' = <<>>
  /\ live' = live \ (FifoObjs \cup PoolObjs)
  /\ content' = [o \in Objs |-> IF o \in FifoObjs THEN Blank ELSE content[o]]
  /\ UNCHANGED <<flagVars, waiting, pending, ret, got, accepted, received>>

-----------------------------------------------------------------------------
(* pthread_cond_wait may return without a broadcast.                       *)
SpuriousWakeup(t) ==
  /\ t \in waiting
  /\ waiting' = waiting \ {t}
  /\ UNCHANGED <<queueVars, flagVars, pending, ret, got>>

Next ==
  \/ \E t \in Senders, s \in Streams, x \in Items : tq_send(t, s, x)
  \/ \E t \in Senders : ResumeSend(t)
  \/ \E t \in Senders, s \in Streams : tq_send_finish(t, s)
  \/ tq_receive
  \/ \E s \in Streams : tq_receive_finish(s)
  \/ \E t \in Threads : SpuriousWakeup(t)

Spec == Init /\ [][Next]_vars

-----------------------------------------------------------------------------
Codes == {"none", "ok", "EOF", "EINVAL", "ENOMEM"}

(* Every variable keeps its type, and the queue its capacity.              *)
TypeOK ==
  /\ fifo \in Seq([stream : Streams, obj : Objs]) /\ Len(fifo) <= QueueSize
  /\ sendFinished \subseteq Streams /\ recvFinished \subseteq Streams
  /\ pool \in Seq(Objs) /\ Len(pool) <= PoolMax
  /\ live \subseteq Objs
  /\ content \in [Objs -> Items \cup {Blank}]
  /\ waiting \subseteq Threads
  /\ pending \in [Senders -> Packets \cup {NoCall}]
  /\ ret \in [Senders -> Codes]
  /\ got \in [code : Codes \cup {"blocked"}, stream : Streams \cup {-1},
              item : Items \cup {Blank}]
  /\ accepted \in Seq(Packets) /\ received \in Seq(Packets)
  /\ eofs \in [Streams -> Nat]

(* The packets the objects of the fifo hold now.                           *)
PacketOf(e) == [stream |-> e.stream, item |-> content[e.obj]]
Buffered    == [i \in 1 .. Len(fifo) |-> PacketOf(fifo[i])]

(* tq_send / tq_receive: what was accepted is what was received followed   *)
(* by what the objects in the fifo hold now: nothing is lost, duplicated,  *)
(* reordered or overwritten through the recycled objects.                  *)
InOrder == accepted = received \o Buffered

(* objpool_get / objpool_release: each allocated object is in exactly one  *)
(* place, one slot of the fifo or one slot of the pool, none leaks, and    *)
(* the objects of the fifo are the ones that hold a payload.               *)
ObjectsNotShared ==
  /\ \A i, j \in 1 .. Len(fifo) : fifo[i].obj = fifo[j].obj => i = j
  /\ \A i, j \in 1 .. Len(pool) : pool[i] = pool[j] => i = j
  /\ FifoObjs \cap PoolObjs = {}
  /\ live = FifoObjs \cup PoolObjs
  /\ \A o \in Objs : content[o] = Blank <=> o \notin FifoObjs

(* receive_locked: the consumer is told the end of a stream at most once,  *)
(* and when it was told, nothing of that stream is or ever comes behind.   *)
EofOnceAndLast ==
  \A s \in Streams :
    /\ eofs[s] <= 1
    /\ eofs[s] = 1 => /\ s \in Finished
                      /\ \A i \in 1 .. Len(fifo) : fifo[i].stream # s

(* "All streams are done" is only said when it is true for good: every     *)
(* flag is set and nothing is queued.                                      *)
DoneIsFinal ==
  got = [code |-> "EOF", stream |-> -1, item |-> Blank]
    => Finished = Streams /\ fifo = <<>>

(* pthread_cond_wait: a sender sleeps only for a stream that is still      *)
(* wanted and a fifo that is still full, the consumer only while there is  *)
(* neither an item nor an untold end of stream: no wake-up for these is    *)
(* lost, whoever else shares the condition variable.                       *)
NoMissedWakeup ==
  /\ \A t \in waiting \cap Senders :
       /\ Full
       /\ pending[t].stream \in Streams \ recvFinished
  /\ Receiver \in waiting =>
       /\ got = Blocked
       /\ fifo = <<>> /\ EofStreams = {}

(* A suspended tq_send never writes behind a tq_send_finish of its stream. *)
NoWriteBehindFinish ==
  \A t \in Senders :
    pending[t] # NoCall => /\ Owner[pending[t].stream] = t
                          /\ pending[t].stream \notin sendFinished

-----------------------------------------------------------------------------
(* The queue implements the abstract channel of StreamChannel.             *)
Channel == INSTANCE StreamChannel WITH
  Capacity  <- QueueSize,
  chan      <- Buffered,
  closed    <- sendFinished,
  refused   <- recvFinished,
  told      <- {s \in Streams : eofs[s] # 0},
  delivered <- received,
  done      <- (got = [code |-> "EOF", stream |-> -1, item |-> Blank])

ImplementsChannel == Channel!Spec
=============================================================================
