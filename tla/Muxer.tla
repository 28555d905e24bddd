------------------------------- MODULE Muxer -------------------------------
(***************************************************************************)
(* One output file of fftools/ffmpeg_mux.c: the main thread hands packets  *)
(* to of_output_packet, which buffers them per stream until every stream   *)
(* is initialized (the muxing queues), then starts the muxer thread,       *)
(* drains the muxing queues into the thread queue and from then on sends   *)
(* to it directly.  of_write_trailer and of_close stop the thread.         *)
(*                                                                         *)
(* The thread queue is an instance of ThreadQueue with one sender.  A      *)
(* packet is the number of the of_output_packet call it came from, per     *)
(* stream, and has size one; zero stands for the NULL packet that ends a   *)
(* stream.  The stream's sync queue and bitstream filter are left out.     *)
(***************************************************************************)
EXTENDS Integers, Sequences, FiniteSets

CONSTANTS
  NbStreams,   (* fc->nb_streams                                           *)
  QueueSize,   (* mux->thread_queue_size                                   *)
  PoolMax,     (* the size of the packet pool                              *)
  Objs,        (* addresses of the packets of the pool                     *)
  InitCap,     (* the initial size of a muxing queue                       *)
  MaxQueue,    (* ms->max_muxing_queue_size                                *)
  Threshold,   (* ms->muxing_queue_data_threshold                          *)
  MaxPackets,  (* bound: packets handed over per stream                    *)
  MaxEofs      (* bound: ends of stream handed over per stream             *)

Streams == 0 .. NbStreams - 1
Main == "main"
MuxThread == "mux"
NullPacket == 0
PacketIds == 1 .. MaxPackets

ASSUME MuxAssumption ==
  /\ NbStreams \in Nat \ {0} /\ QueueSize \in Nat \ {0} /\ PoolMax \in Nat
  /\ InitCap \in Nat \ {0} /\ MaxQueue \in Nat /\ Threshold \in Nat
  /\ MaxPackets \in Nat /\ MaxEofs \in Nat

VARIABLES
  fifo, sendFinished, recvFinished, pool, live, content, waiting, pending,
  ret, got, accepted, received, eofs,
  tq,              (* mux->tq: "none", "up", or "freed" by thread_stop     *)
  main,            (* where the main thread is                             *)
  call,            (* the packet thread_submit_packet is working on        *)
  idx,             (* the loop counter of thread_start and thread_stop     *)
  initialized,     (* streams with ost->initialized                        *)
  muxing_queue,    (* per stream, the packets buffered before the start    *)
  queueCap,        (* per stream, the capacity of muxing_queue             *)
  data_size,       (* per stream, muxing_queue_data_size                   *)
  muxFinished,     (* streams with MUXER_FINISHED in ost->finished         *)
  exit_on_error,   (* the -xerror option                                   *)
  status,          (* "ok", or the first fatal or returned error           *)
  trailer,         (* "none", "pending", "written" or "failed"             *)
  thread,          (* where the muxer thread is                            *)
  refuseIdx,       (* its loop counter after the label finish              *)
  threadRet,       (* what the muxer thread returns                        *)
  fileFull,        (* filesize(s->pb) >= mux->limit_filesize               *)
  calls,           (* history: packets handed over, per stream             *)
  eofCalls,        (* history: ends of stream handed over, per stream      *)
  taken,           (* history: packets that were queued, per stream        *)
  written          (* history: packets write_packet wrote, per stream      *)

tqVars    == <<fifo, sendFinished, recvFinished, pool, live, content,
               waiting, pending, ret, got, accepted, received, eofs>>
mainVars  == <<tq, main, call, idx, initialized, muxFinished, status,
               trailer, exit_on_error>>
queueVars == <<muxing_queue, queueCap, data_size>>
muxVars   == <<thread, refuseIdx, threadRet, fileFull, written>>
histVars  == <<calls, eofCalls, taken>>
vars == <<tqVars, mainVars, queueVars, muxVars, histVars>>

TQ == INSTANCE ThreadQueue WITH
  Senders  <- {Main},
  Owner    <- [s \in Streams |-> Main],
  Receiver <- MuxThread,
  Items    <- PacketIds,
  Blank    <- NullPacket,
  MaxItems <- NbStreams * MaxPackets

NoSubmit == [stream |-> -1, from |-> "run"]

Init ==
  /\ TQ!Init
  /\ tq = "none" /\ main = "run" /\ call = NoSubmit /\ idx = 0
  /\ initialized = {} /\ muxFinished = {}
  /\ muxing_queue = [s \in Streams |-> <<>>]
  /\ queueCap = [s \in Streams |-> InitCap]
  /\ data_size = [s \in Streams |-> 0]
  /\ exit_on_error \in BOOLEAN
  /\ status = "ok" /\ trailer = "none"
  /\ thread = "none" /\ refuseIdx = 0 /\ threadRet = "ok" /\ fileFull = FALSE
  /\ calls = [s \in Streams |-> 0] /\ eofCalls = [s \in Streams |-> 0]
  /\ taken = [s \in Streams |-> <<>>] /\ written = [s \in Streams |-> <<>>]

-----------------------------------------------------------------------------
(* exit_program: the cleanup it runs closes the file, then the process     *)
(* ends.                                                                   *)
ExitProgram ==
  /\ main' = "close"
  /\ status' = "fatal"

(* of_stream_init and mux_check_init: the header is written once the last  *)
(* stream is initialized, and thread_start creates queue and thread.       *)
of_stream_init(s) ==
  /\ main = "run"
  /\ s \notin initialized
  /\ \/ initialized' = initialized          \* bsf_init fails
     \/ initialized' = initialized \cup {s}
  /\ \/ /\ s \notin initialized'
        /\ ExitProgram
        /\ UNCHANGED <<tq, thread, fileFull>>
     \/ /\ s \in initialized'
        /\ initialized' # Streams
        /\ UNCHANGED <<tq, main, status, thread, fileFull>>
     \/ /\ initialized' = Streams
        /\ ExitProgram                       \* no header, queue or thread
        /\ UNCHANGED <<tq, thread, fileFull>>
     \/ /\ initialized' = Streams
        /\ tq' = "up" /\ thread' = "start"
        /\ main' = "flush"
        /\ fileFull' \in BOOLEAN             \* the header has a size
        /\ UNCHANGED status
  /\ idx' = 0
  /\ UNCHANGED <<tqVars, call, muxFinished, trailer, exit_on_error,
                 queueVars, refuseIdx, threadRet, written, histVars>>

-----------------------------------------------------------------------------
(* The error path of of_output_packet, and of init_output_stream_wrapper   *)
(* for thread_start.                                                       *)
SubmitFails(from) ==
  \/ /\ from = "flush" \/ exit_on_error
     /\ ExitProgram
  \/ /\ from = "run" /\ ~exit_on_error
     /\ main' = "run" /\ status' = status

(* thread_submit_packet without a packet, or for a stream the muxer is     *)
(* done with: its label "finish".                                          *)
SubmitEnd(s, from) ==
  /\ muxFinished' = muxFinished \cup {s}
  /\ TQ!tq_send_finish(Main, s)
  /\ main' = from
  /\ UNCHANGED <<call, status, taken>>

(* thread_submit_packet hands the packet to tq_send.                       *)
SubmitSend(s, x, from) ==
  /\ TQ!tq_send(Main, s, x)
  /\ main' = "sent"
  /\ call' = [stream |-> s, from |-> from]
  /\ UNCHANGED <<muxFinished, status>>

(* The packets of the stream that wait in muxing_queue count as taken      *)
(* already, the others when tq_send takes them.                            *)
thread_submit_packet(s, x, from) ==
  \/ /\ x = NullPacket \/ s \in muxFinished
     /\ SubmitEnd(s, from)
  \/ /\ x # NullPacket /\ s \notin muxFinished
     /\ SubmitSend(s, x, from)
     /\ taken' = IF from = "run" THEN [taken EXCEPT ![s] = Append(@, x)]
                                 ELSE taken

(* Variant: the limit is never applied.                                    *)
GrownCap_NoLimit(s, size) == 2 * queueCap[s]

(* queue_packet: a full queue doubles, and only when it holds more than    *)
(* the threshold is its length limited.                                    *)
GrownCap(s, size) ==
  IF data_size[s] + size > Threshold /\ 2 * queueCap[s] > MaxQueue
  THEN MaxQueue ELSE 2 * queueCap[s]

Enqueue(s, x, size) ==
  /\ muxing_queue' = [muxing_queue EXCEPT ![s] = Append(@, x)]
  /\ data_size' = [data_size EXCEPT ![s] = @ + size]
  /\ taken' = IF x = NullPacket THEN taken
                                ELSE [taken EXCEPT ![s] = Append(@, x)]
  /\ UNCHANGED <<main, status>>

queue_packet(s, x) ==
  LET size    == IF x = NullPacket THEN 0 ELSE 1
      full    == Len(muxing_queue[s]) = queueCap[s]
      noSpace == full /\ GrownCap(s, size) <= queueCap[s]
  IN
  \/ /\ ~noSpace
     /\ queueCap' = [queueCap EXCEPT ![s] = IF full THEN GrownCap(s, size)
                                                    ELSE @]
     /\ Enqueue(s, x, size)
  \/ /\ noSpace
     /\ SubmitFails("run")
     /\ UNCHANGED <<queueVars, taken>>
  \/ /\ ~noSpace /\ full                  \* av_fifo_grow2 fails
     /\ SubmitFails("run")
     /\ UNCHANGED <<queueVars, taken>>
  \/ /\ ~noSpace /\ x # NullPacket       \* no memory for the packet
     /\ queueCap' = [queueCap EXCEPT ![s] = IF full THEN GrownCap(s, size)
                                                    ELSE @]
     /\ SubmitFails("run")
     /\ UNCHANGED <<muxing_queue, data_size, taken>>

(* submit_packet: with the thread queue, or before there is one.           *)
submit_packet(s, x) ==
  \/ /\ tq = "up"
     /\ thread_submit_packet(s, x, "run")
     /\ UNCHANGED <<queueVars>>
  \/ /\ tq = "none"
     /\ queue_packet(s, x)
     /\ UNCHANGED <<tqVars, call, muxFinished>>

(* of_output_packet: the callers only output for a stream they have        *)
(* initialized, and nothing but another end after the end.                 *)
of_output_packet(s) ==
  /\ main = "run"
  /\ s \in initialized
  /\ \/ /\ eofCalls[s] = 0
        /\ calls[s] < MaxPackets
        /\ calls' = [calls EXCEPT ![s] = @ + 1]
        /\ submit_packet(s, calls'[s])
        /\ UNCHANGED eofCalls
     \/ /\ eofCalls[s] < MaxEofs
        /\ eofCalls' = [eofCalls EXCEPT ![s] = @ + 1]
        /\ submit_packet(s, NullPacket)
        /\ UNCHANGED calls
  /\ UNCHANGED <<tq, idx, initialized, trailer, exit_on_error, muxVars>>

(* tq_send was woken up and looks at the queue again.                      *)
ResumeSend ==
  /\ main = "sent"
  /\ TQ!ResumeSend(Main)
  /\ UNCHANGED <<mainVars, queueVars, muxVars, histVars>>

(* tq_send returned 0.                                                     *)
SendReturned ==
  /\ main = "sent"
  /\ pending[Main] = TQ!NoCall
  /\ ret[Main] = "ok"
  /\ main' = call.from
  /\ call' = NoSubmit
  /\ UNCHANGED <<tqVars, tq, idx, initialized, muxFinished, status, trailer,
                 exit_on_error, queueVars, muxVars, histVars>>

(* tq_send returned an error: label "finish" drops the packet and ends the *)
(* stream; AVERROR_EOF is no error to the caller.                          *)
SendFailed ==
  /\ main = "sent"
  /\ pending[Main] = TQ!NoCall
  /\ ret[Main] # "ok"
  /\ muxFinished' = muxFinished \cup {call.stream}
  /\ TQ!tq_send_finish(Main, call.stream)
  /\ taken' = IF call.from = "flush" THEN taken
              ELSE [taken EXCEPT ![call.stream] = SubSeq(@, 1, Len(@) - 1)]
  /\ \/ /\ ret[Main] = "EOF"
        /\ main' = call.from /\ status' = status
     \/ /\ ret[Main] # "EOF"
        /\ SubmitFails(call.from)
  /\ call' = NoSubmit
  /\ UNCHANGED <<tq, idx, initialized, trailer, exit_on_error, queueVars,
                 muxVars, calls, eofCalls>>

(* thread_start drains the muxing queues, stream by stream.  A packet has  *)
(* given its buffer away when muxing_queue_data_size is decreased by its   *)
(* size: nothing is subtracted.                                            *)
FlushPacket ==
  /\ main = "flush"
  /\ idx < NbStreams
  /\ muxing_queue[idx] # <<>>
  /\ thread_submit_packet(idx, Head(muxing_queue[idx]), "flush")
  /\ muxing_queue' = [muxing_queue EXCEPT ![idx] = Tail(@)]
  /\ UNCHANGED <<tq, idx, initialized, trailer, exit_on_error, queueCap,
                 data_size, muxVars, calls, eofCalls>>

(* Variant: one packet per stream, an "if" in place of the "while".        *)
FlushNext_If ==
  /\ main = "flush"
  /\ \/ idx < NbStreams /\ idx' = idx + 1 /\ main' = main
     \/ idx = NbStreams /\ idx' = 0       /\ main' = "run"
  /\ UNCHANGED <<tqVars, tq, call, initialized, muxFinished, status, trailer,
                 exit_on_error, queueVars, muxVars, histVars>>

FlushNext ==
  /\ main = "flush"
  /\ idx < NbStreams => muxing_queue[idx] = <<>>
  /\ \/ idx < NbStreams /\ idx' = idx + 1 /\ main' = main
     \/ idx = NbStreams /\ idx' = 0       /\ main' = "run"
  /\ UNCHANGED <<tqVars, tq, call, initialized, muxFinished, status, trailer,
                 exit_on_error, queueVars, muxVars, histVars>>

-----------------------------------------------------------------------------
(* of_write_trailer, called once when transcode leaves its loop.           *)
of_write_trailer ==
  /\ main = "run"
  /\ \/ /\ tq = "up"
        /\ main' = "stop" /\ trailer' = "pending" /\ status' = status
     \/ /\ tq = "none"
        /\ main' = "close" /\ trailer' = "failed"
        /\ status' = IF exit_on_error THEN "fatal" ELSE status
  /\ idx' = 0
  /\ UNCHANGED <<tqVars, tq, call, initialized, muxFinished,
                 exit_on_error, queueVars, muxVars, histVars>>

(* thread_stop ends every stream, ...                                      *)
StopStream ==
  /\ main = "stop"
  /\ idx < NbStreams
  /\ TQ!tq_send_finish(Main, idx)
  /\ idx' = idx + 1
  /\ UNCHANGED <<tq, main, call, initialized, muxFinished, status, trailer,
                 exit_on_error, queueVars, muxVars, histVars>>

(* of_write_trailer keeps what thread_stop returned.                       *)
main_return_code == IF threadRet = "ok" THEN status ELSE "error"

(* Variant: the thread is not joined.                                      *)
JoinThread_Detached ==
  /\ main = "stop"
  /\ idx = NbStreams
  /\ TQ!tq_free
  /\ tq' = "freed"
  /\ main' = "close"
  /\ \/ trailer # "pending" /\ UNCHANGED <<status, trailer>>
     \/ trailer = "pending" /\ trailer' = "written" /\ UNCHANGED status
  /\ UNCHANGED <<call, idx, initialized, muxFinished, exit_on_error,
                 queueVars, muxVars, histVars>>

(* ... joins the thread and frees the queue; of_write_trailer keeps the    *)
(* thread's error and writes the trailer.                                  *)
JoinThread ==
  /\ main = "stop"
  /\ idx = NbStreams
  /\ thread = "exit"
  /\ TQ!tq_free
  /\ tq' = "freed"
  /\ main' = "close"
  /\ \/ /\ trailer # "pending"
        /\ UNCHANGED <<status, trailer>>
     \/ /\ trailer = "pending"
        /\ status' = main_return_code
        /\ trailer' = "written"
     \/ /\ trailer = "pending"
        /\ status' = IF exit_on_error THEN "fatal" ELSE main_return_code
        /\ trailer' = "failed"
  /\ UNCHANGED <<call, idx, initialized, muxFinished, exit_on_error,
                 queueVars, muxVars, histVars>>

(* Variant: the thread is left alone.                                      *)
of_close_NoStop ==
  /\ main = "close"
  /\ main' = "closed"
  /\ muxing_queue' = [s \in Streams |-> <<>>]
  /\ UNCHANGED <<tqVars, tq, call, idx, initialized, muxFinished, status,
                 trailer, exit_on_error, queueCap, data_size, muxVars,
                 histVars>>

(* of_close stops the thread if that was not done, then frees the muxing   *)
(* queues (ost_free).                                                      *)
of_close ==
  /\ main = "close"
  /\ \/ /\ tq = "up"
        /\ main' = "stop" /\ idx' = 0
        /\ UNCHANGED muxing_queue
     \/ /\ tq # "up"
        /\ main' = "closed" /\ idx' = idx
        /\ muxing_queue' = [s \in Streams |-> <<>>]
  /\ UNCHANGED <<tqVars, tq, call, initialized, muxFinished, status, trailer,
                 exit_on_error, queueCap, data_size, muxVars, histVars>>

-----------------------------------------------------------------------------
(* The label "finish" of muxer_thread.                                     *)
ThreadEnds(code) ==
  /\ thread' = "finish"
  /\ refuseIdx' = 0
  /\ threadRet' = code

(* muxer_thread allocates its packet, ...                                  *)
ThreadStarts ==
  /\ thread = "start"
  /\ \/ thread' = "receive" /\ UNCHANGED <<refuseIdx, threadRet>>
     \/ ThreadEnds("error")
  /\ UNCHANGED <<tqVars, mainVars, queueVars, fileFull, written, histVars>>

(* ... receives, ...                                                       *)
ThreadReceives ==
  /\ thread = "receive"
  /\ TQ!tq_receive
  /\ \/ /\ got'.code = "EOF" /\ got'.stream < 0
        /\ ThreadEnds("ok")
     \/ /\ ~(got'.code = "EOF" /\ got'.stream < 0)
        /\ thread' = IF got'.code = "ok" THEN "write" ELSE "receive"
        /\ UNCHANGED <<refuseIdx, threadRet>>
  /\ UNCHANGED <<mainVars, queueVars, fileFull, written, histVars>>

(* ... writes the packet, ...                                              *)
write_packet ==
  /\ thread = "write"
  /\ ~fileFull
  /\ \/ /\ written' = [written EXCEPT ![got.stream] = Append(@, got.item)]
        /\ fileFull' \in BOOLEAN
        /\ thread' = "receive"
        /\ UNCHANGED <<refuseIdx, threadRet>>
     \/ /\ ThreadEnds("error")
        /\ UNCHANGED <<written, fileFull>>
  /\ UNCHANGED <<tqVars, mainVars, queueVars, histVars>>

(* Variant: the packet is tried again and again.                           *)
RefuseStream_Retry ==
  /\ thread = "write"
  /\ fileFull
  /\ UNCHANGED vars

(* ... refuses the rest of the stream when the file is full, ...           *)
RefuseStream ==
  /\ thread = "write"
  /\ fileFull
  /\ TQ!tq_receive_finish(got.stream)
  /\ thread' = "receive"
  /\ UNCHANGED <<mainVars, queueVars, refuseIdx, threadRet, fileFull, written,
                 histVars>>

(* ... and refuses every stream before it ends.                            *)
ThreadFinishes ==
  /\ thread = "finish"
  /\ \/ /\ refuseIdx < NbStreams
        /\ TQ!tq_receive_finish(refuseIdx)
        /\ refuseIdx' = refuseIdx + 1
        /\ UNCHANGED thread
     \/ /\ refuseIdx = NbStreams
        /\ thread' = "exit"
        /\ UNCHANGED <<tqVars, refuseIdx>>
  /\ UNCHANGED <<mainVars, queueVars, threadRet, fileFull, written, histVars>>

-----------------------------------------------------------------------------
(* The file is closed.                                                     *)
Closed == main = "closed" /\ UNCHANGED vars

(* What the caller decides, ...                                            *)
CallerStep ==
  \/ \E s \in Streams : of_stream_init(s)
  \/ \E s \in Streams : of_output_packet(s)
  \/ of_write_trailer

(* ... what the main thread does inside a call, ...                        *)
MainStep ==
  \/ ResumeSend \/ SendReturned \/ SendFailed
  \/ FlushPacket \/ FlushNext
  \/ StopStream \/ JoinThread \/ of_close

(* ... and the muxer thread.                                               *)
ThreadStep ==
  \/ ThreadStarts \/ ThreadReceives \/ write_packet \/ RefuseStream
  \/ ThreadFinishes

Next == CallerStep \/ MainStep \/ ThreadStep \/ Closed

(* A thread that can run is scheduled; what the caller does next is open.  *)
Fairness == WF_vars(MainStep) /\ WF_vars(ThreadStep)

Spec == Init /\ [][Next]_vars
FairSpec == Spec /\ Fairness

-----------------------------------------------------------------------------
(* Every variable keeps its type.                                          *)
TypeOK ==
  /\ TQ!TypeOK
  /\ tq \in {"none", "up", "freed"}
  /\ main \in {"run", "sent", "flush", "stop", "close", "closed"}
  /\ call \in [stream : Streams \cup {-1}, from : {"run", "flush"}]
  /\ idx \in 0 .. NbStreams /\ refuseIdx \in 0 .. NbStreams
  /\ initialized \subseteq Streams /\ muxFinished \subseteq Streams
  /\ muxing_queue \in [Streams -> Seq(PacketIds \cup {NullPacket})]
  /\ queueCap \in [Streams -> Nat] /\ data_size \in [Streams -> Nat]
  /\ exit_on_error \in BOOLEAN
  /\ status \in {"ok", "error", "fatal"}
  /\ trailer \in {"none", "pending", "written", "failed"}
  /\ thread \in {"none", "start", "receive", "write", "finish", "exit"}
  /\ threadRet \in {"ok", "error"} /\ fileFull \in BOOLEAN
  /\ calls \in [Streams -> Nat] /\ eofCalls \in [Streams -> Nat]
  /\ taken \in [Streams -> Seq(PacketIds)]
  /\ written \in [Streams -> Seq(PacketIds)]

(* queue_packet, thread_start, write_packet: per stream, the packets in    *)
(* the file are the first ones that were taken, in their order: draining   *)
(* the muxing queues lets no later packet overtake, and what is refused is *)
(* a tail.                                                                 *)
WrittenInOrder ==
  \A s \in Streams :
    /\ Len(written[s]) <= Len(taken[s])
    /\ written[s] = SubSeq(taken[s], 1, Len(written[s]))

(* of_write_trailer: the status of the program tells what became of the    *)
(* file.  One whose trailer was written without an error and that hit no   *)
(* size limit holds every packet that was taken, those of the muxing       *)
(* queues included, and an error of the muxer thread does not get lost.    *)
StatusIsTrue ==
  main = "closed" =>
    /\ trailer = "written" /\ status = "ok" /\ ~fileFull => written = taken
    /\ threadRet = "error" => status # "ok"

(* queue_packet: beyond its first size and max_muxing_queue_size the queue *)
(* grows only while it holds no more than the threshold, and a growth at   *)
(* most doubles it; only the ends that are queued have no size.            *)
MuxingQueueBounded ==
  \A s \in Streams :
    \/ Len(muxing_queue[s]) <= InitCap
    \/ Len(muxing_queue[s]) <= MaxQueue
    \/ Len(muxing_queue[s]) <= 2 * (Threshold + MaxEofs - 1)

(* thread_stop, tq_free, ost_free: when the file is closed the thread is   *)
(* gone and no packet is left, on every path that leads there.             *)
NothingLeft ==
  main = "closed" =>
    /\ thread \in {"none", "exit"}
    /\ live = {} /\ tq # "up"
    /\ \A s \in Streams : muxing_queue[s] = <<>>

(* tq_send, thread_start: a call of the caller returns; the muxer thread   *)
(* takes or refuses what the main thread waits to send.  thread_stop: once *)
(* it is asked to stop, the muxer thread ends and the file gets closed.    *)
EveryCallReturns ==
  /\ main \in {"sent", "flush"} ~> main \in {"run", "close"}
  /\ main \in {"stop", "close"} ~> main = "closed"
=============================================================================
