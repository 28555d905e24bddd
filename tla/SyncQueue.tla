----------------------------- MODULE SyncQueue -----------------------------
(***************************************************************************)
(* sync_queue.c: frames of several streams are held back until the other   *)
(* streams have come as far, so that the output ends with the shortest of  *)
(* the streams that limit it.  The two clients are the muxer thread        *)
(* (sync_queue_process, which receives for any stream) and the encoders    *)
(* (submit_encode_frame, which receives for the stream it has sent to);    *)
(* each of them is one thread.                                             *)
(*                                                                         *)
(* Time is counted in ticks of one microsecond; a time base is a number of *)
(* ticks.  The pool of frame objects (see ThreadQueue) and a failed        *)
(* allocation, which changes nothing, are left out.                        *)
(***************************************************************************)
EXTENDS Integers, Sequences, FiniteSets, SequencesExt

CONSTANTS
  NbStreams,   (* sq->nb_streams                                           *)
  Tb,          (* the time base given to sq_set_tb, per stream             *)
  DefaultTb,   (* the time base { 1, 1 } of sq_add_stream                  *)
  BufSize,     (* sq->buf_size_us                                          *)
  Frames,      (* [pts, duration] of the frames that are sent              *)
  Options,     (* how setup_sync_queues may call: the streams added as     *)
               (* limiting, the limits given to sq_limit_frames, and       *)
               (* perStream, TRUE for sq_encode and FALSE for sq_mux       *)
  MaxFrames    (* bound: frames sent per stream                            *)

Streams == 0 .. NbStreams - 1
NoTs    == -100                  \* AV_NOPTS_VALUE, below every timestamp
NoLimit == 1000                  \* UINT64_MAX

ASSUME StreamAssumption ==
  /\ NbStreams \in Nat \ {0}
  /\ \A o \in Options :
       /\ o.limiting \subseteq Streams /\ o.limiting # {}
       /\ o.framesMax \in [Streams -> Nat] /\ o.perStream \in BOOLEAN
       /\ \/ o.limiting = Streams                                \* -shortest
          \/ o.limiting = {s \in Streams : o.framesMax[s] < NoLimit}
ASSUME TimeAssumption ==
  /\ Tb \in [Streams -> Nat \ {0}] /\ DefaultTb \in Nat \ {0}
  /\ BufSize \in Nat /\ MaxFrames \in Nat
  /\ \A f \in Frames : f.pts \in Int /\ f.duration \in Nat

frame_ts(f) == f.pts + f.duration
TimeBases   == {DefaultTb} \cup {Tb[s] : s \in Streams}

(* A frame that has a timestamp ends later than AV_NOPTS_VALUE stands for, *)
(* in whatever time base they are compared.                                *)
ASSUME NoTsAssumption ==
  \A f \in Frames : frame_ts(f) # NoTs =>
    \A a, b, c \in TimeBases : NoTs * b + c <= frame_ts(f) * a

VARIABLES
  opt,       (* the options, which do not change                           *)
  sq,        (* the fields of SyncQueue and SyncQueueStream                *)
  fifo,      (* per stream, the frames that wait                           *)
  tbSet,     (* streams for which sq_set_tb was called                     *)
  ended,     (* streams that were sent the NULL frame                      *)
  client,    (* the stream whose frames are being received, or -1          *)
  flushed,   (* streams for which the client was told EOF                  *)
  longest    (* history: per stream, the latest end of a released frame    *)

clientVars == <<tbSet, ended, flushed>>
vars == <<opt, sq, fifo, clientVars, client, longest>>

Limiting  == opt.limiting
FramesMax == opt.framesMax
PerStream == opt.perStream

-----------------------------------------------------------------------------
(* av_compare_ts compares the products; a head in ticks.                   *)
HeadTime(q, s) == q.head_ts[s] * q.tb[s]
HasHead(q, s) == q.head_ts[s] # NoTs

(* av_rescale_q, to the nearest, halves away from zero.                    *)
Rescale(a, b, c) ==
  IF a >= 0 THEN (a * b + c \div 2) \div c ELSE -((-a * b + c \div 2) \div c)

(* The finished stream that ended first, s included.                      *)
NewFinishedHead(q, s) ==
  IF \/ q.head_finished_stream < 0
     \/ HeadTime(q, s) < HeadTime(q, q.head_finished_stream)
  THEN s ELSE q.head_finished_stream

(* A limiting stream that ends takes along every stream that is as far.     *)
finish_stream(q, s) ==
  LET cuts  == s \in Limiting /\ HasHead(q, s)
      hf    == IF cuts THEN NewFinishedHead(q, s) ELSE q.head_finished_stream
      ahead == {r \in Streams \ {hf} : /\ cuts /\ HasHead(q, r)
                                       /\ HeadTime(q, hf) <= HeadTime(q, r)}
      all   == q.finished \cup {s} \cup ahead
  IN [q EXCEPT !.finished = all,
               !.head_finished_stream = hf,
               !.over = @ \/ all = Streams]

(* The limiting streams that are behind the stream h.                      *)
Behind(q, h) ==
  {s \in Limiting : HasHead(q, s) /\ HeadTime(q, s) < HeadTime(q, h)}

(* The first of the streams that are farthest behind, if there is one; the *)
(* search starts with stream 0 when no head is known.                      *)
queue_head_update(q) ==
  LET start == IF q.head_stream < 0 THEN 0 ELSE q.head_stream
      least == {s \in Behind(q, start) : Behind(q, s) = {}}
  IN IF q.head_stream < 0 /\ \E s \in Limiting : ~HasHead(q, s) THEN q
     ELSE [q EXCEPT !.head_stream =
             IF least = {} THEN start
             ELSE CHOOSE s \in least : \A r \in least : s <= r]

(* Variant: a stream that overtakes the end is not finished.               *)
stream_update_ts_NoCut(q, s, ts) ==
  LET q1 == [q EXCEPT !.head_ts[s] = ts]
  IN IF ts = NoTs \/ (HasHead(q, s) /\ q.head_ts[s] >= ts) THEN q
     ELSE IF s \in Limiting /\ q.head_stream \in {-1, s}
          THEN queue_head_update(q1) ELSE q1

(* Variant: the head is determined once.                                   *)
stream_update_ts_HeadOnce(q, s, ts) ==
  LET q1 == [q EXCEPT !.head_ts[s] = ts]
      q2 == IF /\ q1.head_finished_stream >= 0
               /\ HeadTime(q1, q1.head_finished_stream) <= HeadTime(q1, s)
            THEN finish_stream(q1, s) ELSE q1
  IN IF ts = NoTs \/ (HasHead(q, s) /\ q.head_ts[s] >= ts) THEN q
     ELSE IF s \in Limiting /\ q2.head_stream = -1
          THEN queue_head_update(q2) ELSE q2

stream_update_ts(q, s, ts) ==
  LET q1 == [q EXCEPT !.head_ts[s] = ts]
      q2 == IF /\ q1.head_finished_stream >= 0
               /\ HeadTime(q1, q1.head_finished_stream) <= HeadTime(q1, s)
            THEN finish_stream(q1, s) ELSE q1
  IN IF ts = NoTs \/ (HasHead(q, s) /\ q.head_ts[s] >= ts) THEN q
     ELSE IF s \in Limiting /\ q2.head_stream \in {-1, s}
          THEN queue_head_update(q2) ELSE q2

-----------------------------------------------------------------------------
(* The first timestamp in the fifo of a stream.                            *)
TailTs(s) ==
  LET timed == {i \in 1 .. Len(fifo[s]) : frame_ts(fifo[s][i]) # NoTs}
  IN IF timed = {} THEN NoTs
     ELSE frame_ts(fifo[s][CHOOSE i \in timed : \A j \in timed : i <= j])

Overflows(q, s) ==
  LET tail == TailTs(s) IN
  /\ tail # NoTs
  /\ tail < q.head_ts[s]
  /\ (q.head_ts[s] - tail) * q.tb[s] >= BufSize

(* overflow_heartbeat pretends that a stream has come beyond the tail of   *)
(* the stream that overflows.                                              *)
Heartbeat(q, s, r) ==
  LET next == TailTs(s) + 1
      ts   == Rescale(next, q.tb[s], q.tb[r])
  IN IF \/ r = s \/ r \in q.finished
        \/ (HasHead(q, r) /\ next * q.tb[s] <= HeadTime(q, r))
     THEN q
     ELSE stream_update_ts(q, r, IF HasHead(q, r) /\ q.head_ts[r] >= ts
                                 THEN q.head_ts[r] + 1 ELSE ts)

(* The first of the streams that are most ahead, when all are asked for.   *)
MostAhead(q) ==
  {s \in Streams : /\ HasHead(q, s)
                   /\ \A r \in Streams : HasHead(q, r) =>
                        \/ HeadTime(q, r) < HeadTime(q, s)
                        \/ (HeadTime(q, r) = HeadTime(q, s) /\ s <= r)}

Heartbeats(q, s) ==
  LET told[n \in 0 .. NbStreams] ==
        IF n = 0 THEN q ELSE Heartbeat(told[n - 1], s, n - 1)
  IN told[NbStreams]

overflow_heartbeat(q, asked) ==
  LET over == {s \in IF PerStream THEN asked ELSE MostAhead(q) : Overflows(q, s)}
  IN IF over = {} THEN q ELSE Heartbeats(q, CHOOSE s \in over : TRUE)

-----------------------------------------------------------------------------
(* sq_alloc, sq_add_stream, and sq_limit_frames on the new streams.        *)
Init ==
  /\ opt \in Options
  /\ sq = [finished |-> {s \in Streams : FramesMax[s] = 0},
           over     |-> FramesMax[0] = 0,    \* the only stream at that time
           head_stream |-> -1, head_finished_stream |-> -1,
           head_ts  |-> [s \in Streams |-> NoTs],
           tb       |-> [s \in Streams |-> DefaultTb],
           sent     |-> [s \in Streams |-> 0]]
  /\ fifo = [s \in Streams |-> <<>>]
  /\ tbSet = {} /\ ended = {} /\ client = -1 /\ flushed = {}
  /\ longest = [s \in Streams |-> NoTs]

(* sq_set_tb, when the encoder of the stream is opened or, for the muxer,  *)
(* before the thread is started.                                           *)
sq_set_tb(s) ==
  /\ client = -1 /\ s \notin tbSet
  /\ tbSet' = tbSet \cup {s}
  /\ sq' = [sq EXCEPT !.tb[s] = Tb[s],
                      !.head_ts[s] = IF HasHead(sq, s)
                                     THEN Rescale(@, sq.tb[s], Tb[s]) ELSE @]
  /\ UNCHANGED <<opt, fifo, ended, client, flushed, longest>>

(* sq_send with a frame; a stream that is finished takes none.             *)
SendFrame(s, f) ==
  LET q1 == [stream_update_ts(sq, s, frame_ts(f)) EXCEPT !.sent[s] = @ + 1]
  IN
  /\ s \notin sq.finished
  /\ fifo' = [fifo EXCEPT ![s] = Append(@, f)]
  /\ sq' = IF q1.sent[s] >= FramesMax[s] THEN finish_stream(q1, s) ELSE q1

(* The client sends a frame and receives what has become ready; the muxer  *)
(* only when its frame was taken, otherwise it refuses the stream.         *)
sq_send(s, f) ==
  /\ client = -1
  /\ s \in tbSet /\ (PerStream \/ (s \notin ended /\ tbSet = Streams))
  /\ sq.sent[s] < MaxFrames
  /\ \/ /\ SendFrame(s, f)
        /\ client' = s /\ ended' = ended
     \/ /\ s \in sq.finished
        /\ \/ PerStream /\ client' = s /\ ended' = ended
           \/ ~PerStream /\ client' = -1 /\ ended' = ended \cup {s}
        /\ UNCHANGED <<sq, fifo>>
  /\ UNCHANGED <<opt, tbSet, flushed, longest>>

(* sq_send with NULL, followed by the same loop ...                        *)
sq_finish(s) ==
  /\ client = -1
  /\ \/ PerStream /\ s \in tbSet \ flushed
     \/ ~PerStream /\ s \notin ended /\ tbSet = Streams
  /\ ended' = ended \cup {s}
  /\ sq' = finish_stream(sq, s)
  /\ client' = s
  /\ UNCHANGED <<opt, fifo, tbSet, flushed, longest>>

(* ... or by nothing: close_output_stream, flush_encoders.                 *)
close_output_stream(s) ==
  /\ PerStream /\ client = -1 /\ s \notin ended
  /\ ended' = ended \cup {s}
  /\ sq' = finish_stream(sq, s)
  /\ UNCHANGED <<opt, fifo, tbSet, client, flushed, longest>>

-----------------------------------------------------------------------------
(* receive_for_stream: no frame that ends after the queue head.  Variant:  *)
(* that starts after it.                                                   *)
Ready_Starts(q, s) ==
  /\ fifo[s] # <<>>
  /\ \/ frame_ts(Head(fifo[s])) = NoTs
     \/ /\ q.head_stream >= 0
        /\ Head(fifo[s]).pts * q.tb[s] <= HeadTime(q, q.head_stream)

Ready(q, s) ==
  /\ fifo[s] # <<>>
  /\ LET ts == frame_ts(Head(fifo[s])) IN
       \/ ts = NoTs
       \/ q.head_stream >= 0 /\ ts * q.tb[s] <= HeadTime(q, q.head_stream)

(* Variant: what is queued is not looked at.                               *)
AtEof_Early(q, s) == q.over \/ s \in q.finished
AtEof(q, s)       == q.over \/ (s \in q.finished /\ fifo[s] = <<>>)

Asked == IF PerStream THEN {client} ELSE Streams

(* A frame is released, of the first stream that has one, ...              *)
Release(q, s) ==
  /\ sq' = q
  /\ fifo' = [fifo EXCEPT ![s] = Tail(@)]
  /\ longest' = [longest EXCEPT ![s] =
       LET ts == frame_ts(Head(fifo[s])) IN
       IF ts = NoTs \/ ts * q.tb[s] <= @ THEN @ ELSE ts * q.tb[s]]
  /\ UNCHANGED <<client, ended, flushed>>

(* ... or the loop of the client ends: with EAGAIN, or with EOF, which     *)
(* ends the encoder and the stream (close_output_stream).                  *)
LoopEnds(q) ==
  /\ client' = -1
  /\ IF PerStream /\ AtEof(q, client)
     THEN /\ sq' = finish_stream(q, client)
          /\ ended' = ended \cup {client} /\ flushed' = flushed \cup {client}
     ELSE sq' = q /\ UNCHANGED <<ended, flushed>>
  /\ UNCHANGED <<fifo, longest>>

(* receive_internal, and once more when there was nothing and a heartbeat  *)
(* has changed that.                                                       *)
sq_receive ==
  LET some  == \E s \in Asked : Ready(sq, s)
      eof   == \A s \in Asked : AtEof(sq, s)
      q     == IF some \/ eof THEN sq ELSE overflow_heartbeat(sq, Asked)
      ready == {s \in Asked : Ready(q, s)}
  IN
  /\ client >= 0
  /\ \/ \E s \in ready : /\ \A r \in ready : s <= r
                          /\ Release(q, s)
     \/ ready = {} /\ LoopEnds(q)
  /\ UNCHANGED <<opt, tbSet>>

(* The conversion is over.                                                 *)
Finished ==
  /\ ended = Streams /\ client = -1
  /\ PerStream => tbSet \subseteq flushed
Done == Finished /\ UNCHANGED vars

Next ==
  \/ \E s \in Streams : sq_set_tb(s) \/ sq_finish(s) \/ close_output_stream(s)
  \/ \E s \in Streams, f \in Frames : sq_send(s, f)
  \/ sq_receive
  \/ Done

Spec == Init /\ [][Next]_vars

-----------------------------------------------------------------------------
(* Every variable keeps its type.                                          *)
TypeOK ==
  /\ opt \in Options
  /\ sq.finished \subseteq Streams /\ sq.over \in BOOLEAN
  /\ sq.head_stream \in Streams \cup {-1}
  /\ sq.head_finished_stream \in Limiting \cup {-1}
  /\ sq.head_ts \in [Streams -> Int] /\ sq.tb \in [Streams -> Nat \ {0}]
  /\ sq.sent \in [Streams -> 0 .. MaxFrames]
  /\ fifo \in [Streams -> Seq(Frames)]
  /\ tbSet \subseteq Streams
  /\ ended \subseteq Streams /\ flushed \subseteq ended
  /\ client \in Streams \cup {-1}
  /\ longest \in [Streams -> Int]

(* receive_for_stream: include/sync_queue.h calls a stream limiting when   *)
(* "no other stream can be longer than this one".  Nothing that ends after *)
(* a limiting stream has come out, whatever comes later.                   *)
NoOtherIsLonger ==
  \A s \in Streams, r \in Limiting :
    longest[s] # NoTs => HasHead(sq, r) /\ longest[s] <= HeadTime(sq, r)

(* queue_head_update: head_stream is a stream with the smallest head.      *)
HeadIsSmallest ==
  sq.head_stream >= 0 =>
    \A s \in Limiting : /\ HasHead(sq, s)
                        /\ HeadTime(sq, sq.head_stream) <= HeadTime(sq, s)

(* finish_stream, stream_update_ts: head_finished_stream is the finished   *)
(* limiting stream that ended first, and no stream that has come as far    *)
(* takes another frame, in whichever order streams end, overtake it or are *)
(* moved by a heartbeat.                                                   *)
EndIsShared ==
  LET h == sq.head_finished_stream IN
  /\ \A s \in Limiting \cap sq.finished : HasHead(sq, s) =>
       h >= 0 /\ HeadTime(sq, h) <= HeadTime(sq, s)
  /\ h >= 0 => \A s \in Streams :
       HasHead(sq, s) /\ HeadTime(sq, h) <= HeadTime(sq, s) => s \in sq.finished

(* sq_receive: when the conversion is over, a stream keeps only frames     *)
(* that are behind one which ends after some limiting stream.              *)
NothingHeldBack ==
  Finished => \A s \in tbSet : fifo[s] # <<>> =>
    \E r \in Limiting :
      \/ ~HasHead(sq, r)
      \/ HeadTime(sq, r) < frame_ts(Head(fifo[s])) * sq.tb[s]
=============================================================================
