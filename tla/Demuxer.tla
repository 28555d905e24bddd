------------------------------ MODULE Demuxer ------------------------------
(***************************************************************************)
(* One input file of fftools/ffmpeg_demux.c: a thread reads packets, moves *)
(* their timestamps and sends them through a message queue to the main     *)
(* thread, which takes them with ifile_get_packet.  At the end of a file   *)
(* that is looped the thread sends a mark, the main thread flushes its     *)
(* decoders and reports the length of the last audio frames in a second    *)
(* queue, and the thread starts over behind the longest of the streams.    *)
(*                                                                         *)
(* Time is counted in a unit that every time base is a multiple of, and    *)
(* packets are [stream, pts], numbered by their place in the file.  DTS    *)
(* are moved like PTS; ts_scale is 1.                                      *)
(***************************************************************************)
EXTENDS Integers, Sequences, FiniteSets, SequencesExt

CONSTANTS
  Streams,     (* the streams of the file                                  *)
  AudioSets,   (* which of them may be audio and decoded                   *)
  Tb,          (* the time base of each stream                             *)
  LastFrame,   (* the length of a frame of each stream, in its time base   *)
  Files,       (* contents of a file: sequences of [stream, pts]           *)
  Wrap,        (* 2 ^ pts_wrap_bits                                        *)
  TsOffset,    (* ifile->ts_offset                                         *)
  Loops,       (* values of the option -stream_loop                        *)
  QueueSizes,  (* values of d->thread_queue_size                           *)
  MaxPasses    (* bound: passes through a file that is looped for ever     *)

ASSUME StreamAssumption ==
  /\ Streams \subseteq Int /\ IsFiniteSet(Streams) /\ Streams # {}
  /\ AudioSets \subseteq SUBSET Streams
ASSUME TimeAssumption ==
  /\ Tb \in [Streams -> Nat \ {0}] /\ LastFrame \in [Streams -> Nat \ {0}]
  /\ TsOffset \in Int /\ Wrap \in Nat
ASSUME FileAssumption ==
  \A f \in Files : f \in Seq([stream : Streams, pts : Int])
ASSUME QueueAssumption == QueueSizes \subseteq Nat \ {0} /\ Loops \subseteq Int

VARIABLES
  file,          (* what the file contains                                 *)
  audio,         (* its streams that are audio and decoded                 *)
  loop,          (* d->loop                                                *)
  thread_queue_size, non_blocking,
  pos,           (* how many packets of this pass were read                *)
  pass,          (* the number of this pass                                *)
  duration,      (* d->duration with d->time_base                          *)
  min_pts, max_pts, wrap_correction_done, nb_samples,
  in_thread_queue, err_send, err_recv,
  audio_duration_queue,
  thread,        (* where input_thread is                                  *)
  msg,           (* the message it sends                                   *)
  flags,         (* AV_THREAD_MESSAGE_NONBLOCK                             *)
  got_durations,
  main,          (* where the main thread is                               *)
  flushed,       (* streams decode_flush is done with                      *)
  eof_reached,
  delivered,     (* history: what ifile_get_packet returned                *)
  failed         (* history: reading or seeking failed                     *)

options   == <<file, audio, thread_queue_size, non_blocking>>
readVars  == <<loop, pos, pass>>
timeVars  == <<duration, min_pts, max_pts, wrap_correction_done>>
queueVars == <<in_thread_queue, err_send, err_recv>>
thrVars   == <<thread, msg, flags, got_durations, failed>>
mainVars  == <<main, flushed, eof_reached, delivered>>
vars == <<options, readVars, timeVars, nb_samples, queueVars,
          audio_duration_queue, thrVars, mainVars>>

INT64_MAX == 1000000
INT64_MIN == -INT64_MAX

Packet(s, t, n) == [stream |-> s, pts |-> t, pos |-> n, pass |-> pass]
Looping == [looping |-> pass]
IsLooping(m) == "looping" \in DOMAIN m
NoMsg == [none |-> TRUE]

Init ==
  /\ file \in Files /\ loop \in Loops
  /\ audio \in AudioSets
  /\ thread_queue_size \in QueueSizes /\ non_blocking \in BOOLEAN
  /\ pos = 0 /\ pass = 1
  /\ duration = [ticks |-> 0, tb |-> 1]
  /\ min_pts = [s \in Streams |-> INT64_MAX]
  /\ max_pts = [s \in Streams |-> INT64_MIN]
  /\ wrap_correction_done = {} /\ nb_samples = [s \in Streams |-> 0]
  /\ in_thread_queue = <<>> /\ err_send = FALSE /\ err_recv = FALSE
  /\ audio_duration_queue = <<>>
  /\ thread = "none" /\ msg = NoMsg /\ flags = FALSE
  /\ got_durations = 0 /\ failed = FALSE
  /\ main = "run" /\ flushed = {} /\ eof_reached = FALSE /\ delivered = <<>>

-----------------------------------------------------------------------------
(* av_rescale_q, rounding to the nearest.                                  *)
Rescale(x, from, to) ==
  IF x >= 0 THEN (x * from + to \div 2) \div to
            ELSE -((-x * from + to \div 2) \div to)

(* av_thread_message_queue_send: blocks while there is no room, unless an  *)
(* error code was set for senders.  recv gives what is queued before the   *)
(* error code that was set for receivers.                                  *)
HasRoom == Len(in_thread_queue) < thread_queue_size

Send(m) ==
  /\ ~err_send /\ HasRoom
  /\ in_thread_queue' = Append(in_thread_queue, m)
  /\ UNCHANGED <<err_send, err_recv>>

Recv ==
  /\ in_thread_queue # <<>>
  /\ in_thread_queue' = Tail(in_thread_queue)
  /\ UNCHANGED <<err_send, err_recv>>

-----------------------------------------------------------------------------
(* ts_fixup: a packet of stream s that was read with time t.               *)
Wrapped(s, t) == Wrap > 0 /\ t > Rescale(-TsOffset, 1, Tb[s]) + Wrap \div 2
Wraps(s, t)   == s \notin wrap_correction_done /\ Wrapped(s, t)

Shift(s) ==
  Rescale(TsOffset, 1, Tb[s]) + Rescale(duration.ticks, duration.tb, Tb[s])

ts_fixup(s, t) ==
  LET pts == (IF Wraps(s, t) THEN t - Wrap ELSE t) + Shift(s) IN
  /\ wrap_correction_done' = IF Wraps(s, t) THEN wrap_correction_done
                             ELSE wrap_correction_done \cup {s}
  /\ min_pts' = [min_pts EXCEPT ![s] = IF pts < @ THEN pts ELSE @]
  /\ max_pts' = [max_pts EXCEPT ![s] = IF pts > @ THEN pts ELSE @]
  /\ msg' = Packet(s, pts, pos + 1)
  /\ UNCHANGED duration

(* The label finish of input_thread.  Variant: the error is not set for    *)
(* the receiver.                                                           *)
Finish_Silent(error) ==
  /\ thread' = "ended"
  /\ failed' = (failed \/ error)
  /\ UNCHANGED queueVars

Finish(error) ==
  /\ thread' = "ended"
  /\ failed' = (failed \/ error)
  /\ err_recv' = TRUE
  /\ UNCHANGED <<in_thread_queue, err_send>>

(* av_read_frame gives the next packet; AVERROR(EAGAIN) changes nothing.   *)
ReadPacket ==
  /\ thread = "read"
  /\ pos < Len(file)
  /\ pos' = pos + 1
  /\ thread' = "send"
  /\ ts_fixup(file[pos + 1].stream, file[pos + 1].pts)
  /\ UNCHANGED <<options, loop, pass, nb_samples, queueVars,
                 audio_duration_queue, flags, got_durations, failed, mainVars>>

(* A corrupt packet with -xerror, or no memory for the message.            *)
ReadUnusable ==
  /\ thread = "read"
  /\ pos < Len(file)
  /\ Finish(TRUE)
  /\ UNCHANGED <<options, readVars, timeVars, nb_samples, audio_duration_queue,
                 msg, flags, got_durations, mainVars>>

(* The file ends, or av_read_frame fails before: a loop takes both for the *)
(* end of a pass.                                                          *)
ReadEnds ==
  /\ thread = "read"
  /\ \/ /\ loop # 0
        /\ thread' = "sendLooping"
        /\ msg' = Looping
        /\ failed' = (failed \/ pos < Len(file))
        /\ UNCHANGED queueVars
     \/ /\ loop = 0
        /\ Finish(pos < Len(file))
        /\ UNCHANGED msg
  /\ UNCHANGED <<options, readVars, timeVars, nb_samples, audio_duration_queue,
                 flags, got_durations, mainVars>>

(* The packet is sent; a queue that does not block is tried once and then  *)
(* blocks for ever.  Variant: what did not fit is dropped.                 *)
SendBlocks_Drops ==
  /\ thread = "send" /\ flags /\ ~err_send /\ ~HasRoom
  /\ flags' = FALSE
  /\ thread' = "read" /\ msg' = NoMsg
  /\ UNCHANGED <<options, readVars, timeVars, nb_samples, queueVars,
                 audio_duration_queue, got_durations, failed, mainVars>>

SendBlocks ==
  /\ thread = "send" /\ flags /\ ~err_send /\ ~HasRoom
  /\ flags' = FALSE
  /\ UNCHANGED <<options, readVars, timeVars, nb_samples, queueVars,
                 audio_duration_queue, thread, msg, got_durations, failed,
                 mainVars>>

SendPacket ==
  /\ thread = "send"
  /\ Send(msg)
  /\ thread' = "read" /\ msg' = NoMsg
  /\ UNCHANGED <<options, readVars, timeVars, nb_samples, audio_duration_queue,
                 flags, got_durations, failed, mainVars>>

SendLooping ==
  /\ thread = "sendLooping"
  /\ Send(msg)
  /\ thread' = "seek" /\ msg' = NoMsg
  /\ UNCHANGED <<options, readVars, timeVars, nb_samples, audio_duration_queue,
                 flags, got_durations, failed, mainVars>>

(* thread_stop has set the error for senders.  Variant: tried once more.   *)
SendRefused_Retries ==
  /\ thread \in {"send", "sendLooping"}
  /\ err_send
  /\ flags' = FALSE
  /\ UNCHANGED <<options, readVars, timeVars, nb_samples, queueVars,
                 audio_duration_queue, thread, msg, got_durations, failed,
                 mainVars>>

SendRefused ==
  /\ thread \in {"send", "sendLooping"}
  /\ err_send
  /\ Finish(FALSE)
  /\ msg' = NoMsg
  /\ UNCHANGED <<options, readVars, timeVars, nb_samples, audio_duration_queue,
                 flags, got_durations, mainVars>>

-----------------------------------------------------------------------------
(* The length of stream s with its last frame, by ifile_duration_update.   *)
Extent(s, last) ==
  [ticks |-> IF max_pts[s] > min_pts[s] THEN last + max_pts[s] - min_pts[s]
             ELSE last,
   tb |-> Tb[s]]

TimeOf(d) == d.ticks * d.tb

(* Variant: the stream that is updated last counts.                        *)
ifile_duration_update_Last(s, last) == Extent(s, last)

ifile_duration_update(s, last) ==
  IF duration.ticks = 0 \/ TimeOf(duration) < TimeOf(Extent(s, last))
  THEN Extent(s, last) ELSE duration

(* seek_to_start: the file is positioned; without audio the lengths of     *)
(* frames follow from the frame rates, and the longest stream counts, ...  *)
Restart ==
  /\ thread' = "read"
  /\ pos' = 0 /\ pass' = pass + 1
  /\ loop' = IF loop > 0 THEN loop - 1 ELSE loop

SeekToStart ==
  /\ thread = "seek"
  /\ pass < MaxPasses
  /\ \/ /\ audio = {}
        /\ \E d \in {duration} \cup {Extent(s, LastFrame[s]) : s \in Streams} :
             /\ TimeOf(duration) <= TimeOf(d)
             /\ \A s \in Streams : TimeOf(Extent(s, LastFrame[s])) <= TimeOf(d)
             /\ duration' = d
        /\ Restart
        /\ UNCHANGED got_durations
     \/ /\ audio # {}
        /\ thread' = "durations" /\ got_durations' = 0
        /\ UNCHANGED <<readVars, duration>>
  /\ UNCHANGED <<options, min_pts, max_pts, wrap_correction_done, nb_samples,
                 queueVars, audio_duration_queue, msg, flags, failed, mainVars>>

SeekFails ==
  /\ thread = "seek"
  /\ Finish(TRUE)
  /\ UNCHANGED <<options, readVars, timeVars, nb_samples, audio_duration_queue,
                 msg, flags, got_durations, mainVars>>

(* ... with audio they are awaited from the main thread, one per stream.   *)
RecvDuration ==
  /\ thread = "durations"
  /\ audio_duration_queue # <<>>
  /\ LET dur == Head(audio_duration_queue) IN
       duration' = ifile_duration_update(dur.stream, dur.samples)
  /\ audio_duration_queue' = Tail(audio_duration_queue)
  /\ got_durations' = got_durations + 1
  /\ \/ /\ got_durations' = Cardinality(audio)
        /\ Restart
     \/ /\ got_durations' < Cardinality(audio)
        /\ UNCHANGED <<thread, readVars>>
  /\ UNCHANGED <<options, min_pts, max_pts, wrap_correction_done, nb_samples,
                 queueVars, msg, flags, failed, mainVars>>

input_thread ==
  \/ ReadPacket \/ ReadUnusable \/ ReadEnds \/ SendBlocks \/ SendPacket
  \/ SendLooping \/ SendRefused \/ SeekToStart \/ SeekFails \/ RecvDuration

-----------------------------------------------------------------------------
(* ifile_get_packet: the first call starts the thread, or fails to.        *)
ifile_get_packet ==
  /\ main = "run"
  /\ ~eof_reached
  /\ \/ /\ thread # "none"
        /\ main' = "recv"
        /\ UNCHANGED <<thread, flags, eof_reached>>
     \/ /\ thread = "none"
        /\ main' = "recv"
        /\ thread' = "read" /\ flags' = non_blocking
        /\ UNCHANGED eof_reached
     \/ /\ thread = "none"
        /\ eof_reached' = TRUE
        /\ UNCHANGED <<main, thread, flags>>
  /\ UNCHANGED <<options, readVars, timeVars, nb_samples, queueVars,
                 audio_duration_queue, msg, got_durations, failed, flushed,
                 delivered>>

(* A decoder that was given packets gives frames, or not yet.              *)
Decode(s) ==
  nb_samples' \in {nb_samples} \cup
    {[nb_samples EXCEPT ![t] = LastFrame[t]] :
       t \in {t \in audio \cap {s} :
                \E i \in DOMAIN delivered' :
                  ~IsLooping(delivered'[i]) /\ delivered'[i].stream = t}}

(* A packet, ...                                                           *)
GetPacket ==
  /\ main = "recv"
  /\ Recv
  /\ LET m == Head(in_thread_queue) IN
       /\ delivered' = Append(delivered, m)
       /\ \/ /\ IsLooping(m)
             /\ main' = "flush" /\ flushed' = {}
             /\ UNCHANGED nb_samples
          \/ /\ ~IsLooping(m)
             /\ main' = "run"
             /\ Decode(m.stream)
             /\ UNCHANGED flushed
  /\ UNCHANGED <<options, readVars, timeVars, audio_duration_queue, thrVars,
                 eof_reached>>

(* ... the error or end that the thread left behind, AVERROR(EAGAIN), ...  *)
GetNothing ==
  /\ main = "recv"
  /\ in_thread_queue = <<>>
  /\ err_recv \/ non_blocking
  /\ main' = "run"
  /\ eof_reached' = err_recv
  /\ UNCHANGED <<options, readVars, timeVars, nb_samples, queueVars,
                 audio_duration_queue, thrVars, flushed, delivered>>

(* ... or the mark: decode_flush reports the last frame of each stream.    *)
(* Variant: only of streams that gave one.                                 *)
decode_flush_IfAny(s) ==
  /\ main = "flush"
  /\ s = Min(Streams \ flushed)
  /\ flushed' = flushed \cup {s}
  /\ main' = IF flushed' = Streams THEN "run" ELSE "flush"
  /\ UNCHANGED delivered
  /\ Decode(s)
  /\ audio_duration_queue' = IF s \in audio /\ nb_samples'[s] > 0
       THEN Append(audio_duration_queue,
              [stream |-> s, samples |-> nb_samples'[s], pass |-> pass])
       ELSE audio_duration_queue
  /\ UNCHANGED <<options, readVars, timeVars, queueVars, thrVars, eof_reached>>

decode_flush(s) ==
  /\ main = "flush"
  /\ s = Min(Streams \ flushed)
  /\ flushed' = flushed \cup {s}
  /\ main' = IF flushed' = Streams THEN "run" ELSE "flush"
  /\ UNCHANGED delivered
  /\ Decode(s)
  /\ IF s \in audio
     THEN /\ Len(audio_duration_queue) < Cardinality(audio)
          /\ audio_duration_queue' = Append(audio_duration_queue,
               [stream |-> s, samples |-> nb_samples'[s], pass |-> pass])
     ELSE UNCHANGED audio_duration_queue
  /\ UNCHANGED <<options, readVars, timeVars, queueVars, thrVars, eof_reached>>

(* thread_stop, called by ifile_close: senders are refused, ...            *)
ifile_close ==
  /\ main = "run"
  /\ main' = IF thread = "none" THEN "closed" ELSE "drain"
  /\ err_send' = (thread # "none")
  /\ UNCHANGED <<options, readVars, timeVars, nb_samples, in_thread_queue,
                 err_recv, audio_duration_queue, thrVars, flushed, eof_reached,
                 delivered>>

(* ... the queue is emptied until the thread has left its error, ...       *)
Drain ==
  /\ main = "drain"
  /\ \/ /\ Recv
        /\ UNCHANGED main
     \/ /\ in_thread_queue = <<>> /\ err_recv
        /\ main' = "join"
        /\ UNCHANGED queueVars
  /\ UNCHANGED <<options, readVars, timeVars, nb_samples, audio_duration_queue,
                 thrVars, flushed, eof_reached, delivered>>

(* ... the thread is joined and the queues are freed.                      *)
Join ==
  /\ main = "join"
  /\ thread = "ended"
  /\ main' = "closed"
  /\ audio_duration_queue' = <<>>
  /\ UNCHANGED <<options, readVars, timeVars, nb_samples, queueVars, thrVars,
                 flushed, eof_reached, delivered>>

(* ifile_close is over; or, with senders refused, the main thread waits    *)
(* for an error that the other one will not set: it waits for durations.   *)
Closed ==
  /\ main = "closed"
  /\ UNCHANGED vars

WaitForEachOther ==
  /\ main = "drain" /\ in_thread_queue = <<>>
  /\ thread = "durations" /\ audio_duration_queue = <<>>
  /\ UNCHANGED vars

(* What the main thread does inside a call.                                *)
MainStep ==
  \/ GetPacket \/ GetNothing \/ Drain \/ Join
  \/ \E s \in Streams : decode_flush(s)

Next ==
  \/ input_thread
  \/ MainStep
  \/ ifile_get_packet \/ ifile_close
  \/ Closed \/ WaitForEachOther

Spec == Init /\ [][Next]_vars

(* Both threads run when they can, and a read answers in the end.          *)
FairSpec == Spec /\ WF_vars(input_thread) /\ WF_vars(MainStep)

-----------------------------------------------------------------------------
Messages ==
  [stream : Streams, pts : Int, pos : Nat, pass : Nat] \cup [looping : Nat]

(* Every variable keeps its type, and the two queues their capacities.     *)
TypeOK ==
  /\ file \in Seq([stream : Streams, pts : Int]) /\ audio \subseteq Streams
  /\ thread_queue_size \in Nat \ {0} /\ non_blocking \in BOOLEAN
  /\ loop \in Int /\ pos \in 0 .. Len(file) /\ pass \in Nat
  /\ duration \in [ticks : Int, tb : Nat \ {0}]
  /\ min_pts \in [Streams -> Int] /\ max_pts \in [Streams -> Int]
  /\ wrap_correction_done \subseteq Streams /\ nb_samples \in [Streams -> Nat]
  /\ in_thread_queue \in Seq(Messages)
  /\ Len(in_thread_queue) <= thread_queue_size
  /\ err_send \in BOOLEAN /\ err_recv \in BOOLEAN
  /\ audio_duration_queue \in Seq([stream : audio, samples : Nat, pass : Nat])
  /\ Len(audio_duration_queue) <= Cardinality(audio)
  /\ thread \in {"none", "read", "send", "sendLooping", "seek", "durations",
                 "ended"}
  /\ msg \in Messages \cup {NoMsg} /\ flags \in BOOLEAN
  /\ got_durations \in 0 .. Cardinality(audio) /\ failed \in BOOLEAN
  /\ main \in {"run", "recv", "flush", "drain", "join", "closed"}
  /\ flushed \subseteq Streams /\ eof_reached \in BOOLEAN
  /\ delivered \in Seq(Messages)

(* What may follow m: the next packet of the pass, the mark behind its     *)
(* last one (or an earlier one, if reading failed), the first packet of    *)
(* the next pass behind the mark.                                          *)
Follows(m, n) ==
  \/ /\ ~IsLooping(m) /\ ~IsLooping(n)
     /\ n.pass = m.pass /\ n.pos = m.pos + 1
  \/ /\ ~IsLooping(m) /\ IsLooping(n)
     /\ n.looping = m.pass
     /\ m.pos = Len(file) \/ failed
  \/ /\ IsLooping(m) /\ ~IsLooping(n)
     /\ n.pass = m.looping + 1 /\ n.pos = 1
  \/ /\ IsLooping(m) /\ IsLooping(n)
     /\ n.looping = m.looping + 1
     /\ file = <<>> \/ failed

(* Unless reading failed, the end is told behind all packets.              *)
EndIsLast ==
  eof_reached /\ thread = "ended" /\ ~failed =>
    /\ loop = 0 /\ pos = Len(file) /\ in_thread_queue = <<>>
    /\ file # <<>> =>
         /\ delivered # <<>>
         /\ LET m == Last(delivered) IN
            ~IsLooping(m) /\ m.pass = pass /\ m.pos = Len(file)

(* input_thread with its sends that do not block: the main thread gets     *)
(* every packet of every pass in order, with the mark between passes, and  *)
(* the end only behind the last packet of the last pass.                   *)
PassesInOrder ==
  /\ \A i \in 1 .. Len(delivered) - 1 : Follows(delivered[i], delivered[i + 1])
  /\ delivered # <<>> => IF IsLooping(delivered[1]) THEN file = <<>> \/ failed
                         ELSE delivered[1].pos = 1 /\ delivered[1].pass = 1
  /\ EndIsLast

Grows(s) ==
  \A i \in DOMAIN file :
    file[i].stream = s =>
      /\ ~Wrapped(s, file[i].pts)
      /\ \A j \in DOMAIN file :
           i < j /\ file[j].stream = s => file[i].pts < file[j].pts

PacketOf(s, m) == ~IsLooping(m) /\ m.stream = s

Rising(s, seq) ==
  \A i, j \in DOMAIN seq :
    i < j /\ PacketOf(s, seq[i]) /\ PacketOf(s, seq[j]) =>
      seq[i].pts <= seq[j].pts

(* seek_to_start, ts_fixup: in a file that can be read, whose timestamps   *)
(* grow and do not wrap, those of a stream do not go back when the file is *)
(* looped, for audio streams or when there is no audio.                    *)
TimesGrow ==
  \A s \in Streams :
    ~failed /\ Grows(s) /\ (s \in audio \/ audio = {}) => Rising(s, delivered)

Marks == {i \in DOMAIN in_thread_queue : IsLooping(in_thread_queue[i])}

ToBeFlushed ==
  Cardinality(Marks) * Cardinality(audio)
    + IF main = "flush" THEN Cardinality(audio \ flushed) ELSE 0

(* The durations the thread takes are those of the pass that has ended,    *)
(* one per audio stream: none is left for the next pass, none is awaited   *)
(* that nobody is going to send.                                           *)
DurationsArePaired ==
  /\ \A i \in DOMAIN audio_duration_queue : audio_duration_queue[i].pass = pass
  /\ main \in {"run", "recv", "flush"} /\ audio # {} =>
       /\ thread = "durations" =>
            got_durations + Len(audio_duration_queue) + ToBeFlushed
              = Cardinality(audio)
       /\ thread \in {"read", "send", "sendLooping"} =>
            Len(audio_duration_queue) + ToBeFlushed = 0

(* Every call of ifile_get_packet returns, and so does decode_flush.       *)
CallsReturn == main \in {"recv", "flush"} ~> main = "run"

(* ifile_close returns, unless it meets a thread that awaits durations.    *)
StopEndsUnlessLooping ==
  main = "drain" ~> main = "closed" \/ thread = "durations"
=============================================================================
