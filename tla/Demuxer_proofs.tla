--------------------------- MODULE Demuxer_proofs ---------------------------
(***************************************************************************)
(* Demuxer for any streams, files, options and queue sizes: the packets of *)
(* all passes reach the main thread in order, the durations the thread     *)
(* awaits are the ones the main thread sends, and the times of a stream    *)
(* grow from pass to pass.                                                 *)
(***************************************************************************)
EXTENDS Demuxer, SequenceTheorems, FiniteSetTheorems, WellFoundedInduction, TLAPS

(* The main thread is in a call or between two; ifile_close was not called.*)
Open == main \in {"run", "recv", "flush"}

(* While nobody empties the queue, what was sent is what was delivered and *)
(* what is queued.                                                         *)
Sent == delivered \o in_thread_queue

-----------------------------------------------------------------------------
(* Each message of s follows the one before, and the first one is the      *)
(* first one of the file.                                                  *)
FirstOne(m) == IF IsLooping(m) THEN file = <<>> \/ failed
               ELSE m.pos = 1 /\ m.pass = 1

Chain(s) ==
  /\ \A i \in 1 .. Len(s) - 1 : Follows(s[i], s[i + 1])
  /\ s # <<>> => FirstOne(s[1])

(* s goes up to the packet at p of pass q, ...                             *)
UpTo(s, q, p) ==
  IF p = 0
  THEN \/ s = <<>> /\ q = 1
       \/ s # <<>> /\ IsLooping(s[Len(s)]) /\ s[Len(s)].looping = q - 1
  ELSE s # <<>> /\ ~IsLooping(s[Len(s)])
         /\ s[Len(s)].pass = q /\ s[Len(s)].pos = p

(* ... or to the mark at the end of pass q.                                *)
UpToMark(s, q) == s # <<>> /\ IsLooping(s[Len(s)]) /\ s[Len(s)].looping = q

(* How far the thread has come, and what it is sending.                    *)
Reading(s) ==
  /\ thread = "none" => s = <<>> /\ pos = 0 /\ pass = 1
  /\ thread = "read" => UpTo(s, pass, pos)
  /\ thread = "send" =>
       /\ pos # 0 /\ UpTo(s, pass, pos - 1)
       /\ ~IsLooping(msg) /\ msg.pass = pass /\ msg.pos = pos
  /\ thread = "sendLooping" =>
       UpTo(s, pass, pos) /\ msg = Looping /\ (pos = Len(file) \/ failed)
  /\ thread \in {"seek", "durations"} => UpToMark(s, pass)
  /\ thread = "ended" /\ ~failed =>
       loop = 0 /\ pos = Len(file) /\ UpTo(s, pass, pos)

OrderInv ==
  /\ Chain(delivered)
  /\ Open \/ eof_reached => Chain(Sent) /\ Reading(Sent)
  /\ eof_reached => in_thread_queue = <<>> /\ thread \in {"none", "ended"}
  /\ Open => ~err_send
  /\ err_recv => thread = "ended"
  /\ thread = "none" => ~Open \/ main = "run"

-----------------------------------------------------------------------------
NoMark == \A i \in DOMAIN in_thread_queue : ~IsLooping(in_thread_queue[i])

OneMark ==
  \E i \in DOMAIN in_thread_queue :
    /\ IsLooping(in_thread_queue[i])
    /\ \A j \in DOMAIN in_thread_queue :
         IsLooping(in_thread_queue[j]) => j = i

(* How many durations are still to be sent for the mark that was taken,    *)
(* and how many the thread has.                                            *)
Left == IF main = "flush" THEN Cardinality(audio \ flushed) ELSE 0
Got  == IF thread = "durations" THEN got_durations ELSE 0

(* The durations that are queued are of this pass, and no more than the    *)
(* thread waits for.                                                       *)
DurationInv ==
  /\ \A i \in DOMAIN audio_duration_queue : audio_duration_queue[i].pass = pass
  /\ main = "flush" => flushed # Streams
  /\ thread \in {"none", "read", "send", "sendLooping"} =>
       audio_duration_queue = <<>>
  /\ thread = "durations" =>
       /\ audio # {}
       /\ got_durations + Len(audio_duration_queue) <= Cardinality(audio)

(* A pass ends with one mark; while that is queued no duration was sent,   *)
(* and after it the durations that are missing are being sent.             *)
MarkInv ==
  Open /\ audio # {} =>
    /\ thread \in {"none", "read", "send", "sendLooping"} =>
         NoMark /\ (main = "flush" => audio \subseteq flushed)
    /\ thread \in {"seek", "durations"} =>
         \/ /\ OneMark /\ Got = 0 /\ audio_duration_queue = <<>>
            /\ main = "flush" => audio \subseteq flushed
         \/ /\ NoMark
            /\ Got + Len(audio_duration_queue) + Left = Cardinality(audio)

-----------------------------------------------------------------------------
(* av_rescale_q gives an integer.                                          *)
LEMMA RescaleType ==
  ASSUME NEW x \in Int, NEW from \in Nat, NEW to \in Nat \ {0}
  PROVE  Rescale(x, from, to) \in Int
<1>1. PICK a : a = x * from
  OBVIOUS
<1>2. PICK b : b = -x * from
  OBVIOUS
<1>3. a \in Int /\ b \in Int
  BY <1>1, <1>2
<1>4. PICK h : h = to \div 2
  OBVIOUS
<1>5. h \in Int
  BY <1>4
<1>6. (a + h) \div to \in Int /\ (b + h) \div to \in Int
  BY <1>3, <1>5
<1> QED
  BY <1>1, <1>2, <1>4, <1>6 DEF Rescale

(* What the assumptions say of a stream.                                   *)
LEMMA StreamFacts ==
  ASSUME NEW s \in Streams
  PROVE  s \in Int /\ Tb[s] \in Nat \ {0} /\ LastFrame[s] \in Nat \ {0}
  BY StreamAssumption, TimeAssumption

(* The audio streams are finitely many.                                    *)
LEMMA AudioFacts ==
  ASSUME NEW A, A \subseteq Streams
  PROVE  IsFiniteSet(A) /\ Cardinality(A) \in Nat
  BY StreamAssumption, FS_Subset, FS_CardinalityType

(* A packet and a mark are messages, and they are told apart.              *)
LEMMA MessageFacts ==
  ASSUME pass \in Nat
  PROVE  /\ Looping \in Messages /\ IsLooping(Looping) /\ Looping.looping = pass
         /\ \A s \in Streams, t \in Int, n \in Nat :
              /\ Packet(s, t, n) \in Messages /\ ~IsLooping(Packet(s, t, n))
              /\ Packet(s, t, n).pass = pass /\ Packet(s, t, n).pos = n
              /\ Packet(s, t, n).stream = s /\ Packet(s, t, n).pts = t
  BY DEF Looping, Packet, Messages, IsLooping

(* The members of the two kinds.                                           *)
LEMMA MessageKinds ==
  ASSUME NEW m \in Messages
  PROVE  IF IsLooping(m) THEN m \in [looping : Nat]
         ELSE m \in [stream : Streams, pts : Int, pos : Nat, pass : Nat]
  BY DEF Messages, IsLooping

-----------------------------------------------------------------------------
(* The types of what the thread reads and times.                           *)
ReadTypes ==
  /\ file \in Seq([stream : Streams, pts : Int]) /\ audio \subseteq Streams
  /\ thread_queue_size \in Nat \ {0} /\ non_blocking \in BOOLEAN
  /\ loop \in Int /\ pos \in 0 .. Len(file) /\ pass \in Nat
  /\ duration \in [ticks : Int, tb : Nat \ {0}]
  /\ min_pts \in [Streams -> Int] /\ max_pts \in [Streams -> Int]
  /\ wrap_correction_done \subseteq Streams

(* The types of the queues.                                                *)
QueueTypes ==
  /\ nb_samples \in [Streams -> Nat]
  /\ in_thread_queue \in Seq(Messages)
  /\ Len(in_thread_queue) <= thread_queue_size
  /\ err_send \in BOOLEAN /\ err_recv \in BOOLEAN
  /\ audio_duration_queue \in Seq([stream : audio, samples : Nat, pass : Nat])
  /\ Len(audio_duration_queue) <= Cardinality(audio)
  /\ msg \in Messages \cup {NoMsg}
  /\ delivered \in Seq(Messages)

(* The types of the places of the threads.                                 *)
PlaceTypes ==
  /\ thread \in {"none", "read", "send", "sendLooping", "seek", "durations",
                 "ended"}
  /\ flags \in BOOLEAN
  /\ got_durations \in 0 .. Cardinality(audio) /\ failed \in BOOLEAN
  /\ main \in {"run", "recv", "flush", "drain", "join", "closed"}
  /\ flushed \subseteq Streams /\ eof_reached \in BOOLEAN

(* TypeOK in three parts.                                                  *)
LEMMA TypeParts == TypeOK <=> ReadTypes /\ QueueTypes /\ PlaceTypes
  BY DEF TypeOK, ReadTypes, QueueTypes, PlaceTypes

(* The types of the first state.                                           *)
LEMMA InitTypes == Init => TypeOK
<1> SUFFICES ASSUME Init
             PROVE  TypeOK
  OBVIOUS
<1>1. /\ file \in Seq([stream : Streams, pts : Int]) /\ audio \subseteq Streams
      /\ thread_queue_size \in Nat \ {0} /\ loop \in Int
  BY FileAssumption, StreamAssumption, QueueAssumption DEF Init
<1>2. Cardinality(audio) \in Nat /\ Len(file) \in Nat
  BY <1>1, AudioFacts, LenProperties
<1>3. /\ in_thread_queue \in Seq(Messages) /\ delivered \in Seq(Messages)
      /\ audio_duration_queue \in Seq([stream : audio, samples : Nat, pass : Nat])
      /\ Len(in_thread_queue) = 0 /\ Len(audio_duration_queue) = 0
  BY EmptySeq DEF Init
<1>4. INT64_MAX \in Int /\ INT64_MIN \in Int
  BY SMT DEF INT64_MAX, INT64_MIN
<1>5. ReadTypes
  <2>1. duration \in [ticks : Int, tb : Nat \ {0}]
    BY DEF Init
  <2>2. min_pts \in [Streams -> Int] /\ max_pts \in [Streams -> Int]
    BY <1>4 DEF Init
  <2>3. pos \in 0 .. Len(file) /\ pass \in Nat /\ non_blocking \in BOOLEAN
        /\ wrap_correction_done \subseteq Streams
    BY <1>2 DEF Init
  <2> QED
    BY <1>1, <2>1, <2>2, <2>3 DEF ReadTypes
<1>6. QueueTypes
  <2>1. nb_samples \in [Streams -> Nat] /\ err_send \in BOOLEAN
        /\ err_recv \in BOOLEAN /\ msg \in Messages \cup {NoMsg}
    BY DEF Init
  <2>2. Len(in_thread_queue) <= thread_queue_size
        /\ Len(audio_duration_queue) <= Cardinality(audio)
    BY <1>1, <1>2, <1>3
  <2> QED
    BY <1>3, <2>1, <2>2 DEF QueueTypes
<1>7. PlaceTypes
  <2>1. /\ thread = "none" /\ flags = FALSE /\ got_durations = 0 /\ failed = FALSE
        /\ main = "run" /\ flushed = {} /\ eof_reached = FALSE
    BY DEF Init
  <2>2. got_durations \in 0 .. Cardinality(audio)
    BY <1>2, <2>1
  <2>3. /\ flags \in BOOLEAN /\ failed \in BOOLEAN /\ eof_reached \in BOOLEAN
        /\ flushed \subseteq Streams
    BY <2>1, Zenon
  <2> QED
    BY <2>1, <2>2, <2>3, Zenon DEF PlaceTypes
<1> QED
  BY <1>5, <1>6, <1>7 DEF TypeOK, ReadTypes, QueueTypes, PlaceTypes

(* The thread changes duration to the length of a stream.                  *)
LEMMA ExtentType ==
  ASSUME ReadTypes, NEW s \in Streams, NEW last \in Nat
  PROVE  Extent(s, last) \in [ticks : Int, tb : Nat \ {0}]
<1>1. max_pts[s] \in Int /\ min_pts[s] \in Int /\ Tb[s] \in Nat \ {0}
  BY StreamFacts DEF ReadTypes
<1>2. (IF max_pts[s] > min_pts[s] THEN last + max_pts[s] - min_pts[s] ELSE last)
        \in Int
  BY <1>1
<1> QED
  BY <1>1, <1>2 DEF Extent

(* What a read does to the times and to the message.                       *)
LEMMA ReadPacketTypes ==
  ASSUME TypeOK, ReadPacket
  PROVE  /\ ReadTypes' /\ msg' \in Messages
         /\ \E s \in Streams, t \in Int : msg' = Packet(s, t, pos + 1)
<1>0. /\ file \in Seq([stream : Streams, pts : Int]) /\ pass \in Nat
      /\ pos \in 0 .. Len(file) /\ pos < Len(file)
  BY DEF TypeOK, ReadPacket
<1>1. /\ pos \in Nat /\ pos < Len(file) /\ Len(file) \in Nat
      /\ file \in Seq([stream : Streams, pts : Int]) /\ pass \in Nat
  BY <1>0, LenProperties
<1>2. PICK e : e = file[pos + 1]
  OBVIOUS
<1>3. e \in [stream : Streams, pts : Int]
  <2>1. pos + 1 \in 1 .. Len(file)
    BY <1>1
  <2> QED
    BY <1>1, <1>2, <2>1, ElementOfSeq
<1>4. PICK s : s = e.stream
  OBVIOUS
<1>5. PICK t : t = e.pts
  OBVIOUS
<1>6. s \in Streams /\ t \in Int /\ ts_fixup(s, t)
  BY <1>2, <1>3, <1>4, <1>5 DEF ReadPacket
<1>7. Tb[s] \in Nat \ {0} /\ TsOffset \in Int /\ Wrap \in Nat
      /\ duration.ticks \in Int /\ duration.tb \in Nat
  BY <1>6, StreamFacts, TimeAssumption DEF TypeOK
<1>8. Rescale(TsOffset, 1, Tb[s]) \in Int
      /\ Rescale(duration.ticks, duration.tb, Tb[s]) \in Int
  BY <1>7, RescaleType
<1>9. Shift(s) \in Int
  BY <1>8 DEF Shift
<1>10. PICK p : p = (IF Wraps(s, t) THEN t - Wrap ELSE t) + Shift(s)
  OBVIOUS
<1>11. p \in Int
  BY <1>6, <1>7, <1>9, <1>10
<1>12. /\ wrap_correction_done' \subseteq Streams
       /\ min_pts' = [min_pts EXCEPT ![s] = IF p < @ THEN p ELSE @]
       /\ max_pts' = [max_pts EXCEPT ![s] = IF p > @ THEN p ELSE @]
       /\ msg' = Packet(s, p, pos + 1)
       /\ duration' = duration
  BY <1>6, <1>10 DEF ts_fixup, TypeOK
<1>13. min_pts' \in [Streams -> Int] /\ max_pts' \in [Streams -> Int]
  BY <1>6, <1>11, <1>12 DEF TypeOK
<1>14. pos' \in 0 .. Len(file)
  BY <1>1 DEF ReadPacket
<1>15. msg' \in Messages
  BY <1>1, <1>6, <1>11, <1>12, MessageFacts
<1>16. UNCHANGED <<file, audio, thread_queue_size, non_blocking, loop, pass>>
  BY DEF ReadPacket, options
<1> QED
  BY <1>6, <1>11, <1>12, <1>13, <1>14, <1>15, <1>16 DEF TypeOK, ReadTypes

(* av_thread_message_queue_send and _recv on the queue.                    *)
LEMMA SendQueue ==
  ASSUME TypeOK, NEW m \in Messages, Send(m)
  PROVE  /\ in_thread_queue' \in Seq(Messages)
         /\ Len(in_thread_queue') = Len(in_thread_queue) + 1
         /\ Len(in_thread_queue') <= thread_queue_size
         /\ UNCHANGED <<err_send, err_recv>> /\ ~err_send
<1>1. in_thread_queue \in Seq(Messages) /\ thread_queue_size \in Nat
  BY DEF TypeOK
<1>2. Len(in_thread_queue) \in Nat /\ in_thread_queue' = Append(in_thread_queue, m)
  BY <1>1, LenProperties DEF Send
<1> QED
  BY <1>1, <1>2, AppendProperties DEF Send, HasRoom

(* A receive.                                                              *)
LEMMA RecvQueue ==
  ASSUME TypeOK, Recv
  PROVE  /\ in_thread_queue' \in Seq(Messages) /\ Head(in_thread_queue) \in Messages
         /\ Len(in_thread_queue') = Len(in_thread_queue) - 1
         /\ Len(in_thread_queue') <= thread_queue_size
         /\ UNCHANGED <<err_send, err_recv>>
<1>1. in_thread_queue \in Seq(Messages) /\ thread_queue_size \in Nat
      /\ Len(in_thread_queue) <= thread_queue_size
  BY DEF TypeOK
<1>2. Len(in_thread_queue) \in Nat
  BY <1>1, LenProperties
<1> QED
  BY <1>1, <1>2, HeadTailProperties DEF Recv

(* The error that is left for the receiver.                                *)
LEMMA FinishFacts ==
  ASSUME NEW e \in BOOLEAN, Finish(e), failed \in BOOLEAN
  PROVE  /\ thread' = "ended" /\ failed' \in BOOLEAN /\ err_recv' = TRUE
         /\ UNCHANGED <<in_thread_queue, err_send>>
         /\ failed => failed'
         /\ e => failed'
         /\ ~e => failed' = failed
  BY DEF Finish

(* While the thread sends there is a message.                              *)
MsgReady == thread \in {"send", "sendLooping"} => msg \in Messages

(* The frames that decoders give.                                          *)
LEMMA DecodeTypes ==
  ASSUME nb_samples \in [Streams -> Nat], NEW s, Decode(s)
  PROVE  nb_samples' \in [Streams -> Nat]
<1>1. \A t \in Streams : LastFrame[t] \in Nat
  BY StreamFacts
<1> QED
  BY <1>1 DEF Decode

(* The durations the thread receives.                                      *)
LEMMA DurationQueue ==
  ASSUME TypeOK, audio_duration_queue # <<>>
  PROVE  /\ Head(audio_duration_queue) \in [stream : audio, samples : Nat, pass : Nat]
         /\ Tail(audio_duration_queue)
              \in Seq([stream : audio, samples : Nat, pass : Nat])
         /\ Len(Tail(audio_duration_queue)) = Len(audio_duration_queue) - 1
         /\ Len(audio_duration_queue) \in Nat \ {0}
         /\ \A i \in 1 .. Len(audio_duration_queue) - 1 :
              Tail(audio_duration_queue)[i] = audio_duration_queue[i + 1]
<1>1. audio_duration_queue \in Seq([stream : audio, samples : Nat, pass : Nat])
  BY DEF TypeOK
<1> QED
  BY <1>1, HeadTailProperties, EmptySeq

(* Every step keeps the types, and there is a message when one is sent.    *)
LEMMA TypeStep ==
  ASSUME TypeOK, MsgReady, [Next]_vars
  PROVE  TypeOK' /\ MsgReady'
<1>0. /\ ReadTypes /\ QueueTypes /\ PlaceTypes
      /\ Cardinality(audio) \in Nat /\ Len(file) \in Nat
      /\ audio \subseteq Streams /\ pos \in Nat
  BY TypeParts, AudioFacts, LenProperties DEF TypeOK
<1>a. ASSUME ReadTypes', QueueTypes', PlaceTypes'
      PROVE  TypeOK'
  BY <1>a DEF TypeOK, ReadTypes, QueueTypes, PlaceTypes
<1>b. ASSUME UNCHANGED <<options, readVars, timeVars>>
      PROVE  ReadTypes'
  BY <1>0, <1>b DEF options, readVars, timeVars, ReadTypes
<1>c. ASSUME UNCHANGED <<options, nb_samples, queueVars, audio_duration_queue, msg,
                         delivered>>
      PROVE  QueueTypes'
  BY <1>0, <1>c DEF options, queueVars, QueueTypes
<1>1. CASE ReadPacket
  <2>1. ReadTypes' /\ msg' \in Messages
    BY <1>1, ReadPacketTypes
  <2>2. QueueTypes'
    BY <1>0, <1>1, <2>1 DEF ReadPacket, options, queueVars, mainVars, QueueTypes
  <2>3. PlaceTypes'
    BY <1>0, <1>1 DEF ReadPacket, options, mainVars, PlaceTypes
  <2> QED
    BY <2>1, <2>2, <2>3, <1>a DEF MsgReady
<1>2. CASE ReadUnusable
  <2>1. /\ thread' = "ended" /\ failed' \in BOOLEAN /\ err_recv' = TRUE
        /\ UNCHANGED <<in_thread_queue, err_send>>
    BY <1>0, <1>2, FinishFacts DEF ReadUnusable, PlaceTypes
  <2>2. QueueTypes' /\ PlaceTypes'
    BY <1>0, <1>2, <2>1 DEF ReadUnusable, options, mainVars, QueueTypes, PlaceTypes
  <2> QED
    BY <1>2, <2>1, <2>2, <1>a, <1>b DEF ReadUnusable, MsgReady
<1>3. CASE ReadEnds
  <2>1. /\ failed' \in BOOLEAN
        /\ err_recv' \in BOOLEAN /\ UNCHANGED <<in_thread_queue, err_send>>
        /\ \/ thread' = "sendLooping" /\ msg' = Looping
           \/ thread' = "ended" /\ msg' = msg
    <3>1. CASE /\ loop # 0 /\ thread' = "sendLooping" /\ msg' = Looping
               /\ failed' = (failed \/ pos < Len(file)) /\ UNCHANGED queueVars
      <4>1. (failed \/ pos < Len(file)) \in BOOLEAN
        OBVIOUS
      <4>2. failed' \in BOOLEAN
        BY <3>1, <4>1
      <4> QED
        BY <1>0, <3>1, <4>2 DEF queueVars, QueueTypes
    <3>2. CASE loop = 0 /\ Finish(pos < Len(file)) /\ UNCHANGED msg
      <4>1. (pos < Len(file)) \in BOOLEAN /\ failed \in BOOLEAN
        BY <1>0 DEF PlaceTypes
      <4> QED
        BY <3>2, <4>1, FinishFacts
    <3> QED
      BY <1>3, <3>1, <3>2 DEF ReadEnds
  <2>2. Looping \in Messages
    BY <1>0, MessageFacts DEF ReadTypes
  <2>3. QueueTypes' /\ PlaceTypes'
    BY <1>0, <1>3, <2>1, <2>2 DEF ReadEnds, options, mainVars, QueueTypes, PlaceTypes
  <2> QED
    BY <1>3, <2>1, <2>2, <2>3, <1>a, <1>b DEF ReadEnds, MsgReady
<1>4. CASE SendBlocks
  <2>1. PlaceTypes'
    BY <1>0, <1>4 DEF SendBlocks, options, mainVars, PlaceTypes
  <2> QED
    BY <1>4, <2>1, <1>a, <1>b, <1>c DEF SendBlocks, mainVars, MsgReady
<1>5. CASE SendPacket \/ SendLooping
  <2>1. Send(msg) /\ msg' = NoMsg /\ msg \in Messages /\ thread' \in {"read", "seek"}
    BY <1>5 DEF SendPacket, SendLooping, MsgReady
  <2>2. /\ in_thread_queue' \in Seq(Messages)
        /\ Len(in_thread_queue') <= thread_queue_size
        /\ UNCHANGED <<err_send, err_recv>>
    BY <2>1, SendQueue
  <2>3. QueueTypes' /\ PlaceTypes'
    BY <1>0, <1>5, <2>1, <2>2
       DEF SendPacket, SendLooping, options, mainVars, QueueTypes, PlaceTypes
  <2> QED
    BY <1>5, <2>1, <2>3, <1>a, <1>b DEF SendPacket, SendLooping, MsgReady
<1>6. CASE SendRefused
  <2>1. /\ thread' = "ended" /\ failed' \in BOOLEAN /\ err_recv' = TRUE
        /\ UNCHANGED <<in_thread_queue, err_send>>
    BY <1>0, <1>6, FinishFacts DEF SendRefused, PlaceTypes
  <2>2. QueueTypes' /\ PlaceTypes'
    BY <1>0, <1>6, <2>1 DEF SendRefused, options, mainVars, QueueTypes, PlaceTypes
  <2> QED
    BY <1>6, <2>1, <2>2, <1>a, <1>b DEF SendRefused, MsgReady
<1>r. ASSUME Restart
      PROVE  /\ pos' \in 0 .. Len(file) /\ pass' \in Nat /\ loop' \in Int
             /\ thread' = "read"
  BY <1>0, <1>r DEF Restart, ReadTypes
<1>7. CASE SeekToStart
  <2>1. /\ UNCHANGED <<options, min_pts, max_pts, wrap_correction_done, nb_samples,
                       queueVars, audio_duration_queue, msg, flags, failed,
                       mainVars>>
        /\ \/ duration' = duration \/ \E s \in Streams : duration' = Extent(s, LastFrame[s])
        /\ \/ Restart /\ got_durations' = got_durations
           \/ thread' = "durations" /\ got_durations' = 0 /\ UNCHANGED readVars
    BY <1>7 DEF SeekToStart
  <2>2. duration' \in [ticks : Int, tb : Nat \ {0}]
    <3>1. \A s \in Streams : Extent(s, LastFrame[s]) \in [ticks : Int, tb : Nat \ {0}]
      <4>1. \A s \in Streams : LastFrame[s] \in Nat
        BY StreamFacts
      <4> QED
        BY <4>1, <1>0, ExtentType
    <3>2. duration \in [ticks : Int, tb : Nat \ {0}]
      BY <1>0 DEF ReadTypes
    <3> QED
      BY <2>1, <3>1, <3>2
  <2>3. /\ pos' \in 0 .. Len(file) /\ pass' \in Nat /\ loop' \in Int
        /\ thread' \in {"read", "durations"} /\ got_durations' \in 0 .. Cardinality(audio)
    BY <1>0, <1>r, <2>1 DEF readVars, ReadTypes, PlaceTypes
  <2>4. ReadTypes' /\ PlaceTypes'
    BY <1>0, <2>1, <2>2, <2>3 DEF options, mainVars, ReadTypes, PlaceTypes
  <2> QED
    BY <2>1, <2>3, <2>4, <1>a, <1>c DEF mainVars, MsgReady
<1>8. CASE SeekFails
  <2>1. /\ thread' = "ended" /\ failed' \in BOOLEAN /\ err_recv' = TRUE
        /\ UNCHANGED <<in_thread_queue, err_send>>
    BY <1>0, <1>8, FinishFacts DEF SeekFails, PlaceTypes
  <2>2. QueueTypes' /\ PlaceTypes'
    BY <1>0, <1>8, <2>1 DEF SeekFails, options, mainVars, QueueTypes, PlaceTypes
  <2> QED
    BY <1>8, <2>1, <2>2, <1>a, <1>b DEF SeekFails, MsgReady
<1>9. CASE RecvDuration
  <2>1. audio_duration_queue # <<>>
    BY <1>9 DEF RecvDuration
  <2>2. PICK d : d = Head(audio_duration_queue)
    OBVIOUS
  <2>3. d \in [stream : audio, samples : Nat, pass : Nat]
    BY <2>1, <2>2, DurationQueue
  <2>4. /\ UNCHANGED <<options, min_pts, max_pts, wrap_correction_done, nb_samples,
                       queueVars, msg, flags, failed, mainVars>>
        /\ duration' = ifile_duration_update(d.stream, d.samples)
        /\ audio_duration_queue' = Tail(audio_duration_queue)
        /\ got_durations' = got_durations + 1
        /\ \/ Restart /\ got_durations' = Cardinality(audio)
           \/ /\ UNCHANGED <<thread, readVars>> /\ got_durations' < Cardinality(audio)
              /\ thread = "durations"
    BY <1>9, <2>2 DEF RecvDuration
  <2>5. duration' \in [ticks : Int, tb : Nat \ {0}]
    BY <2>3, <2>4, <1>0, ExtentType DEF ReadTypes, ifile_duration_update
  <2>6. /\ pos' \in 0 .. Len(file) /\ pass' \in Nat /\ loop' \in Int
        /\ thread' \in {"read", "durations"} /\ got_durations' \in 0 .. Cardinality(audio)
    BY <1>0, <1>r, <2>4 DEF readVars, ReadTypes, PlaceTypes
  <2>7. ReadTypes' /\ PlaceTypes'
    BY <1>0, <2>4, <2>5, <2>6 DEF options, mainVars, ReadTypes, PlaceTypes
  <2>8. QueueTypes'
    BY <1>0, <2>1, <2>4, DurationQueue DEF options, queueVars, mainVars, QueueTypes
  <2> QED
    BY <2>6, <2>7, <2>8, <1>a DEF MsgReady
<1>10. CASE ifile_get_packet
  <2>0. non_blocking \in BOOLEAN
    BY <1>0 DEF ReadTypes
  <2>1. /\ UNCHANGED <<audio, got_durations, failed, flushed>>
        /\ thread' = thread \/ thread' = "read"
        /\ main' = main \/ main' = "recv"
        /\ flags' = flags \/ flags' = non_blocking
        /\ eof_reached' = eof_reached \/ eof_reached' = TRUE
    BY <1>10 DEF ifile_get_packet, options
  <2>2. PlaceTypes'
    BY <1>0, <2>0, <2>1 DEF PlaceTypes
  <2> QED
    BY <1>10, <2>1, <2>2, <1>a, <1>b, <1>c DEF ifile_get_packet, MsgReady
<1>11. CASE GetPacket
  <2>1. PICK m : m = Head(in_thread_queue)
    OBVIOUS
  <2>2. /\ Recv /\ delivered' = Append(delivered, m)
        /\ UNCHANGED <<options, readVars, timeVars, audio_duration_queue, thrVars,
                       eof_reached>>
        /\ main' \in {"flush", "run"} /\ flushed' \subseteq Streams
        /\ nb_samples' = nb_samples \/ Decode(m.stream)
    BY <1>0, <1>11, <2>1 DEF GetPacket, PlaceTypes
  <2>3. nb_samples' \in [Streams -> Nat]
    BY <2>2, <1>0, DecodeTypes DEF QueueTypes
  <2>4. /\ in_thread_queue' \in Seq(Messages) /\ m \in Messages
        /\ Len(in_thread_queue') <= thread_queue_size
        /\ UNCHANGED <<err_send, err_recv>>
    BY <2>1, <2>2, RecvQueue
  <2>5. delivered' \in Seq(Messages)
    BY <1>0, <2>2, <2>4, AppendProperties DEF QueueTypes
  <2>6. QueueTypes' /\ PlaceTypes'
    BY <1>0, <2>2, <2>3, <2>4, <2>5 DEF options, thrVars, QueueTypes, PlaceTypes
  <2> QED
    BY <2>2, <2>6, <1>a, <1>b DEF thrVars, MsgReady
<1>12. CASE GetNothing
  <2>1. PlaceTypes'
    BY <1>0, <1>12 DEF GetNothing, options, thrVars, QueueTypes, PlaceTypes
  <2> QED
    BY <1>12, <2>1, <1>a, <1>b, <1>c DEF GetNothing, thrVars, MsgReady
<1>13. ASSUME NEW s \in Streams, decode_flush(s)
       PROVE  TypeOK' /\ MsgReady'
  <2>1. nb_samples' \in [Streams -> Nat]
    BY <1>0, <1>13, DecodeTypes DEF decode_flush, QueueTypes
  <2>2. /\ audio_duration_queue' \in Seq([stream : audio, samples : Nat, pass : Nat])
        /\ Len(audio_duration_queue') <= Cardinality(audio)
    <3>1. CASE s \in audio
      <4>1. PICK d : d = [stream |-> s, samples |-> nb_samples'[s], pass |-> pass]
        OBVIOUS
      <4>2. d \in [stream : audio, samples : Nat, pass : Nat]
        BY <2>1, <3>1, <4>1, <1>0 DEF ReadTypes
      <4>3. /\ Len(audio_duration_queue) < Cardinality(audio)
            /\ audio_duration_queue' = Append(audio_duration_queue, d)
        BY <1>13, <3>1, <4>1 DEF decode_flush
      <4>4. Len(audio_duration_queue) \in Nat
        BY <1>0, LenProperties DEF QueueTypes
      <4> QED
        BY <1>0, <4>2, <4>3, <4>4, AppendProperties DEF QueueTypes
    <3>2. CASE s \notin audio
      BY <1>0, <1>13, <3>2 DEF decode_flush, QueueTypes
    <3> QED
      BY <3>1, <3>2
  <2>3. QueueTypes'
    BY <1>0, <1>13, <2>1, <2>2 DEF decode_flush, options, queueVars, thrVars,
       QueueTypes
  <2>4. PlaceTypes'
    BY <1>0, <1>13 DEF decode_flush, options, thrVars, PlaceTypes
  <2> QED
    BY <1>13, <2>3, <2>4, <1>a, <1>b DEF decode_flush, thrVars, MsgReady
<1>14. CASE ifile_close
  <2>1. QueueTypes' /\ PlaceTypes'
    BY <1>0, <1>14 DEF ifile_close, options, thrVars, QueueTypes, PlaceTypes
  <2> QED
    BY <1>14, <2>1, <1>a, <1>b DEF ifile_close, thrVars, MsgReady
<1>15. CASE Drain
  <2>1. /\ in_thread_queue' \in Seq(Messages)
        /\ Len(in_thread_queue') <= thread_queue_size
        /\ UNCHANGED <<err_send, err_recv>>
    BY <1>0, <1>15, RecvQueue DEF Drain, queueVars, QueueTypes
  <2>2. QueueTypes' /\ PlaceTypes'
    BY <1>0, <1>15, <2>1 DEF Drain, options, thrVars, QueueTypes, PlaceTypes
  <2> QED
    BY <1>15, <2>2, <1>a, <1>b DEF Drain, thrVars, MsgReady
<1>16. CASE Join
  <2>1. audio_duration_queue' \in Seq([stream : audio, samples : Nat, pass : Nat])
        /\ Len(audio_duration_queue') = 0
    BY <1>16, EmptySeq DEF Join
  <2>2. QueueTypes' /\ PlaceTypes'
    BY <1>0, <1>16, <2>1 DEF Join, options, queueVars, thrVars, QueueTypes, PlaceTypes
  <2> QED
    BY <1>16, <2>2, <1>a, <1>b DEF Join, thrVars, MsgReady
<1>17. CASE UNCHANGED vars
  <2>1. PlaceTypes'
    BY <1>0, <1>17 DEF vars, options, thrVars, mainVars, PlaceTypes
  <2> QED
    BY <1>17, <2>1, <1>a, <1>b, <1>c DEF vars, thrVars, mainVars, MsgReady
<1> QED
  BY <1>1, <1>2, <1>3, <1>4, <1>5, <1>6, <1>7, <1>8, <1>9, <1>10, <1>11, <1>12,
     <1>13, <1>14, <1>15, <1>16, <1>17
     DEF Next, input_thread, MainStep, Closed, WaitForEachOther

-----------------------------------------------------------------------------
(* What was sent is a sequence of messages.                                *)
LEMMA SentType ==
  ASSUME TypeOK
  PROVE  /\ Sent \in Seq(Messages) /\ Len(Sent) \in Nat
         /\ Sent = <<>> <=> delivered = <<>> /\ in_thread_queue = <<>>
         /\ in_thread_queue = <<>> => Sent = delivered
<1>1. delivered \in Seq(Messages) /\ in_thread_queue \in Seq(Messages)
  BY DEF TypeOK
<1>2. Sent \in Seq(Messages)
  BY <1>1, ConcatProperties DEF Sent
<1>3. Len(Sent) \in Nat
  BY <1>2, LenProperties
<1>4. Sent = <<>> <=> delivered = <<>> /\ in_thread_queue = <<>>
  BY <1>1, ConcatEqualIffEmpty DEF Sent
<1>5. in_thread_queue = <<>> => Sent = delivered
  BY <1>1, ConcatEmptySeq DEF Sent
<1> QED
  BY <1>2, <1>3, <1>4, <1>5

(* One more message behind a chain.                                        *)
LEMMA ChainAppend ==
  ASSUME NEW s \in Seq(Messages), NEW m \in Messages, Chain(s),
         s = <<>> => FirstOne(m),
         s # <<>> => Follows(s[Len(s)], m)
  PROVE  Chain(Append(s, m))
<1>1. /\ Append(s, m) \in Seq(Messages) /\ Len(Append(s, m)) = Len(s) + 1
      /\ \A i \in 1 .. Len(s) : Append(s, m)[i] = s[i]
      /\ Append(s, m)[Len(s) + 1] = m
      /\ Len(s) \in Nat
  BY AppendProperties, LenProperties
<1>2. s # <<>> => Len(s) # 0
  BY EmptySeq
<1>3. s = <<>> => Len(s) = 0
  BY EmptySeq
<1> DEFINE a == Append(s, m)
<1> HIDE DEF a
<1>4. /\ Len(a) = Len(s) + 1 /\ (\A i \in 1 .. Len(s) : a[i] = s[i])
      /\ a[Len(s) + 1] = m
  BY <1>1 DEF a
<1>5. ASSUME NEW i \in 1 .. Len(a) - 1
      PROVE  Follows(a[i], a[i + 1])
  <2>1. CASE i = Len(s)
    BY <1>1, <1>3, <1>4, <2>1
  <2>2. CASE i # Len(s)
    <3>1. i \in 1 .. Len(s) - 1 /\ i + 1 \in 1 .. Len(s) /\ i \in 1 .. Len(s)
      BY <1>1, <1>4, <2>2
    <3>2. Follows(s[i], s[i + 1])
      BY <3>1 DEF Chain
    <3> QED
      BY <1>4, <3>1, <3>2
  <2> QED
    BY <2>1, <2>2
<1>6. FirstOne(a[1])
  <2>1. CASE s = <<>>
    BY <1>3, <1>4, <2>1
  <2>2. CASE s # <<>>
    <3>1. 1 \in 1 .. Len(s)
      BY <1>1, <1>2, <2>2
    <3> QED
      BY <1>4, <2>2, <3>1 DEF Chain
  <2> QED
    BY <2>1, <2>2
<1>7. Chain(a)
  BY <1>5, <1>6 DEF Chain
<1> QED
  BY <1>7 DEF a

(* What precedes in a chain is a chain.                                    *)
LEMMA ChainPrefix ==
  ASSUME NEW s \in Seq(Messages), NEW t \in Seq(Messages), Chain(s \o t)
  PROVE  Chain(s)
<1> DEFINE c == s \o t
<1>1. /\ Len(c) = Len(s) + Len(t) /\ Len(s) \in Nat /\ Len(t) \in Nat
      /\ c \in Seq(Messages)
      /\ \A i \in 1 .. Len(s) + Len(t) :
           c[i] = IF i <= Len(s) THEN s[i] ELSE t[i - Len(s)]
  BY ConcatProperties, LenProperties
<1>2. Chain(c)
  OBVIOUS
<1> HIDE DEF c
<1>3. \A i \in 1 .. Len(s) : c[i] = s[i]
  BY <1>1
<1>4. ASSUME NEW i \in 1 .. Len(s) - 1
      PROVE  Follows(s[i], s[i + 1])
  <2>1. i \in 1 .. Len(c) - 1 /\ i \in 1 .. Len(s) /\ i + 1 \in 1 .. Len(s)
    BY <1>1
  <2>2. Follows(c[i], c[i + 1])
    BY <1>2, <2>1 DEF Chain
  <2> QED
    BY <1>3, <2>1, <2>2
<1>5. ASSUME s # <<>>
      PROVE  FirstOne(s[1])
  <2>1. Len(s) # 0
    BY <1>5, EmptySeq
  <2>2. 1 \in 1 .. Len(s) /\ Len(c) # 0
    BY <1>1, <2>1
  <2>3. c # <<>>
    BY <2>2
  <2> QED
    BY <1>2, <1>3, <2>2, <2>3 DEF Chain
<1> QED
  BY <1>4, <1>5 DEF Chain

(* The next packet of the pass, and the mark at its end.                   *)
LEMMA NextPacket ==
  ASSUME NEW s \in Seq(Messages), NEW m \in Messages, Chain(s),
         NEW q \in Nat, NEW p \in Nat \ {0}, UpTo(s, q, p - 1),
         ~IsLooping(m), m.pass = q, m.pos = p
  PROVE  Chain(Append(s, m)) /\ UpTo(Append(s, m), q, p)
<1>1. s = <<>> => FirstOne(m)
  BY DEF UpTo, FirstOne
<1>2. s # <<>> => Follows(s[Len(s)], m)
  <2>1. HAVE s # <<>>
  <2>2. Len(s) \in 1 .. Len(s) /\ s[Len(s)] \in Messages
    BY <2>1, EmptySeq, ElementOfSeq
  <2>3. PICK l \in Messages : l = s[Len(s)]
    BY <2>2
  <2>4. CASE p - 1 = 0
    <3>1. IsLooping(l) /\ l.looping = q - 1
      BY <2>1, <2>3, <2>4 DEF UpTo
    <3>2. l.looping \in Nat
      BY <3>1, MessageKinds
    <3> QED
      BY <2>3, <2>4, <3>1, <3>2 DEF Follows
  <2>5. CASE p - 1 # 0
    BY <2>3, <2>5 DEF Follows, UpTo
  <2> QED
    BY <2>4, <2>5
<1>3. Append(s, m) # <<>> /\ Append(s, m)[Len(Append(s, m))] = m
  BY AppendProperties, LenProperties
<1>4. UpTo(Append(s, m), q, p)
  BY <1>3 DEF UpTo
<1> QED
  BY <1>1, <1>2, <1>4, ChainAppend

(* The mark of the pass.                                                   *)
LEMMA NextMark ==
  ASSUME NEW s \in Seq(Messages), NEW m \in Messages, Chain(s),
         NEW q \in Nat, NEW p \in Nat, UpTo(s, q, p),
         IsLooping(m), m.looping = q, p = Len(file) \/ failed,
         file \in Seq([stream : Streams, pts : Int])
  PROVE  Chain(Append(s, m)) /\ UpToMark(Append(s, m), q)
<1>0. p = 0 => file = <<>> \/ failed
  BY EmptySeq
<1>1. s = <<>> => FirstOne(m)
  BY <1>0 DEF UpTo, FirstOne
<1>2. s # <<>> => Follows(s[Len(s)], m)
  <2>1. HAVE s # <<>>
  <2>2. PICK l \in Messages : l = s[Len(s)]
    BY <2>1, EmptySeq, ElementOfSeq
  <2>3. CASE p = 0
    <3>1. IsLooping(l) /\ l.looping = q - 1
      BY <2>1, <2>2, <2>3 DEF UpTo
    <3>2. l.looping \in Nat
      BY <3>1, MessageKinds
    <3> QED
      BY <1>0, <2>2, <2>3, <3>1, <3>2 DEF Follows
  <2>4. CASE p # 0
    BY <2>2, <2>4 DEF Follows, UpTo
  <2> QED
    BY <2>3, <2>4
<1>3. Append(s, m) # <<>> /\ Append(s, m)[Len(Append(s, m))] = m
  BY AppendProperties, LenProperties
<1>4. UpToMark(Append(s, m), q)
  BY <1>3 DEF UpToMark
<1> QED
  BY <1>1, <1>2, <1>4, ChainAppend

-----------------------------------------------------------------------------
(* A step that moves no message keeps the chains.                          *)
LEMMA ChainsKept ==
  ASSUME UNCHANGED <<file, delivered, in_thread_queue>>, failed => failed'
  PROVE  /\ Sent' = Sent
         /\ Chain(delivered) => Chain(delivered)'
         /\ Chain(Sent) => Chain(Sent)'
<1>1. ASSUME NEW m, NEW n, Follows(m, n)
      PROVE  Follows(m, n)'
  BY <1>1 DEF Follows
<1>2. ASSUME NEW m, FirstOne(m)
      PROVE  FirstOne(m)'
  BY <1>2 DEF FirstOne
<1>3. ASSUME NEW s, Chain(s)
      PROVE  Chain(s)'
  BY <1>1, <1>2, <1>3 DEF Chain
<1>4. PICK d : d = delivered
  OBVIOUS
<1>5. Chain(delivered) => Chain(delivered)'
  <2>1. (Chain(delivered) => Chain(d)) /\ d = delivered'
    BY <1>4
  <2>2. Chain(d)' => Chain(delivered)'
    BY <2>1 DEF Chain, Follows, FirstOne
  <2> QED
    BY <1>3, <2>1, <2>2
<1>6. PICK c : c = Sent
  OBVIOUS
<1>7. Sent' = Sent
  BY DEF Sent
<1>8. Chain(Sent) => Chain(Sent)'
  <2>1. (Chain(Sent) => Chain(c)) /\ c = Sent'
    BY <1>6, <1>7
  <2>2. Chain(c)' => Chain(Sent)'
    BY <2>1 DEF Chain, Follows, FirstOne
  <2> QED
    BY <1>3, <2>1, <2>2
<1> QED
  BY <1>5, <1>7, <1>8

(* Moving the head of the right operand to the end of the left one.        *)
LEMMA MoveHeadAcross ==
  ASSUME NEW S, NEW s \in Seq(S), NEW t \in Seq(S), t # <<>>
  PROVE  s \o t = Append(s, Head(t)) \o Tail(t)
<1>1. Len(t) \in Nat \ {0} /\ Head(t) = t[1] /\ Head(t) \in S /\ Tail(t) \in Seq(S)
  BY EmptySeq, HeadTailProperties
<1>2. SubSeq(t, 1, Len(t)) = <<t[1]>> \o SubSeq(t, 1 + 1, Len(t))
  BY <1>1, SubSeqRecursiveFirst
<1>3. t = <<Head(t)>> \o Tail(t)
  BY <1>1, <1>2, SubSeqFull, TailIsSubSeq
<1>4. <<Head(t)>> \in Seq(S)
  BY <1>1
<1>5. s \o (<<Head(t)>> \o Tail(t)) = (s \o <<Head(t)>>) \o Tail(t)
  BY <1>1, <1>4, ConcatAssociative
<1> QED BY <1>1, <1>3, <1>5, AppendIsConcat

(* A send adds the message to what was sent.                               *)
LEMMA SendMoves ==
  ASSUME TypeOK, MsgReady, thread \in {"send", "sendLooping"}, Send(msg),
         UNCHANGED delivered
  PROVE  Sent' = Append(Sent, msg) /\ msg \in Messages
<1>1. msg \in Messages /\ delivered \in Seq(Messages)
      /\ in_thread_queue \in Seq(Messages)
  BY DEF MsgReady, TypeOK
<1>2. in_thread_queue' = Append(in_thread_queue, msg)
  BY DEF Send
<1>3. <<msg>> \in Seq(Messages)
  BY <1>1
<1>4. (delivered \o in_thread_queue) \o <<msg>>
        = delivered \o (in_thread_queue \o <<msg>>)
  BY <1>1, <1>3, ConcatAssociative
<1> QED
  BY <1>1, <1>2, <1>4, AppendIsConcat, ConcatProperties DEF Sent

(* The steps of the thread keep the order.                                 *)
LEMMA OrderThreadStep ==
  ASSUME TypeOK, MsgReady, OrderInv, input_thread
  PROVE  OrderInv'
<1>0. /\ Sent \in Seq(Messages) /\ pos \in Nat /\ pass \in Nat /\ failed \in BOOLEAN
      /\ file \in Seq([stream : Streams, pts : Int]) /\ Len(file) \in Nat
      /\ pos <= Len(file) /\ Cardinality(audio) \in Nat
  <2>1. file \in Seq([stream : Streams, pts : Int]) /\ pos \in 0 .. Len(file)
        /\ pass \in Nat /\ failed \in BOOLEAN /\ audio \subseteq Streams
    BY DEF TypeOK
  <2> QED
    BY <2>1, SentType, LenProperties, AudioFacts
<1>1. thread \in {"read", "send", "sendLooping", "seek", "durations"}
  BY DEF input_thread, ReadPacket, ReadUnusable, ReadEnds, SendBlocks, SendPacket,
     SendLooping, SendRefused, SeekToStart, SeekFails, RecvDuration
<1>2. ~eof_reached /\ ~err_recv
  BY <1>1 DEF OrderInv
<1>3. UNCHANGED <<main, eof_reached, delivered, file>> /\ Open' = Open
  BY DEF input_thread, ReadPacket, ReadUnusable, ReadEnds, SendBlocks, SendPacket,
     SendLooping, SendRefused, SeekToStart, SeekFails, RecvDuration, options,
     mainVars, Open
(* A step that sends nothing.                                              *)
<1>q. ASSUME UNCHANGED <<in_thread_queue, err_send>>, failed => failed',
             thread' # "none", err_recv' => thread' = "ended",
             \A s : Open /\ s = Sent /\ Reading(s) => Reading(s)'
      PROVE  OrderInv'
  <2>1. /\ Sent' = Sent
        /\ Chain(delivered) => Chain(delivered)'
        /\ Chain(Sent) => Chain(Sent)'
    BY <1>3, <1>q, ChainsKept
  <2>2. PICK s : s = Sent
    OBVIOUS
  <2>3. Open => Reading(s)'
    BY <1>q, <2>2 DEF OrderInv
  <2>4. Reading(s)' => Reading(Sent)'
    BY <2>1, <2>2 DEF Reading, UpTo, UpToMark
  <2> QED
    BY <1>2, <1>3, <1>q, <2>1, <2>3, <2>4 DEF OrderInv
<1>4. CASE ReadPacket
  <2>1. PICK s0 \in Streams, t0 \in Int : msg' = Packet(s0, t0, pos + 1)
    BY <1>4, ReadPacketTypes
  <2>2. ~IsLooping(msg') /\ msg'.pass = pass /\ msg'.pos = pos + 1
    BY <1>0, <2>1, MessageFacts
  <2>3. /\ thread = "read" /\ thread' = "send" /\ pos' = pos + 1 /\ pass' = pass
        /\ UNCHANGED <<in_thread_queue, err_send, err_recv, failed>>
    BY <1>4 DEF ReadPacket, queueVars
  <2>4. ASSUME NEW s, Reading(s)
        PROVE  Reading(s)'
    <3>1. UpTo(s, pass, pos) /\ pos' # 0 /\ pos' - 1 = pos
      BY <1>0, <2>3, <2>4 DEF Reading
    <3> QED
      BY <2>2, <2>3, <3>1 DEF Reading, IsLooping
  <2> QED
    BY <1>2, <2>3, <2>4, <1>q
(* The error is left behind after a failure.                               *)
<1>f. ASSUME Finish(TRUE)
      PROVE  OrderInv'
  <2>1. /\ thread' = "ended" /\ failed' /\ UNCHANGED <<in_thread_queue, err_send>>
    BY <1>0, <1>f, FinishFacts
  <2>2. ASSUME NEW s
        PROVE  Reading(s)'
    BY <2>1 DEF Reading
  <2> QED
    BY <2>1, <2>2, <1>q
<1>5. CASE ReadUnusable
  BY <1>5, <1>f DEF ReadUnusable
<1>6. CASE ReadEnds
  <2>1. thread = "read" /\ UNCHANGED <<loop, pos, pass, err_send>>
        /\ UNCHANGED in_thread_queue
    BY <1>6 DEF ReadEnds, readVars, queueVars, Finish
  <2>2. CASE loop # 0
    <3>1. /\ thread' = "sendLooping" /\ msg' = Looping /\ err_recv' = err_recv
          /\ failed' = (failed \/ pos < Len(file))
      BY <1>6, <2>2 DEF ReadEnds, queueVars
    <3>a. /\ pos < Len(file) => failed'
          /\ failed => failed'
      BY <3>1, Zenon
    <3>b. pos = Len(file) \/ pos < Len(file)
      BY <1>0
    <3>c. pos' = Len(file)' \/ failed'
      BY <1>3, <2>1, <3>a, <3>b
    <3>2. msg' = Looping' /\ (pos' = Len(file)' \/ failed')
      BY <2>1, <3>1, <3>c DEF Looping
    <3>3. ASSUME NEW s, Reading(s)
          PROVE  Reading(s)'
      <4>1. UpTo(s, pass, pos)'
        BY <2>1, <3>3 DEF Reading, UpTo
      <4> QED
        BY <3>1, <3>2, <4>1 DEF Reading
    <3> QED
      BY <1>2, <2>1, <3>1, <3>a, <3>3, <1>q
  <2>3. CASE loop = 0
    <3>1. Finish(pos < Len(file))
      BY <1>6, <2>3 DEF ReadEnds
    <3>2. /\ thread' = "ended" /\ UNCHANGED <<in_thread_queue, err_send>>
          /\ failed' = (failed \/ pos < Len(file))
      BY <3>1 DEF Finish
    <3>3. /\ pos < Len(file) => failed'
          /\ failed => failed'
      BY <3>2, Zenon
    <3>4. ASSUME NEW s, Reading(s)
          PROVE  Reading(s)'
      <4>1. ~failed' => pos = Len(file)
        BY <1>0, <3>3
      <4>2. UpTo(s, pass, pos)'
        BY <2>1, <3>4 DEF Reading, UpTo
      <4> QED
        BY <1>3, <2>1, <2>3, <3>2, <4>1, <4>2 DEF Reading
    <3> QED
      BY <3>2, <3>3, <3>4, <1>q
  <2> QED
    BY <2>2, <2>3
<1>7. CASE SendBlocks
  <2>1. UNCHANGED <<in_thread_queue, err_send, err_recv, failed, thread, msg,
                    loop, pos, pass, file>>
    BY <1>3, <1>7 DEF SendBlocks, queueVars, readVars
  <2>2. ASSUME NEW s, Reading(s)
        PROVE  Reading(s)'
    BY <2>1, <2>2 DEF Reading, UpTo, UpToMark, Looping, IsLooping
  <2> QED
    BY <1>1, <1>2, <2>1, <2>2, <1>q
(* A message is sent behind the others.                                    *)
<1>s. ASSUME thread \in {"send", "sendLooping"}, Send(msg), thread' # "none",
             err_recv' => thread' = "ended", UNCHANGED failed,
             \A s : Open /\ s = Append(Sent, msg) =>
                   Chain(s) /\ Reading(s)'
      PROVE  OrderInv'
  <2>1. /\ Sent' = Append(Sent, msg) /\ UNCHANGED err_send
    BY <1>3, <1>s, SendMoves DEF Send
  <2>2. PICK s : s = Append(Sent, msg)
    OBVIOUS
  <2>3. Open => Chain(Sent)'
    <3>1. Open => Chain(s)
      BY <1>s, <2>2
    <3>2. Chain(s) => Chain(s)'
      BY <1>3, <1>s DEF Chain, Follows, FirstOne
    <3>3. Chain(s)' => Chain(Sent)'
      BY <2>1, <2>2 DEF Chain, Follows, FirstOne
    <3> QED
      BY <3>1, <3>2, <3>3
  <2>4. Open => Reading(Sent)'
    <3>1. Open => Reading(s)'
      BY <1>s, <2>2
    <3>2. Reading(s)' => Reading(Sent)'
      BY <2>1, <2>2 DEF Reading, UpTo, UpToMark
    <3> QED
      BY <3>1, <3>2
  <2>5. Chain(delivered)'
    <3>1. Chain(delivered)
      BY DEF OrderInv
    <3> QED
      BY <1>3, <1>s, <3>1 DEF Chain, Follows, FirstOne
  <2> QED
    BY <1>2, <1>3, <1>s, <2>1, <2>3, <2>4, <2>5 DEF OrderInv
<1>8. CASE SendPacket
  <2>1. /\ thread = "send" /\ thread' = "read" /\ Send(msg)
        /\ UNCHANGED <<loop, pos, pass, failed, err_recv>>
    BY <1>8 DEF SendPacket, Send, readVars
  <2>2. msg \in Messages
    BY <2>1 DEF MsgReady
  <2>3. ASSUME NEW s, Open, s = Append(Sent, msg)
        PROVE  Chain(s) /\ Reading(s)'
    <3>1. /\ Chain(Sent) /\ pos # 0 /\ UpTo(Sent, pass, pos - 1)
          /\ ~IsLooping(msg) /\ msg.pass = pass /\ msg.pos = pos
      BY <2>1, <2>3 DEF OrderInv, Reading
    <3>2. Chain(s) /\ UpTo(s, pass, pos)
      BY <1>0, <2>2, <2>3, <3>1, NextPacket
    <3> QED
      BY <2>1, <3>2 DEF Reading, UpTo
  <2> QED
    BY <1>2, <2>1, <2>3, <1>s
<1>9. CASE SendLooping
  <2>1. /\ thread = "sendLooping" /\ thread' = "seek" /\ Send(msg)
        /\ UNCHANGED <<loop, pos, pass, failed, err_recv>>
    BY <1>9 DEF SendLooping, Send, readVars
  <2>2. msg \in Messages
    BY <2>1 DEF MsgReady
  <2>3. ASSUME NEW s, Open, s = Append(Sent, msg)
        PROVE  Chain(s) /\ Reading(s)'
    <3>1. /\ Chain(Sent) /\ UpTo(Sent, pass, pos) /\ msg = Looping
          /\ pos = Len(file) \/ failed
      BY <2>1, <2>3 DEF OrderInv, Reading
    <3>2. IsLooping(msg) /\ msg.looping = pass
      BY <1>0, <3>1, MessageFacts
    <3>3. Chain(s) /\ UpToMark(s, pass)
      BY <1>0, <2>2, <2>3, <3>1, <3>2, NextMark
    <3> QED
      BY <2>1, <3>3 DEF Reading, UpToMark
  <2> QED
    BY <1>2, <2>1, <2>3, <1>s
<1>10. CASE SendRefused
  <2>1. err_send /\ Finish(FALSE)
    BY <1>10 DEF SendRefused
  <2>2. /\ thread' = "ended" /\ failed' = failed
        /\ UNCHANGED <<in_thread_queue, err_send>>
    BY <1>0, <2>1, FinishFacts
  <2>3. ~Open
    BY <2>1 DEF OrderInv
  <2> QED
    BY <2>2, <2>3, <1>q
(* The next pass begins behind the mark.                                   *)
<1>r. ASSUME NEW s, UpToMark(s, pass), Restart
      PROVE  Reading(s)'
  <2>1. thread' = "read" /\ pos' = 0 /\ pass' = pass + 1
    BY <1>r DEF Restart
  <2>2. pass' - 1 = pass
    BY <1>0, <2>1
  <2> QED
    BY <1>r, <2>1, <2>2 DEF Reading, UpTo, UpToMark
<1>11. CASE SeekToStart
  <2>1. /\ thread = "seek" /\ UNCHANGED <<in_thread_queue, err_send, err_recv, failed>>
    BY <1>11 DEF SeekToStart, queueVars
  <2>2. Restart \/ (thread' = "durations" /\ UNCHANGED pass)
    BY <1>11 DEF SeekToStart, readVars
  <2>3. ASSUME NEW s, Reading(s)
        PROVE  Reading(s)'
    <3>1. UpToMark(s, pass)
      BY <2>1, <2>3 DEF Reading
    <3>2. CASE Restart
      BY <3>1, <3>2, <1>r
    <3>3. CASE thread' = "durations" /\ UNCHANGED pass
      BY <3>1, <3>3 DEF Reading, UpToMark
    <3> QED
      BY <2>2, <3>2, <3>3
  <2>4. thread' # "none"
    BY <2>2 DEF Restart
  <2> QED
    BY <1>2, <2>1, <2>3, <2>4, <1>q
<1>12. CASE SeekFails
  BY <1>12, <1>f DEF SeekFails
<1>13. CASE RecvDuration
  <2>1. /\ thread = "durations"
        /\ UNCHANGED <<in_thread_queue, err_send, err_recv, failed>>
    BY <1>13 DEF RecvDuration, queueVars
  <2>2. Restart \/ (thread' = "durations" /\ UNCHANGED pass)
    BY <1>13, <2>1 DEF RecvDuration, readVars
  <2>3. ASSUME NEW s, Reading(s)
        PROVE  Reading(s)'
    <3>1. UpToMark(s, pass)
      BY <2>1, <2>3 DEF Reading
    <3>2. CASE Restart
      BY <3>1, <3>2, <1>r
    <3>3. CASE thread' = "durations" /\ UNCHANGED pass
      BY <3>1, <3>3 DEF Reading, UpToMark
    <3> QED
      BY <2>2, <3>2, <3>3
  <2>4. thread' # "none"
    BY <2>2 DEF Restart
  <2> QED
    BY <1>2, <2>1, <2>3, <2>4, <1>q
<1> QED
  BY <1>4, <1>5, <1>6, <1>7, <1>8, <1>9, <1>10, <1>11, <1>12, <1>13 DEF input_thread

(* A step of the main thread leaves alone what the thread has come to.     *)
LEMMA MainFrame ==
  ASSUME [Next]_vars, ~input_thread
  PROVE  /\ UNCHANGED <<file, failed, loop, pos, pass, msg, err_recv>>
         /\ ~ifile_get_packet => UNCHANGED thread
  BY DEF Next, input_thread, MainStep, GetPacket, GetNothing, Drain, Join, Recv,
     decode_flush, ifile_get_packet, ifile_close, Closed, WaitForEachOther, vars,
     options, readVars, timeVars, queueVars, thrVars, mainVars

(* The steps of the main thread keep the order.                            *)
LEMMA OrderMainStep ==
  ASSUME TypeOK, OrderInv, [Next]_vars, ~input_thread
  PROVE  OrderInv'
<1>0. /\ delivered \in Seq(Messages) /\ in_thread_queue \in Seq(Messages)
  BY DEF TypeOK
<1>1. /\ UNCHANGED <<file, failed, loop, pos, pass, msg, err_recv>>
      /\ ~ifile_get_packet => UNCHANGED thread
  BY MainFrame
<1>2. ASSUME NEW s, Chain(s)
      PROVE  Chain(s)'
  BY <1>1, <1>2 DEF Chain, Follows, FirstOne
<1>3. ASSUME NEW s, Reading(s), UNCHANGED thread
      PROVE  Reading(s)'
  BY <1>1, <1>3 DEF Reading, UpTo, UpToMark, Looping, IsLooping
(* A step that takes no message.                                           *)
<1>q. ASSUME UNCHANGED <<delivered, in_thread_queue, thread>>,
             Open' => Open /\ UNCHANGED err_send,
             eof_reached' => /\ Open \/ eof_reached
                             /\ in_thread_queue = <<>>
                             /\ thread \in {"none", "ended"},
             thread = "none" => ~Open' \/ main' = "run"
      PROVE  OrderInv'
  <2>1. Sent' = Sent
    BY <1>q DEF Sent
  <2>2. Chain(Sent) => Chain(Sent)'
    <3>1. PICK s : s = Sent
      OBVIOUS
    <3>2. Chain(s)' => Chain(Sent)'
      BY <2>1, <3>1 DEF Chain, Follows, FirstOne
    <3> QED
      BY <1>2, <3>1, <3>2
  <2>3. Reading(Sent) => Reading(Sent)'
    <3>1. PICK s : s = Sent
      OBVIOUS
    <3>2. Reading(s)' => Reading(Sent)'
      BY <2>1, <3>1 DEF Reading, UpTo, UpToMark
    <3> QED
      BY <1>3, <1>q, <3>1, <3>2
  <2>4. Chain(delivered)'
    <3>1. PICK s : s = delivered
      OBVIOUS
    <3>2. Chain(s)' => Chain(delivered)'
      BY <1>q, <3>1 DEF Chain, Follows, FirstOne
    <3> QED
      BY <1>2, <3>1, <3>2 DEF OrderInv
  <2> QED
    BY <1>1, <1>q, <2>2, <2>3, <2>4 DEF OrderInv
<1>4. CASE ifile_get_packet
  <2>1. /\ main = "run" /\ ~eof_reached
        /\ UNCHANGED <<delivered, in_thread_queue, err_send>>
    BY <1>4 DEF ifile_get_packet, queueVars
  <2>2. Chain(Sent) /\ Reading(Sent) /\ Open
    BY <2>1 DEF OrderInv, Open
  <2>3. CASE thread # "none"
    BY <1>4, <2>1, <2>3, <1>q DEF ifile_get_packet, Open
  <2>4. CASE thread = "none" /\ thread' = "read" /\ main' = "recv"
             /\ UNCHANGED eof_reached
    <3>1. Sent = <<>> /\ pos = 0 /\ pass = 1
      BY <2>2, <2>4 DEF Reading
    <3>2. Sent' = <<>> /\ delivered' = <<>>
      BY <2>1, <3>1, SentType DEF Sent
    <3>3. Reading(Sent)'
      BY <1>1, <2>4, <3>1, <3>2 DEF Reading, UpTo
    <3>4. Chain(<<>>)'
      BY DEF Chain
    <3> QED
      BY <1>1, <2>1, <2>2, <2>4, <3>2, <3>3, <3>4 DEF OrderInv, Chain, Open
  <2>5. CASE thread = "none" /\ UNCHANGED <<main, thread>>
    <3>1. Sent = <<>>
      BY <2>2, <2>5 DEF Reading
    <3>2. in_thread_queue = <<>>
      BY <3>1, SentType
    <3> QED
      BY <2>1, <2>2, <2>5, <3>2, <1>q DEF Open
  <2> QED
    BY <1>4, <2>3, <2>4, <2>5 DEF ifile_get_packet
<1>5. CASE GetPacket
  <2>1. PICK m : m = Head(in_thread_queue)
    OBVIOUS
  <2>2. /\ main = "recv" /\ in_thread_queue # <<>>
        /\ in_thread_queue' = Tail(in_thread_queue)
        /\ delivered' = Append(delivered, m)
        /\ main' \in {"flush", "run"} /\ UNCHANGED <<err_send, eof_reached, thread>>
    BY <1>5, <2>1 DEF GetPacket, Recv, thrVars
  <2>3. /\ Chain(Sent) /\ Reading(Sent) /\ Open /\ thread # "none"
        /\ ~eof_reached /\ ~err_send
    BY <2>2 DEF OrderInv, Open
  <2>4. /\ delivered' \in Seq(Messages) /\ in_thread_queue' \in Seq(Messages)
        /\ Sent' = Sent
    BY <1>0, <2>1, <2>2, MoveHeadAcross, HeadTailProperties, AppendProperties DEF Sent
  <2>5. PICK s : s = Sent
    OBVIOUS
  <2>6. Chain(s)' /\ Reading(s)'
    BY <1>2, <1>3, <2>2, <2>3, <2>5
  <2>7. Chain(Sent)' /\ Reading(Sent)'
    BY <2>4, <2>5, <2>6 DEF Chain, Follows, FirstOne, Reading, UpTo, UpToMark
  <2>8. Chain(delivered)'
    <3>1. PICK d : d = delivered'
      OBVIOUS
    <3>2. PICK q : q = in_thread_queue'
      OBVIOUS
    <3>3. Chain(d \o q)
      BY <2>3, <2>4, <3>1, <3>2 DEF Sent
    <3>4. Chain(d)
      BY <2>4, <3>1, <3>2, <3>3, ChainPrefix
    <3>5. Chain(d)'
      BY <1>2, <3>4
    <3> QED
      BY <3>1, <3>5 DEF Chain, Follows, FirstOne
  <2> QED
    BY <1>1, <2>2, <2>3, <2>7, <2>8 DEF OrderInv, Open
<1>6. CASE GetNothing
  <2>1. /\ main = "recv" /\ main' = "run" /\ in_thread_queue = <<>>
        /\ eof_reached' = err_recv
        /\ UNCHANGED <<delivered, in_thread_queue, err_send, thread>>
    BY <1>6 DEF GetNothing, queueVars, thrVars
  <2> QED
    BY <2>1, <1>q DEF OrderInv, Open
<1>7. ASSUME NEW s \in Streams, decode_flush(s)
      PROVE  OrderInv'
  <2>1. /\ main = "flush" /\ main' \in {"run", "flush"}
        /\ UNCHANGED <<delivered, in_thread_queue, err_send, thread, eof_reached>>
    BY <1>7 DEF decode_flush, queueVars, thrVars
  <2> QED
    BY <2>1, <1>q DEF OrderInv, Open
<1>8. CASE ifile_close
  <2>1. /\ main' \in {"closed", "drain"}
        /\ UNCHANGED <<delivered, in_thread_queue, thread, eof_reached>>
    BY <1>8 DEF ifile_close, thrVars
  <2> QED
    BY <2>1, <1>q DEF OrderInv, Open
<1>9. CASE Drain
  <2>1. /\ main = "drain" /\ main' \in {"drain", "join"}
        /\ UNCHANGED <<delivered, thread, eof_reached>>
        /\ UNCHANGED in_thread_queue \/ in_thread_queue # <<>>
    BY <1>9 DEF Drain, Recv, queueVars, thrVars
  <2>2. CASE UNCHANGED in_thread_queue
    BY <2>1, <2>2, <1>q DEF OrderInv, Open
  <2>3. CASE in_thread_queue # <<>>
    <3>1. ~eof_reached /\ Chain(delivered) /\ ~Open /\ ~Open'
      BY <2>1, <2>3 DEF OrderInv, Open
    <3>2. PICK s : s = delivered
      OBVIOUS
    <3>3. Chain(s)'
      BY <1>2, <3>1, <3>2
    <3>4. Chain(delivered)'
      BY <2>1, <3>2, <3>3 DEF Chain, Follows, FirstOne
    <3> QED
      BY <1>1, <2>1, <3>1, <3>4 DEF OrderInv
  <2> QED
    BY <2>1, <2>2, <2>3
<1>10. CASE Join
  <2>1. /\ main = "join" /\ main' = "closed"
        /\ UNCHANGED <<delivered, in_thread_queue, thread, eof_reached>>
    BY <1>10 DEF Join, queueVars, thrVars
  <2> QED
    BY <2>1, <1>q DEF OrderInv, Open
<1>11. CASE UNCHANGED vars
  <2>1. UNCHANGED <<main, delivered, in_thread_queue, thread, eof_reached, err_send>>
    BY <1>11 DEF vars, queueVars, thrVars, mainVars
  <2> QED
    BY <2>1, <1>q DEF OrderInv, Open
<1> QED
  BY <1>4, <1>5, <1>6, <1>7, <1>8, <1>9, <1>10, <1>11
     DEF Next, MainStep, Closed, WaitForEachOther

(* At the start nothing was read, and nothing was sent.                    *)
LEMMA InitOrder == Init => OrderInv
<1> SUFFICES ASSUME Init
             PROVE  OrderInv
  OBVIOUS
<1>1. /\ delivered = <<>> /\ in_thread_queue = <<>> /\ thread = "none"
      /\ pos = 0 /\ pass = 1 /\ ~err_send /\ ~err_recv /\ ~eof_reached
      /\ main = "run"
  BY DEF Init
<1>2. Sent = <<>>
  BY <1>1, InitTypes, SentType
<1> QED
  BY <1>1, <1>2 DEF OrderInv, Chain, Reading, Open

(* The order of the packets follows.                                       *)
LEMMA OrderImplied == TypeOK /\ OrderInv => PassesInOrder
<1> SUFFICES ASSUME TypeOK, OrderInv
             PROVE  PassesInOrder
  OBVIOUS
<1>1. Chain(delivered)
  BY DEF OrderInv
<1>2. EndIsLast
  <2> SUFFICES ASSUME eof_reached, thread = "ended", ~failed
               PROVE  /\ loop = 0 /\ pos = Len(file) /\ in_thread_queue = <<>>
                      /\ file # <<>> =>
                           /\ delivered # <<>>
                           /\ LET m == Last(delivered) IN
                              ~IsLooping(m) /\ m.pass = pass /\ m.pos = Len(file)
    BY DEF EndIsLast
  <2>1. in_thread_queue = <<>> /\ Reading(Sent) /\ Sent = delivered
    BY SentType DEF OrderInv
  <2>2. loop = 0 /\ pos = Len(file) /\ UpTo(delivered, pass, pos)
    BY <2>1 DEF Reading
  <2>3. file # <<>> => Len(file) # 0
    BY EmptySeq DEF TypeOK
  <2> QED
    BY <2>1, <2>2, <2>3 DEF UpTo, Last
<1>3. delivered # <<>> => IF IsLooping(delivered[1]) THEN file = <<>> \/ failed
                          ELSE delivered[1].pos = 1 /\ delivered[1].pass = 1
  BY <1>1 DEF Chain, FirstOne
<1> QED
  BY <1>1, <1>2, <1>3 DEF PassesInOrder, Chain

(* input_thread and ifile_get_packet, for every file, every stream_loop    *)
(* and every size of the queue: the main thread gets every packet of every *)
(* pass in order, and is told the end behind the last one.                 *)
THEOREM PassesKeepOrder == Spec => []PassesInOrder
<1>1. Init => TypeOK /\ MsgReady /\ OrderInv
  <2>1. Init => MsgReady
    BY DEF Init, MsgReady
  <2> QED
    BY <2>1, InitTypes, InitOrder
<1>2. TypeOK /\ MsgReady /\ OrderInv /\ [Next]_vars
        => (TypeOK /\ MsgReady /\ OrderInv)'
  <2> SUFFICES ASSUME TypeOK, MsgReady, OrderInv, [Next]_vars
               PROVE  (TypeOK /\ MsgReady /\ OrderInv)'
    OBVIOUS
  <2>1. TypeOK' /\ MsgReady'
    BY TypeStep
  <2>2. OrderInv'
    BY OrderThreadStep, OrderMainStep
  <2> QED
    BY <2>1, <2>2
<1>3. TypeOK /\ MsgReady /\ OrderInv => PassesInOrder
  BY OrderImplied
<1> QED
  BY <1>1, <1>2, <1>3, PTL DEF Spec

-----------------------------------------------------------------------------
(* Finitely many integers have a least one: otherwise take the fewest that *)
(* have none, and leave one out.                                           *)
LEMMA Minimum ==
  ASSUME NEW S, S \subseteq Int, IsFiniteSet(S), S # {}
  PROVE  Min(S) \in S
<1> DEFINE HasLeast(A) == \E x \in A : \A y \in A : x <= y
           Bad(A) == A \subseteq Int /\ IsFiniteSet(A) /\ A # {} /\ ~HasLeast(A)
           T == {Cardinality(A) : A \in {B \in SUBSET S : Bad(B)}}
<1>1. HasLeast(S)
  <2> SUFFICES ASSUME ~HasLeast(S)
               PROVE  FALSE
    OBVIOUS
  <2>1. T \subseteq Nat
    BY FS_CardinalityType
  <2>2. T # {}
    OBVIOUS
  <2>3. PICK n \in T : \A k \in T : n <= k
    <3> HIDE DEF T
    <3> QED
      <4>1. PICK n \in T : \A k \in T : <<k, n>> \notin OpToRel(<, Nat)
        BY <2>1, <2>2, WFMin, NatLessThanWellFounded, Zenon
      <4>2. \A k \in T : ~ (k < n)
        BY <2>1, <4>1 DEF OpToRel
      <4> QED BY <2>1, <4>2
  <2>4. PICK A \in SUBSET S : Bad(A) /\ Cardinality(A) = n
    OBVIOUS
  <2>5. PICK a \in A : TRUE
    BY <2>4
  <2>6. /\ IsFiniteSet(A \ {a}) /\ Cardinality(A \ {a}) = n - 1 /\ n \in Nat
    BY <2>1, <2>4, FS_RemoveElement
  <2>7. ~Bad(A \ {a})
    <3>1. Bad(A \ {a}) => n - 1 \in T
      BY <2>6
    <3>2. n - 1 \notin T
      <4> HIDE DEF T
      <4> QED
        BY <2>3, <2>6
    <3> QED
      BY <3>1, <3>2
  <2>8. CASE A \ {a} = {}
    <3>1. \A y \in A : a <= y
      BY <2>4, <2>8
    <3> QED
      BY <2>4, <3>1
  <2>9. CASE A \ {a} # {}
    <3>1. PICK x \in A \ {a} : \A y \in A \ {a} : x <= y
      BY <2>4, <2>6, <2>7, <2>9
    <3>2. a \in Int /\ x \in Int /\ \A y \in A : y \in Int
      BY <2>4
    <3>3. CASE x <= a
      BY <2>4, <3>1, <3>3
    <3>4. CASE a <= x
      <4>1. \A y \in A : a <= y
        BY <3>1, <3>2, <3>4
      <4> QED
        BY <2>4, <4>1
    <3> QED
      BY <3>2, <3>3, <3>4
  <2> QED
    BY <2>8, <2>9
<1> QED
  BY <1>1 DEF Min

(* decode_flush goes on with a stream that was not flushed.                *)
LEMMA NextFlushed ==
  ASSUME TypeOK, DurationInv, NEW s \in Streams, decode_flush(s)
  PROVE  s \notin flushed /\ main = "flush"
<1>1. main = "flush" /\ s = Min(Streams \ flushed)
  BY DEF decode_flush
<1>2. Streams \ flushed # {} /\ Streams \ flushed \subseteq Int
  BY <1>1, StreamAssumption DEF DurationInv, TypeOK
<1>3. IsFiniteSet(Streams \ flushed)
  BY StreamAssumption, FS_Subset
<1> QED
  BY <1>1, <1>2, <1>3, Minimum

(* A message is sent: it is the only mark or none.                         *)
LEMMA MarkSent ==
  ASSUME TypeOK, NEW m \in Messages, NoMark,
         in_thread_queue' = Append(in_thread_queue, m)
  PROVE  IF IsLooping(m) THEN OneMark' ELSE NoMark'
<1>1. in_thread_queue \in Seq(Messages) /\ Len(in_thread_queue) \in Nat
  BY LenProperties DEF TypeOK
<1>2. /\ DOMAIN in_thread_queue = 1 .. Len(in_thread_queue)
      /\ DOMAIN in_thread_queue' = 1 .. Len(in_thread_queue) + 1
      /\ \A i \in 1 .. Len(in_thread_queue) : in_thread_queue'[i] = in_thread_queue[i]
      /\ in_thread_queue'[Len(in_thread_queue) + 1] = m
  BY <1>1, AppendProperties, LenProperties
<1>3. \A i \in DOMAIN in_thread_queue' :
        i # Len(in_thread_queue) + 1 => ~IsLooping(in_thread_queue'[i])
  BY <1>1, <1>2 DEF NoMark
<1>4. Len(in_thread_queue) + 1 \in DOMAIN in_thread_queue'
  BY <1>1, <1>2
<1> QED
  BY <1>2, <1>3, <1>4 DEF NoMark, OneMark

(* A message is taken.                                                     *)
LEMMA MarkTaken ==
  ASSUME TypeOK, in_thread_queue # <<>>, in_thread_queue' = Tail(in_thread_queue)
  PROVE  /\ NoMark => NoMark' /\ ~IsLooping(Head(in_thread_queue))
         /\ OneMark => IF IsLooping(Head(in_thread_queue)) THEN NoMark'
                       ELSE OneMark'
<1>1. in_thread_queue \in Seq(Messages) /\ Len(in_thread_queue) \in Nat \ {0}
  BY LenProperties, EmptySeq DEF TypeOK
<1>2. /\ DOMAIN in_thread_queue = 1 .. Len(in_thread_queue)
      /\ DOMAIN in_thread_queue' = 1 .. Len(in_thread_queue) - 1
      /\ \A i \in 1 .. Len(in_thread_queue) - 1 :
           in_thread_queue'[i] = in_thread_queue[i + 1]
      /\ Head(in_thread_queue) = in_thread_queue[1]
  BY <1>1, HeadTailProperties, LenProperties
<1>3. /\ 1 \in DOMAIN in_thread_queue
      /\ \A i \in DOMAIN in_thread_queue' : i + 1 \in DOMAIN in_thread_queue
      /\ \A i \in DOMAIN in_thread_queue \ {1} :
           i - 1 \in DOMAIN in_thread_queue' /\ i - 1 + 1 = i
      /\ \A i \in DOMAIN in_thread_queue' : i # 0 /\ i \in Int
  BY <1>1, <1>2
<1>4. ASSUME NoMark
      PROVE  NoMark' /\ ~IsLooping(Head(in_thread_queue))
  BY <1>2, <1>3, <1>4 DEF NoMark
<1>5. ASSUME NEW k \in DOMAIN in_thread_queue,
             IsLooping(in_thread_queue[k]),
             \A j \in DOMAIN in_thread_queue : IsLooping(in_thread_queue[j]) => j = k
      PROVE  IF IsLooping(Head(in_thread_queue)) THEN NoMark' ELSE OneMark'
  <2>1. CASE k = 1
    <3>1. \A i \in DOMAIN in_thread_queue' : ~IsLooping(in_thread_queue'[i])
      BY <1>1, <1>2, <1>3, <1>5, <2>1
    <3> QED
      BY <1>2, <1>5, <2>1, <3>1 DEF NoMark
  <2>2. CASE k # 1
    <3>1. ~IsLooping(Head(in_thread_queue))
      BY <1>2, <1>3, <1>5, <2>2
    <3>2. k - 1 \in DOMAIN in_thread_queue' /\ IsLooping(in_thread_queue'[k - 1])
      BY <1>1, <1>2, <1>3, <1>5, <2>2
    <3>3. \A j \in DOMAIN in_thread_queue' :
            IsLooping(in_thread_queue'[j]) => j = k - 1
      BY <1>1, <1>2, <1>3, <1>5
    <3> QED
      BY <3>1, <3>2, <3>3 DEF OneMark
  <2> QED
    BY <2>1, <2>2
<1> QED
  BY <1>4, <1>5 DEF OneMark

(* The counts that are compared.                                           *)
LEMMA CountTypes ==
  ASSUME TypeOK
  PROVE  /\ Cardinality(audio) \in Nat /\ IsFiniteSet(audio) /\ Left \in Nat
         /\ Got \in Nat /\ got_durations \in Nat
         /\ Len(audio_duration_queue) \in Nat
         /\ audio_duration_queue = <<>> <=> Len(audio_duration_queue) = 0
         /\ main = "flush" => (Left = 0 <=> audio \subseteq flushed)
         /\ audio = {} => audio_duration_queue = <<>>
<1>1. /\ audio \subseteq Streams /\ got_durations \in 0 .. Cardinality(audio)
      /\ audio_duration_queue \in Seq([stream : audio, samples : Nat, pass : Nat])
      /\ Len(audio_duration_queue) <= Cardinality(audio)
  BY DEF TypeOK
<1>2. /\ Cardinality(audio) \in Nat /\ IsFiniteSet(audio)
      /\ IsFiniteSet(audio \ flushed) /\ Cardinality(audio \ flushed) \in Nat
  BY <1>1, AudioFacts
<1>3. /\ Len(audio_duration_queue) \in Nat
      /\ audio_duration_queue = <<>> <=> Len(audio_duration_queue) = 0
  BY <1>1, LenProperties, EmptySeq
<1>4. got_durations \in Nat
  BY <1>1, <1>2
<1>5. Left \in Nat /\ Got \in Nat
  BY <1>2, <1>4 DEF Left, Got
<1>6. main = "flush" => (Left = 0 <=> audio \subseteq flushed)
  BY <1>2, FS_EmptySet DEF Left
<1>7. audio = {} => Cardinality(audio) = 0
  BY FS_EmptySet
<1>8. audio = {} => audio_duration_queue = <<>>
  BY <1>1, <1>3, <1>7
<1> QED
  BY <1>2, <1>3, <1>4, <1>5, <1>6, <1>8

(* Taking a duration leaves the others.                                    *)
LEMMA DurationTaken ==
  ASSUME TypeOK, DurationInv, audio_duration_queue # <<>>,
         audio_duration_queue' = Tail(audio_duration_queue)
  PROVE  /\ Len(audio_duration_queue') = Len(audio_duration_queue) - 1
         /\ Len(audio_duration_queue') = 0 => audio_duration_queue' = <<>>
         /\ \A i \in DOMAIN audio_duration_queue' :
              audio_duration_queue'[i].pass = pass
<1> DEFINE D == [stream : audio, samples : Nat, pass : Nat]
<1>1. PICK q : q = audio_duration_queue
  OBVIOUS
<1>2. PICK t : t = Tail(q)
  OBVIOUS
<1>3. q \in Seq(D) /\ q # <<>>
  BY <1>1 DEF TypeOK
<1> HIDE DEF D
<1>4. /\ t \in Seq(D) /\ Len(t) = Len(q) - 1 /\ Len(q) \in Nat \ {0}
      /\ \A i \in 1 .. Len(t) : t[i] = q[i + 1]
      /\ DOMAIN q = 1 .. Len(q) /\ DOMAIN t = 1 .. Len(t)
      /\ Len(t) = 0 => t = <<>>
  BY <1>2, <1>3, HeadTailProperties, LenProperties, EmptySeq
<1>5. \A i \in DOMAIN q : q[i].pass = pass
  BY <1>1 DEF DurationInv
<1>6. \A i \in DOMAIN t : i + 1 \in DOMAIN q /\ t[i] = q[i + 1]
  BY <1>4
<1> QED
  BY <1>1, <1>2, <1>4, <1>5, <1>6

(* The steps of the thread keep the durations paired.                      *)
LEMMA PairThreadStep ==
  ASSUME TypeOK, MsgReady, OrderInv, DurationInv, MarkInv, input_thread
  PROVE  DurationInv' /\ MarkInv'
<1>0. /\ Cardinality(audio) \in Nat /\ Left \in Nat /\ Got \in Nat
      /\ got_durations \in Nat /\ Len(audio_duration_queue) \in Nat
      /\ audio_duration_queue = <<>> <=> Len(audio_duration_queue) = 0
      /\ main = "flush" => (Left = 0 <=> audio \subseteq flushed)
      /\ audio = {} => audio_duration_queue = <<>>
  BY CountTypes
<1>1. /\ UNCHANGED <<main, flushed, audio>> /\ Open' = Open /\ Left' = Left
  BY DEF input_thread, ReadPacket, ReadUnusable, ReadEnds, SendBlocks, SendPacket,
     SendLooping, SendRefused, SeekToStart, SeekFails, RecvDuration, options,
     mainVars, Open, Left
<1>n. UNCHANGED in_thread_queue => (NoMark => NoMark') /\ (OneMark => OneMark')
  BY DEF NoMark, OneMark
(* The thread ends, ...                                                    *)
<1>e. ASSUME thread' = "ended", UNCHANGED <<audio_duration_queue, pass>>
      PROVE  DurationInv' /\ MarkInv'
  BY <1>1, <1>e DEF DurationInv, MarkInv
(* ... or goes on with its pass.                                           *)
<1>p. ASSUME thread \in {"read", "send", "sendLooping"},
             thread' \in {"read", "send", "sendLooping"},
             UNCHANGED <<audio_duration_queue, pass>>,
             Open /\ NoMark => NoMark'
      PROVE  DurationInv' /\ MarkInv'
  BY <1>1, <1>p DEF DurationInv, MarkInv
<1>2. CASE ReadPacket
  BY <1>2, <1>n, <1>p DEF ReadPacket, queueVars
<1>3. CASE ReadUnusable
  BY <1>3, <1>e DEF ReadUnusable, Finish, readVars
<1>4. CASE ReadEnds
  BY <1>4, <1>n, <1>e, <1>p DEF ReadEnds, Finish, readVars, queueVars
<1>5. CASE SendBlocks
  BY <1>5, <1>n, <1>p DEF SendBlocks, readVars, queueVars
<1>6. CASE SendPacket
  <2>1. /\ thread = "send" /\ thread' = "read"
        /\ in_thread_queue' = Append(in_thread_queue, msg)
        /\ UNCHANGED <<audio_duration_queue, pass>>
    BY <1>6 DEF SendPacket, Send, readVars
  <2>2. msg \in Messages
    BY <2>1 DEF MsgReady
  <2>3. Open => ~IsLooping(msg)
    BY <2>1 DEF OrderInv, Reading
  <2>4. Open /\ NoMark => NoMark'
    BY <2>1, <2>2, <2>3, MarkSent
  <2> QED
    BY <2>1, <2>4, <1>p
<1>7. CASE SendLooping
  <2>1. /\ thread = "sendLooping" /\ thread' = "seek"
        /\ in_thread_queue' = Append(in_thread_queue, msg)
        /\ UNCHANGED <<audio_duration_queue, pass>>
    BY <1>7 DEF SendLooping, Send, readVars
  <2>2. msg \in Messages /\ pass \in Nat
    BY <2>1 DEF MsgReady, TypeOK
  <2>3. Open => IsLooping(msg)
    BY <2>1, <2>2, MessageFacts DEF OrderInv, Reading
  <2>4. Open /\ NoMark => OneMark'
    BY <2>1, <2>2, <2>3, MarkSent
  <2>5. Got' = 0
    BY <2>1 DEF Got
  <2> QED
    BY <1>1, <2>1, <2>4, <2>5 DEF DurationInv, MarkInv
<1>8. CASE SendRefused
  BY <1>8, <1>e DEF SendRefused, Finish, readVars
<1>9. CASE SeekToStart
  <2>1. /\ thread = "seek" /\ UNCHANGED <<in_thread_queue, audio_duration_queue>>
    BY <1>9 DEF SeekToStart, queueVars
  <2>2. CASE audio = {}
    <3>1. audio_duration_queue' = <<>> /\ audio' = {}
      BY <1>0, <1>1, <2>1, <2>2
    <3>2. thread' = "read"
      BY <1>9, <2>2 DEF SeekToStart, Restart
    <3> QED
      BY <1>1, <3>1, <3>2 DEF DurationInv, MarkInv
  <2>3. CASE audio # {}
    <3>1. thread' = "durations" /\ got_durations' = 0 /\ pass' = pass
      BY <1>9, <2>3 DEF SeekToStart, readVars
    <3>2. Got' = 0 /\ Got = 0
      BY <2>1, <3>1 DEF Got
    <3>3. Len(audio_duration_queue) <= Cardinality(audio)
      BY DEF TypeOK
    <3>4. got_durations' + Len(audio_duration_queue') <= Cardinality(audio')
      BY <1>0, <1>1, <2>1, <3>1, <3>3
    <3> QED
      BY <1>1, <1>n, <2>1, <2>3, <3>1, <3>2, <3>4 DEF DurationInv, MarkInv
  <2> QED
    BY <2>2, <2>3
<1>10. CASE SeekFails
  BY <1>10, <1>e DEF SeekFails, Finish, readVars
<1>11. CASE RecvDuration
  <2>1. /\ thread = "durations" /\ audio_duration_queue # <<>>
        /\ audio_duration_queue' = Tail(audio_duration_queue)
        /\ got_durations' = got_durations + 1
        /\ UNCHANGED in_thread_queue
    BY <1>11 DEF RecvDuration, queueVars
  <2>2. /\ Len(audio_duration_queue') = Len(audio_duration_queue) - 1
        /\ Len(audio_duration_queue') = 0 => audio_duration_queue' = <<>>
        /\ \A i \in DOMAIN audio_duration_queue' :
             audio_duration_queue'[i].pass = pass
    BY <2>1, DurationTaken
  <2>3. /\ audio # {}
        /\ got_durations + Len(audio_duration_queue) <= Cardinality(audio)
    BY <2>1 DEF DurationInv
  <2>4. Open => /\ NoMark
                /\ got_durations + Len(audio_duration_queue) + Left
                     = Cardinality(audio)
    BY <2>1, <2>3 DEF MarkInv, Got
  <2>5. NoMark => NoMark'
    BY <1>n, <2>1
  <2>6. CASE got_durations' < Cardinality(audio) /\ UNCHANGED <<thread, readVars>>
    <3>1. Got' = got_durations' /\ thread' = "durations" /\ pass' = pass
      BY <2>1, <2>6 DEF Got, readVars
    <3>2. got_durations' + Len(audio_duration_queue') <= Cardinality(audio)
      BY <1>0, <2>1, <2>2, <2>3
    <3>3. DurationInv'
      BY <1>1, <2>2, <2>3, <3>1, <3>2 DEF DurationInv
    <3>4. Open => Got' + Len(audio_duration_queue') + Left' = Cardinality(audio)
      BY <1>0, <1>1, <2>1, <2>2, <2>4, <3>1
    <3> QED
      BY <1>1, <2>4, <2>5, <3>1, <3>3, <3>4 DEF MarkInv
  <2>7. CASE got_durations' = Cardinality(audio) /\ Restart
    <3>1. Len(audio_duration_queue) = 1
      <4>1. Len(audio_duration_queue) # 0
        BY <1>0, <2>1
      <4>2. Cardinality(audio) = got_durations + 1
        BY <2>1, <2>7
      <4>3. /\ got_durations \in Nat /\ Len(audio_duration_queue) \in Nat
            /\ got_durations + Len(audio_duration_queue) <= got_durations + 1
        BY <1>0, <2>3, <4>2
      <4>4. ASSUME NEW n \in Nat, NEW g \in Nat, n # 0, g + n <= g + 1
            PROVE  n = 1
        BY <4>4
      <4> QED
        BY <4>1, <4>3, <4>4
    <3>2. audio_duration_queue' = <<>> /\ thread' = "read"
      BY <2>2, <2>7, <3>1 DEF Restart
    <3>3. Open => Left = 0
      BY <1>0, <2>1, <2>4, <2>7, <3>1
    <3>4. Open /\ main = "flush" => audio \subseteq flushed
      BY <1>0, <3>3
    <3> QED
      BY <1>1, <2>4, <2>5, <3>2, <3>4 DEF DurationInv, MarkInv
  <2> QED
    BY <1>11, <2>6, <2>7 DEF RecvDuration
<1> QED
  BY <1>2, <1>3, <1>4, <1>5, <1>6, <1>7, <1>8, <1>9, <1>10, <1>11 DEF input_thread

(* The steps of the main thread keep the durations paired.                 *)
LEMMA PairMainStep ==
  ASSUME TypeOK, OrderInv, DurationInv, MarkInv, [Next]_vars, ~input_thread
  PROVE  DurationInv' /\ MarkInv'
<1>0. /\ Cardinality(audio) \in Nat /\ Left \in Nat /\ Got \in Nat
      /\ got_durations \in Nat /\ Len(audio_duration_queue) \in Nat
      /\ IsFiniteSet(audio) /\ audio \subseteq Streams
  BY CountTypes DEF TypeOK
<1>1. UNCHANGED <<pass, audio, got_durations>>
  BY DEF Next, input_thread, MainStep, GetPacket, GetNothing, Drain, Join,
     decode_flush, ifile_get_packet, ifile_close, Closed, WaitForEachOther, vars,
     options, readVars, thrVars
<1>n. UNCHANGED in_thread_queue => (NoMark => NoMark') /\ (OneMark => OneMark')
  BY DEF NoMark, OneMark
<1>g. UNCHANGED thread => Got' = Got
  BY <1>1 DEF Got
<1>2. CASE ifile_get_packet
  <2>1. /\ main = "run" /\ main' \in {"run", "recv"} /\ Left = 0 /\ Left' = 0
        /\ UNCHANGED <<in_thread_queue, audio_duration_queue, flushed>>
        /\ UNCHANGED thread \/ (thread = "none" /\ thread' = "read")
    BY <1>2 DEF ifile_get_packet, queueVars, Left
  <2>2. Open /\ Open' /\ main' # "flush"
    BY <2>1 DEF Open
  <2>3. DurationInv'
    BY <1>1, <2>1 DEF DurationInv
  <2>4. /\ (NoMark => NoMark') /\ (OneMark => OneMark') /\ Left' = Left
        /\ Len(audio_duration_queue') = Len(audio_duration_queue)
    BY <1>n, <2>1
  <2>5. CASE UNCHANGED thread
    <3>1. Got' = Got
      BY <1>g, <2>5
    <3> QED
      BY <1>1, <2>1, <2>2, <2>3, <2>5, <2>4, <3>1 DEF MarkInv
  <2>6. CASE thread = "none" /\ thread' = "read"
    <3>1. audio # {} => NoMark
      BY <2>2, <2>6 DEF MarkInv
    <3> QED
      BY <1>1, <2>2, <2>3, <2>6, <2>4, <3>1 DEF MarkInv
  <2> QED
    BY <2>1, <2>5, <2>6
<1>3. CASE GetPacket
  <2>1. PICK m : m = Head(in_thread_queue)
    OBVIOUS
  <2>2. /\ main = "recv" /\ in_thread_queue # <<>>
        /\ in_thread_queue' = Tail(in_thread_queue)
        /\ UNCHANGED <<audio_duration_queue, thread>>
        /\ IF IsLooping(m) THEN main' = "flush" /\ flushed' = {}
           ELSE main' = "run" /\ UNCHANGED flushed
    BY <1>3, <2>1 DEF GetPacket, Recv, thrVars
  <2>3. /\ NoMark => NoMark' /\ ~IsLooping(m)
        /\ OneMark => IF IsLooping(m) THEN NoMark' ELSE OneMark'
    BY <2>1, <2>2, MarkTaken
  <2>4. Open /\ Open' /\ Left = 0 /\ thread # "none"
    BY <2>2 DEF Open, Left, OrderInv
  <2>5. DurationInv'
    BY <1>1, <2>2, StreamAssumption DEF DurationInv
  <2>6. CASE IsLooping(m)
    <3>1. Left' = Cardinality(audio)
      <4>1. audio' \ flushed' = audio /\ main' = "flush"
        BY <1>1, <2>2, <2>6
      <4> QED
        BY <4>1 DEF Left
    <3>2. ASSUME audio # {}, thread \in {"seek", "durations"}
          PROVE  /\ NoMark'
                 /\ Got' + Len(audio_duration_queue') + Left' = Cardinality(audio')
      <4>1. OneMark /\ Got = 0 /\ audio_duration_queue = <<>>
        BY <2>3, <2>4, <2>6, <3>2 DEF MarkInv
      <4>2. Len(audio_duration_queue) = 0
        BY <4>1
      <4> QED
        BY <1>0, <1>1, <1>g, <2>2, <2>3, <2>6, <3>1, <4>1, <4>2
    <3>3. audio # {} => thread \notin {"none", "read", "send", "sendLooping"}
      BY <2>3, <2>4, <2>6 DEF MarkInv
    <3> QED
      BY <1>1, <2>2, <2>5, <3>2, <3>3 DEF MarkInv
  <2>7. CASE ~IsLooping(m)
    <3>1. main' = "run" /\ Left' = 0
      BY <2>2, <2>7 DEF Left
    <3> QED
      BY <1>1, <1>g, <2>2, <2>3, <2>4, <2>5, <2>7, <3>1 DEF MarkInv
  <2> QED
    BY <2>6, <2>7
<1>4. CASE GetNothing
  <2>1. /\ main = "recv" /\ main' = "run" /\ Left = 0 /\ Left' = 0
        /\ UNCHANGED <<in_thread_queue, audio_duration_queue, flushed, thread>>
    BY <1>4 DEF GetNothing, queueVars, thrVars, Left
  <2>2. Open
    BY <2>1 DEF Open
  <2> QED
    BY <1>1, <1>n, <1>g, <2>1, <2>2 DEF DurationInv, MarkInv
<1>5. ASSUME NEW s \in Streams, decode_flush(s)
      PROVE  DurationInv' /\ MarkInv'
  <2>1. /\ main = "flush" /\ s \notin flushed
        /\ flushed' = flushed \cup {s}
        /\ main' = IF flushed' = Streams THEN "run" ELSE "flush"
        /\ UNCHANGED <<in_thread_queue, thread>>
    BY <1>5, NextFlushed DEF decode_flush, queueVars, thrVars
  <2>2. Open /\ Open' /\ thread # "none"
    BY <2>1 DEF Open, OrderInv
  <2>3. Left = Cardinality(audio \ flushed) /\ IsFiniteSet(audio \ flushed)
    BY <1>0, <2>1, FS_Subset DEF Left
  <2>4. Left' = Cardinality((audio \ flushed) \ {s})
    <3>1. audio' \ flushed' = (audio \ flushed) \ {s}
      BY <1>1, <2>1
    <3>2. CASE flushed' = Streams
      <4>1. (audio \ flushed) \ {s} = {}
        BY <1>0, <1>1, <3>1, <3>2
      <4>2. Left' = 0
        BY <2>1, <3>2 DEF Left
      <4> QED
        BY <4>1, <4>2, FS_EmptySet
    <3>3. CASE flushed' # Streams
      BY <2>1, <3>1, <3>3 DEF Left
    <3> QED
      BY <3>2, <3>3
  <2>5. CASE s \in audio
    <3>1. Left' = Left - 1
      BY <2>1, <2>3, <2>4, <2>5, FS_RemoveElement
    <3>2. PICK d : d = [stream |-> s, samples |-> nb_samples'[s], pass |-> pass]
      OBVIOUS
    <3>3. audio_duration_queue' = Append(audio_duration_queue, d) /\ d.pass = pass
      BY <1>5, <2>5, <3>2 DEF decode_flush
    <3>4. nb_samples' \in [Streams -> Nat]
      BY <1>5, DecodeTypes DEF decode_flush, TypeOK
    <3>5. d \in [stream : audio, samples : Nat, pass : Nat]
      BY <2>5, <3>2, <3>4 DEF TypeOK
    <3>6. /\ Len(audio_duration_queue') = Len(audio_duration_queue) + 1
          /\ \A i \in DOMAIN audio_duration_queue' :
               audio_duration_queue'[i].pass = pass
      <4>1. audio_duration_queue \in Seq([stream : audio, samples : Nat, pass : Nat])
        BY DEF TypeOK
      <4>2. /\ Len(audio_duration_queue') = Len(audio_duration_queue) + 1
            /\ \A i \in 1 .. Len(audio_duration_queue) :
                 audio_duration_queue'[i] = audio_duration_queue[i]
            /\ audio_duration_queue'[Len(audio_duration_queue) + 1] = d
            /\ DOMAIN audio_duration_queue' = 1 .. Len(audio_duration_queue')
            /\ DOMAIN audio_duration_queue = 1 .. Len(audio_duration_queue)
        BY <3>3, <3>5, <4>1, AppendProperties, LenProperties
      <4>3. \A i \in 1 .. Len(audio_duration_queue) :
              audio_duration_queue[i].pass = pass
        BY <4>2 DEF DurationInv
      <4> QED
        BY <1>0, <3>3, <4>2, <4>3
    <3>7. audio # {} /\ ~(audio \subseteq flushed)
      BY <2>1, <2>5
    <3>8. thread \notin {"read", "send", "sendLooping"}
      BY <2>1, <2>2, <3>7 DEF MarkInv
    <3>9. thread \in {"seek", "durations"} =>
            NoMark /\ Got + Len(audio_duration_queue) + Left = Cardinality(audio)
      BY <2>1, <2>2, <3>7 DEF MarkInv
    <3>10. thread \in {"seek", "durations"} =>
             /\ NoMark'
             /\ Got' + Len(audio_duration_queue') + Left' = Cardinality(audio')
      BY <1>0, <1>1, <1>n, <1>g, <2>1, <3>1, <3>6, <3>9
    <3>11. MarkInv'
      BY <2>1, <2>2, <3>8, <3>10 DEF MarkInv
    <3>12. DurationInv'
      <4>1. Left' \in Nat
        BY <2>3, <2>4, FS_RemoveElement, FS_CardinalityType
      <4>2. thread = "durations" =>
              got_durations' + Len(audio_duration_queue') <= Cardinality(audio')
        <5>1. HAVE thread = "durations"
        <5>2. Got' = got_durations' /\ thread \in {"seek", "durations"}
          BY <2>1, <5>1 DEF Got
        <5>3. got_durations' + Len(audio_duration_queue') + Left' = Cardinality(audio')
          BY <3>10, <5>2
        <5> QED
          BY <1>0, <1>1, <3>6, <4>1, <5>3
      <4>3. /\ main' = "flush" => flushed' # Streams
            /\ thread' \notin {"none", "read", "send", "sendLooping"}
        BY <2>1, <2>2, <3>8
      <4> QED
        BY <1>1, <2>1, <3>6, <3>7, <4>2, <4>3 DEF DurationInv
    <3> QED
      BY <3>11, <3>12
  <2>6. CASE s \notin audio
    <3>1. Left' = Left
      BY <2>3, <2>4, <2>6, FS_RemoveElement
    <3>2. UNCHANGED audio_duration_queue
      BY <1>5, <2>6 DEF decode_flush
    <3>3. audio \subseteq flushed => audio' \subseteq flushed'
      BY <1>1, <2>1
    <3>4. MarkInv'
      BY <1>1, <1>n, <1>g, <2>1, <2>2, <3>1, <3>2, <3>3 DEF MarkInv
    <3>5. DurationInv'
      BY <1>1, <2>1, <3>2 DEF DurationInv
    <3> QED
      BY <3>4, <3>5
  <2> QED
    BY <2>5, <2>6
(* A step after which the main thread takes no packets.                    *)
<1>c. ASSUME ~Open', UNCHANGED thread,
             UNCHANGED audio_duration_queue
               \/ (thread = "ended" /\ audio_duration_queue' = <<>>)
      PROVE  DurationInv' /\ MarkInv'
  <2>1. main' # "flush" /\ MarkInv'
    BY <1>c DEF Open, MarkInv
  <2> QED
    BY <1>1, <1>c, <2>1 DEF DurationInv
<1>6. CASE ifile_close
  BY <1>6, <1>c DEF ifile_close, thrVars, Open
<1>7. CASE Drain
  BY <1>7, <1>c DEF Drain, thrVars, Open
<1>8. CASE Join
  BY <1>8, <1>c DEF Join, thrVars, Open
<1>9. CASE UNCHANGED vars
  <2>1. UNCHANGED <<main, in_thread_queue, audio_duration_queue, flushed, thread>>
    BY <1>9 DEF vars, queueVars, thrVars, mainVars
  <2>2. Open' = Open /\ Left' = Left
    BY <1>1, <2>1 DEF Open, Left
  <2> QED
    BY <1>1, <1>n, <1>g, <2>1, <2>2 DEF DurationInv, MarkInv
<1> QED
  BY <1>2, <1>3, <1>4, <1>5, <1>6, <1>7, <1>8, <1>9
     DEF Next, MainStep, Closed, WaitForEachOther

(* At the start no mark and no duration is queued.                         *)
LEMMA InitPairs == Init => DurationInv /\ MarkInv
<1> SUFFICES ASSUME Init
             PROVE  DurationInv /\ MarkInv
  OBVIOUS
<1>1. /\ in_thread_queue = <<>> /\ audio_duration_queue = <<>>
      /\ thread = "none" /\ main = "run"
  BY DEF Init
<1> QED
  BY <1>1 DEF DurationInv, MarkInv, NoMark

(* The invariants say that the durations are paired.                       *)
LEMMA PairsImplied == TypeOK /\ DurationInv /\ MarkInv => DurationsArePaired
<1> SUFFICES ASSUME TypeOK, DurationInv, MarkInv
             PROVE  DurationsArePaired
  OBVIOUS
<1>0. /\ Cardinality(audio) \in Nat /\ Left \in Nat
      /\ Len(audio_duration_queue) \in Nat /\ got_durations \in Nat
      /\ audio_duration_queue = <<>> <=> Len(audio_duration_queue) = 0
      /\ main = "flush" => (Left = 0 <=> audio \subseteq flushed)
      /\ main # "flush" => Left = 0
  BY CountTypes DEF Left
<1>1. ToBeFlushed = Cardinality(Marks) * Cardinality(audio) + Left
  BY DEF ToBeFlushed, Left
<1>2. NoMark => Cardinality(Marks) = 0
  <2>1. NoMark => Marks = {}
    BY DEF NoMark, Marks
  <2> QED
    BY <2>1, FS_EmptySet
<1>3. OneMark => Cardinality(Marks) = 1
  <2>1. OneMark => \E i : Marks = {i}
    BY DEF OneMark, Marks
  <2> QED
    BY <2>1, FS_Singleton
<1>4. NoMark => ToBeFlushed = Left
  BY <1>0, <1>1, <1>2
<1>5. OneMark => ToBeFlushed = Cardinality(audio) + Left
  BY <1>0, <1>1, <1>3
<1>6. ASSUME Open, audio # {}, thread = "durations"
      PROVE  got_durations + Len(audio_duration_queue) + ToBeFlushed
               = Cardinality(audio)
  <2>1. Got = got_durations
    BY <1>6 DEF Got
  <2>2. CASE NoMark /\ Got + Len(audio_duration_queue) + Left = Cardinality(audio)
    BY <1>4, <2>1, <2>2
  <2>3. CASE OneMark /\ Got = 0 /\ audio_duration_queue = <<>>
             /\ (main = "flush" => audio \subseteq flushed)
    <3>1. Left = 0 /\ Len(audio_duration_queue) = 0
      BY <1>0, <2>3
    <3> QED
      BY <1>0, <1>5, <2>1, <2>3, <3>1
  <2> QED
    BY <1>6, <2>2, <2>3 DEF MarkInv
<1>7. ASSUME Open, audio # {}, thread \in {"read", "send", "sendLooping"}
      PROVE  Len(audio_duration_queue) + ToBeFlushed = 0
  <2>1. NoMark /\ Left = 0 /\ Len(audio_duration_queue) = 0
    BY <1>0, <1>7 DEF MarkInv, DurationInv
  <2> QED
    BY <1>4, <2>1
<1> QED
  BY <1>6, <1>7 DEF DurationsArePaired, DurationInv, Open

(* seek_to_start and decode_flush, for every file, any number of streams   *)
(* and every stream_loop: the durations that are awaited are sent, each    *)
(* once, and none is left over for the next pass.                          *)
THEOREM DurationsMatch == Spec => []DurationsArePaired
<1>1. Init => TypeOK /\ MsgReady /\ OrderInv /\ DurationInv /\ MarkInv
  <2>1. Init => MsgReady
    BY DEF Init, MsgReady
  <2> QED
    BY <2>1, InitTypes, InitOrder, InitPairs
<1>2. TypeOK /\ MsgReady /\ OrderInv /\ DurationInv /\ MarkInv /\ [Next]_vars
        => (TypeOK /\ MsgReady /\ OrderInv /\ DurationInv /\ MarkInv)'
  <2> SUFFICES ASSUME TypeOK, MsgReady, OrderInv, DurationInv, MarkInv, [Next]_vars
               PROVE  (TypeOK /\ MsgReady /\ OrderInv /\ DurationInv /\ MarkInv)'
    OBVIOUS
  <2>1. TypeOK' /\ MsgReady'
    BY TypeStep
  <2>2. OrderInv'
    BY OrderThreadStep, OrderMainStep
  <2>3. DurationInv' /\ MarkInv'
    BY PairThreadStep, PairMainStep
  <2> QED
    BY <2>1, <2>2, <2>3
<1>3. TypeOK /\ MsgReady /\ OrderInv /\ DurationInv /\ MarkInv
        => DurationsArePaired
  BY PairsImplied
<1> QED
  BY <1>1, <1>2, <1>3, PTL DEF Spec

-----------------------------------------------------------------------------
(* Offset is ts_offset in the unit of s.  What is said of its times holds  *)
(* while Steady(s): nothing failed, the times in the file grow, and the    *)
(* length of s counts.                                                     *)
Offset(s) == Rescale(TsOffset, 1, Tb[s])
Steady(s) == ~failed /\ Grows(s) /\ (s \in audio \/ audio = {})

(* The messages that were told: delivered, queued or being sent.           *)
IsTold(m) ==
  \/ \E i \in DOMAIN delivered : m = delivered[i]
  \/ \E i \in DOMAIN in_thread_queue : m = in_thread_queue[i]
  \/ thread = "send" /\ m = msg

(* A time is that of a packet that was read in this pass, moved as ts_fixup*)
(* moves it now, or not behind any that this pass is going to have.        *)
InPass(s, t) ==
  \/ \E j \in DOMAIN file :
       j <= pos /\ file[j].stream = s /\ t = file[j].pts + Shift(s)
  \/ \A j \in DOMAIN file : file[j].stream = s => t <= file[j].pts + Shift(s)

TimeInv ==
  \A s \in Streams :
    Steady(s) =>
      \A m \in Messages :
        IsTold(m) /\ PacketOf(s, m) =>
          /\ m.pts <= max_pts[s]
          /\ thread \in {"none", "read", "send"} => InPass(s, m.pts)

(* min_pts is not behind any time the stream had in the first pass.        *)
Read(j) == j <= pos \/ pass # 1 \/ thread \in {"sendLooping", "seek", "durations"}

LeastInv ==
  \A s \in Streams :
    Steady(s) =>
      \A j \in DOMAIN file :
        file[j].stream = s /\ Read(j) => min_pts[s] <= file[j].pts + Offset(s)

(* In the first pass nothing is added, ...                                 *)
FirstInv ==
  /\ pass # 0 /\ duration.ticks >= 0
  /\ pass = 1 /\ thread \in {"none", "read", "send"} =>
       duration = [ticks |-> 0, tb |-> 1]
  /\ thread \in {"sendLooping", "seek", "durations"} /\ ~failed => pos = Len(file)
  /\ thread = "sendLooping" => IsLooping(msg)

(* ... and the duration of an audio stream is counted, or is still to come.*)
Pending(s) ==
  \/ \E i \in DOMAIN audio_duration_queue : audio_duration_queue[i].stream = s
  \/ main = "flush" /\ s \notin flushed
  \/ ~NoMark
  \/ ~Open /\ audio_duration_queue = <<>>

Counted(s) == Tb[s] * (max_pts[s] - min_pts[s]) <= TimeOf(duration)

CountInv ==
  /\ \A s \in audio :
       /\ thread = "seek" => Pending(s)
       /\ thread = "durations" => Pending(s) \/ Counted(s)
  /\ ~Open /\ thread \in {"seek", "durations"} /\ audio_duration_queue # <<>> =>
       NoMark /\ Got + Len(audio_duration_queue) = Cardinality(audio)

(* The times of a stream rise from message to message.                     *)
Below(s, seq, m) == \A i \in DOMAIN seq : PacketOf(s, seq[i]) => seq[i].pts <= m.pts

RiseInv ==
  \A s \in Streams :
    Steady(s) =>
      /\ Rising(s, delivered) /\ Rising(s, in_thread_queue)
      /\ \A i \in DOMAIN in_thread_queue :
           PacketOf(s, in_thread_queue[i]) => Below(s, delivered, in_thread_queue[i])
      /\ thread = "send" /\ PacketOf(s, msg) =>
           Below(s, delivered, msg) /\ Below(s, in_thread_queue, msg)

-----------------------------------------------------------------------------
(* av_rescale_q of what is at least k units gives at least k, ...          *)
LEMMA RescaleLeast ==
  ASSUME NEW x \in Nat, NEW from \in Nat, NEW to \in Nat \ {0}, NEW k \in Int,
         to * k <= x * from
  PROVE  k <= Rescale(x, from, to)
<1>1. PICK a \in Int : a = x * from
  OBVIOUS
<1>2. PICK b \in Int : b = to * k
  OBVIOUS
<1>3. PICK h \in Nat : h = to \div 2
  OBVIOUS
<1>4. PICK q \in Int : q = (a + h) \div to
  OBVIOUS
<1>5. a + h < to * (q + 1)
  BY <1>4
<1>6. to * k < to * (q + 1)
  BY <1>1, <1>2, <1>3, <1>5
<1>7. k < q + 1
  <2>1. SUFFICES ASSUME q + 1 <= k
                 PROVE  to * (q + 1) <= to * k
    BY <1>6
  <2>2. PICK d \in Nat : k = q + 1 + d
    BY <2>1, k - (q + 1) \in Nat
  <2>3. to * k = to * (q + 1) + to * d
    BY <2>2
  <2>4. to * d \in Nat /\ to * (q + 1) \in Int
    OBVIOUS
  <2> QED BY <2>3, <2>4
<1> QED BY <1>1, <1>3, <1>4, <1>7 DEF Rescale

(* ... and of nothing gives nothing.                                       *)
LEMMA RescaleZero ==
  ASSUME NEW to \in Nat \ {0}
  PROVE  Rescale(0, 1, to) = 0
<1>1. (to \div 2) \div to = 0
  OBVIOUS
<1> QED BY <1>1 DEF Rescale

(* The parts that a time in a stream is moved by.                          *)
LEMMA ShiftFacts ==
  ASSUME ReadTypes, NEW s \in Streams
  PROVE  /\ Tb[s] \in Nat \ {0} /\ Offset(s) \in Int
         /\ Rescale(duration.ticks, duration.tb, Tb[s]) \in Int
         /\ Shift(s) \in Int
         /\ Shift(s) = Offset(s) + Rescale(duration.ticks, duration.tb, Tb[s])
         /\ duration = [ticks |-> 0, tb |-> 1] => Shift(s) = Offset(s)
<1>1. Tb[s] \in Nat \ {0} /\ TsOffset \in Int /\ 1 \in Nat
  BY StreamFacts, TimeAssumption
<1>2. duration.ticks \in Int /\ duration.tb \in Nat
  BY DEF ReadTypes
<1>3. Offset(s) \in Int /\ Rescale(duration.ticks, duration.tb, Tb[s]) \in Int
  BY <1>1, <1>2, RescaleType DEF Offset
<1>4. Rescale(0, 1, Tb[s]) = 0
  BY <1>1, RescaleZero
<1> HIDE DEF Offset
<1>5. Shift(s) = Offset(s) + Rescale(duration.ticks, duration.tb, Tb[s])
  BY DEF Shift, Offset
<1>6. duration = [ticks |-> 0, tb |-> 1] =>
        duration.ticks = 0 /\ duration.tb = 1
  OBVIOUS
<1> QED BY <1>1, <1>3, <1>4, <1>5, <1>6

(* The packets of the file.                                                *)
LEMMA FileFacts ==
  ASSUME ReadTypes
  PROVE  /\ DOMAIN file = 1 .. Len(file) /\ Len(file) \in Nat
         /\ pos \in Nat /\ pos <= Len(file)
         /\ \A j \in DOMAIN file :
              j \in Nat /\ file[j].stream \in Streams /\ file[j].pts \in Int
<1>1. file \in Seq([stream : Streams, pts : Int]) /\ pos \in 0 .. Len(file)
  BY DEF ReadTypes
<1>2. DOMAIN file = 1 .. Len(file) /\ Len(file) \in Nat
  BY <1>1, LenProperties
<1>3. \A j \in 1 .. Len(file) : file[j] \in [stream : Streams, pts : Int]
  BY <1>1, ElementOfSeq
<1>4. pos \in Nat /\ pos <= Len(file)
  BY <1>1, <1>2
<1> QED BY <1>2, <1>3, <1>4

(* A time of a packet is an integer.                                       *)
LEMMA PacketFacts ==
  ASSUME NEW m \in Messages, NEW s \in Streams, PacketOf(s, m)
  PROVE  m.pts \in Int /\ m.stream = s
  BY MessageKinds DEF PacketOf

(* What every step leaves as it was.                                       *)
LEMMA StepFrame ==
  ASSUME [Next]_vars
  PROVE  UNCHANGED <<file, audio>> /\ (failed => failed')
<1>1. UNCHANGED <<file, audio>>
  BY DEF Next, input_thread, MainStep, ReadPacket, ReadUnusable, ReadEnds, SendBlocks,
     SendPacket, SendLooping, SendRefused, SeekToStart, SeekFails, RecvDuration,
     GetPacket, GetNothing, Drain, Join, decode_flush, ifile_get_packet, ifile_close,
     Closed, WaitForEachOther, vars, options
<1>2. failed => failed'
  BY DEF Next, input_thread, MainStep, ReadPacket, ReadUnusable, ReadEnds, SendBlocks,
     SendPacket, SendLooping, SendRefused, SeekToStart, SeekFails, RecvDuration,
     GetPacket, GetNothing, Drain, Join, decode_flush, ifile_get_packet, ifile_close,
     Closed, WaitForEachOther, vars, thrVars, Finish
<1> QED BY <1>1, <1>2

(* A stream does not become steady.                                        *)
LEMMA SteadyBefore ==
  ASSUME [Next]_vars, NEW s, Steady(s)'
  PROVE  Steady(s) /\ Offset(s)' = Offset(s)
<1>1. UNCHANGED <<file, audio>> /\ (failed => failed')
  BY StepFrame
<1>2. Grows(s)' <=> Grows(s)
  BY <1>1 DEF Grows, Wrapped
<1>3. Offset(s)' = Offset(s)
  BY DEF Offset, Rescale
<1> QED BY <1>1, <1>2, <1>3 DEF Steady

-----------------------------------------------------------------------------
(* What a read tells: the next packet of the file, moved.                  *)
LEMMA ReadTells ==
  ASSUME TypeOK, ReadPacket
  PROVE  \E s \in Streams, p \in Int :
           /\ pos + 1 \in DOMAIN file /\ file[pos + 1].stream = s
           /\ msg' = Packet(s, p, pos + 1)
           /\ min_pts' = [min_pts EXCEPT ![s] = IF p < @ THEN p ELSE @]
           /\ max_pts' = [max_pts EXCEPT ![s] = IF p > @ THEN p ELSE @]
           /\ Grows(s) => p = file[pos + 1].pts + Shift(s)
<1>1. ReadTypes /\ pos < Len(file)
  BY TypeParts DEF ReadPacket
<1>2. pos + 1 \in DOMAIN file
  BY <1>1, FileFacts
<1>3. PICK s \in Streams : s = file[pos + 1].stream
  BY <1>1, <1>2, FileFacts
<1>4. PICK t \in Int : t = file[pos + 1].pts
  BY <1>1, <1>2, FileFacts
<1>5. ts_fixup(s, t)
  BY <1>3, <1>4 DEF ReadPacket
<1>6. Shift(s) \in Int /\ Wrap \in Int
  BY <1>1, ShiftFacts, TimeAssumption
<1>7. PICK p : p = (IF Wraps(s, t) THEN t - Wrap ELSE t) + Shift(s)
  OBVIOUS
<1>8. p \in Int
  BY <1>6, <1>7
<1>9. Grows(s) => ~Wraps(s, t)
  BY <1>2, <1>3, <1>4 DEF Grows, Wraps
<1>10. /\ msg' = Packet(s, p, pos + 1)
       /\ min_pts' = [min_pts EXCEPT ![s] = IF p < @ THEN p ELSE @]
       /\ max_pts' = [max_pts EXCEPT ![s] = IF p > @ THEN p ELSE @]
  BY <1>5, <1>7 DEF ts_fixup
<1> QED BY <1>2, <1>3, <1>4, <1>7, <1>8, <1>9, <1>10

(* A step that tells nothing and moves nothing keeps the times.            *)
LEMMA TimeKept ==
  ASSUME TypeOK, TimeInv, [Next]_vars, UNCHANGED max_pts,
         \A s, m : PacketOf(s, m) /\ IsTold(m)' => IsTold(m),
         thread' \in {"none", "read", "send"} =>
           thread \in {"none", "read", "send"} /\ UNCHANGED <<pos, duration>>
  PROVE  TimeInv'
<1> SUFFICES ASSUME NEW s \in Streams, Steady(s)', NEW m \in Messages, IsTold(m)',
                    PacketOf(s, m)
             PROVE  /\ m.pts <= max_pts'[s]
                    /\ thread' \in {"none", "read", "send"} => InPass(s, m.pts)'
  BY DEF TimeInv, PacketOf
<1>1. Steady(s) /\ file' = file
  BY StepFrame, SteadyBefore
<1>2. /\ m.pts <= max_pts[s]
      /\ thread \in {"none", "read", "send"} => InPass(s, m.pts)
  BY <1>1 DEF TimeInv
<1>3. UNCHANGED duration => Shift(s)' = Shift(s)
  BY DEF Shift, Rescale
<1>4. UNCHANGED <<pos, duration>> /\ InPass(s, m.pts) => InPass(s, m.pts)'
  BY <1>1, <1>3 DEF InPass
<1> QED BY <1>2, <1>4

(* A message that is sent, taken or thrown away was told before.           *)
LEMMA ToldKept ==
  ASSUME TypeOK, MsgReady
  PROVE  /\ (thread = "send" \/ IsLooping(msg))
              /\ msg \in Messages
              /\ in_thread_queue' = Append(in_thread_queue, msg)
              /\ UNCHANGED delivered /\ thread' # "send"
            => \A s, m : PacketOf(s, m) /\ IsTold(m)' => IsTold(m)
         /\ Recv /\ delivered' \in {delivered, Append(delivered, Head(in_thread_queue))}
              /\ UNCHANGED <<thread, msg>>
            => \A m : IsTold(m)' => IsTold(m)
<1>0. delivered \in Seq(Messages) /\ in_thread_queue \in Seq(Messages)
  BY DEF TypeOK
<1>1. /\ DOMAIN delivered = 1 .. Len(delivered) /\ Len(delivered) \in Nat
      /\ DOMAIN in_thread_queue = 1 .. Len(in_thread_queue)
      /\ Len(in_thread_queue) \in Nat
  BY <1>0, LenProperties
<1>2. ASSUME thread = "send" \/ IsLooping(msg), msg \in Messages,
             in_thread_queue' = Append(in_thread_queue, msg),
             UNCHANGED delivered, thread' # "send",
             NEW s, NEW m, PacketOf(s, m), IsTold(m)'
      PROVE  IsTold(m)
  <2>1. \A i \in DOMAIN in_thread_queue' :
          \/ i \in DOMAIN in_thread_queue /\ in_thread_queue'[i] = in_thread_queue[i]
          \/ in_thread_queue'[i] = msg
    BY <1>0, <1>1, <1>2, AppendProperties
  <2>2. m = msg => thread = "send"
    BY <1>2 DEF PacketOf
  <2> QED BY <1>2, <2>1, <2>2 DEF IsTold
<1>3. ASSUME Recv, UNCHANGED <<thread, msg>>,
             delivered' \in {delivered, Append(delivered, Head(in_thread_queue))},
             NEW m, IsTold(m)'
      PROVE  IsTold(m)
  <2>1. /\ in_thread_queue # <<>> /\ in_thread_queue' = Tail(in_thread_queue)
        /\ Head(in_thread_queue) \in Messages
    BY <1>3, RecvQueue DEF Recv
  <2>2. /\ DOMAIN in_thread_queue' = 1 .. Len(in_thread_queue) - 1
        /\ \A i \in 1 .. Len(in_thread_queue) - 1 :
             in_thread_queue'[i] = in_thread_queue[i + 1]
        /\ Head(in_thread_queue) = in_thread_queue[1]
        /\ Len(in_thread_queue) # 0
    BY <1>0, <2>1, HeadTailProperties, LenProperties, EmptySeq
  <2>3. /\ 1 \in DOMAIN in_thread_queue
        /\ \A i \in DOMAIN in_thread_queue' : i + 1 \in DOMAIN in_thread_queue
    BY <1>1, <2>2
  <2>4. \A i \in DOMAIN delivered' :
          \/ i \in DOMAIN delivered /\ delivered'[i] = delivered[i]
          \/ delivered'[i] = Head(in_thread_queue)
    <3>1. \A i \in DOMAIN Append(delivered, Head(in_thread_queue)) :
            \/ i \in DOMAIN delivered
                 /\ Append(delivered, Head(in_thread_queue))[i] = delivered[i]
            \/ Append(delivered, Head(in_thread_queue))[i] = Head(in_thread_queue)
      BY <1>0, <1>1, <2>1, AppendProperties
    <3> QED BY <1>3, <3>1
  <2> QED BY <1>3, <2>2, <2>3, <2>4 DEF IsTold
<1> QED BY <1>2, <1>3

(* A packet that is read comes behind what was told of its stream.         *)
LEMMA ReadKeepsTimes ==
  ASSUME TypeOK, TimeInv, LeastInv, FirstInv, RiseInv, ReadPacket
  PROVE  TimeInv' /\ LeastInv' /\ RiseInv'
<1>1. PICK s \in Streams, p \in Int :
           /\ pos + 1 \in DOMAIN file /\ file[pos + 1].stream = s
           /\ msg' = Packet(s, p, pos + 1)
           /\ min_pts' = [min_pts EXCEPT ![s] = IF p < @ THEN p ELSE @]
           /\ max_pts' = [max_pts EXCEPT ![s] = IF p > @ THEN p ELSE @]
           /\ Grows(s) => p = file[pos + 1].pts + Shift(s)
  BY ReadTells
<1>2. /\ thread = "read" /\ thread' = "send" /\ pos' = pos + 1
      /\ UNCHANGED <<file, audio, failed, pass, duration, delivered, in_thread_queue>>
  BY DEF ReadPacket, ts_fixup, options, queueVars, mainVars
<1>3. ReadTypes /\ pass \in Nat /\ [Next]_vars
  BY TypeParts DEF ReadTypes, Next, input_thread
<1>4. pos \in Nat /\ DOMAIN file \subseteq Nat
  BY <1>3, FileFacts
<1>5. /\ ~IsLooping(msg') /\ msg'.stream = s /\ msg'.pts = p
  BY <1>1, <1>3, <1>4, MessageFacts
<1>6. \A r \in Streams : min_pts[r] \in Int /\ max_pts[r] \in Int
  BY <1>3 DEF ReadTypes
<1>7. \A r \in Streams : min_pts'[r] <= min_pts[r] /\ max_pts[r] <= max_pts'[r]
  BY <1>1, <1>3, <1>6 DEF ReadTypes
<1>8. min_pts'[s] <= p /\ p <= max_pts'[s]
  BY <1>1, <1>3, <1>6 DEF ReadTypes
<1>9. \A r \in Streams : max_pts'[r] \in Int /\ min_pts'[r] \in Int
  BY <1>1, <1>3, <1>6 DEF ReadTypes
<1>10. ASSUME NEW r \in Streams, Steady(r)'
       PROVE  /\ Steady(r) /\ Shift(r)' = Shift(r) /\ Shift(r) \in Int
              /\ Offset(r)' = Offset(r) /\ Offset(r) \in Int
              /\ r = s => p = file[pos + 1].pts + Shift(s)
  <2>1. Steady(r) /\ Offset(r)' = Offset(r)
    BY <1>3, <1>10, SteadyBefore
  <2>2. Shift(r)' = Shift(r)
    BY <1>2 DEF Shift, Rescale
  <2>3. Shift(r) \in Int /\ Offset(r) \in Int
    BY <1>3, ShiftFacts
  <2> QED BY <1>1, <2>1, <2>2, <2>3 DEF Steady
<1>11. ASSUME NEW r \in Streams, Steady(r)', NEW m \in Messages, IsTold(m)',
              PacketOf(r, m)
       PROVE  m.pts <= max_pts'[r] /\ InPass(r, m.pts)'
  <2>1. CASE IsTold(m)
    <3>1. m.pts <= max_pts[r] /\ InPass(r, m.pts) /\ m.pts \in Int
      BY <1>2, <1>10, <1>11, <2>1, PacketFacts DEF TimeInv
    <3>2. m.pts <= max_pts'[r]
      BY <1>6, <1>7, <1>9, <3>1
    <3>3. \A j \in DOMAIN file : j <= pos => j <= pos'
      BY <1>2, <1>4
    <3>4. InPass(r, m.pts)'
      BY <1>2, <1>10, <1>11, <3>1, <3>3 DEF InPass
    <3> QED BY <3>2, <3>4
  <2>2. CASE m = msg'
    <3>1. r = s /\ m.pts = p
      BY <1>5, <1>11, <2>2 DEF PacketOf
    <3>2. m.pts = file[pos + 1].pts + Shift(r)'
      BY <1>10, <1>11, <3>1
    <3>3. pos + 1 <= pos'
      BY <1>2, <1>4
    <3>4. InPass(r, m.pts)'
      BY <1>1, <1>2, <3>1, <3>2, <3>3 DEF InPass
    <3> QED BY <1>8, <3>1, <3>4
  <2> QED BY <1>2, <1>11, <2>1, <2>2 DEF IsTold
<1>12. TimeInv'
  BY <1>11 DEF TimeInv, PacketOf
<1>13. ASSUME NEW r \in Streams, Steady(r)', NEW j \in DOMAIN file,
              file[j].stream = r, Read(j)'
       PROVE  min_pts'[r] <= file[j].pts + Offset(r)
  <2>1. file[j].pts + Offset(r) \in Int
    BY <1>3, <1>10, <1>13, FileFacts
  <2>2. CASE Read(j)
    <3>1. min_pts[r] <= file[j].pts + Offset(r)
      BY <1>10, <1>13, <2>2 DEF LeastInv
    <3> QED BY <1>6, <1>7, <1>9, <2>1, <3>1
  <2>3. CASE ~Read(j)
    <3>1. j <= pos + 1 /\ pass = 1 /\ ~(j <= pos) /\ j \in Nat
      BY <1>2, <1>4, <1>13, <2>3 DEF Read
    <3>2. j = pos + 1 /\ r = s
      BY <1>1, <1>4, <1>13, <3>1
    <3>3. duration = [ticks |-> 0, tb |-> 1]
      BY <1>2, <3>1 DEF FirstInv
    <3>4. Shift(r) = Offset(r)
      BY <1>3, <3>3, ShiftFacts
    <3>5. p = file[j].pts + Offset(r)
      BY <1>10, <1>13, <3>2, <3>4
    <3> QED BY <1>8, <3>2, <3>5
  <2> QED BY <2>2, <2>3
<1>14. LeastInv'
  <2>1. \A r \in Streams : Steady(r)' => Offset(r)' = Offset(r)
    BY <1>10
  <2> QED BY <1>2, <1>13, <2>1 DEF LeastInv
<1>15. ASSUME NEW r \in Streams, Steady(r)', PacketOf(r, msg'),
              NEW m \in Messages, IsTold(m), PacketOf(r, m)
       PROVE  m.pts <= msg'.pts
  <2>1. r = s /\ p = file[pos + 1].pts + Shift(s) /\ Steady(s) /\ Shift(s) \in Int
    BY <1>5, <1>10, <1>15 DEF PacketOf
  <2>2. InPass(s, m.pts) /\ m.pts \in Int /\ file[pos + 1].pts \in Int
    BY <1>1, <1>2, <1>3, <1>15, <2>1, PacketFacts, FileFacts DEF TimeInv
  <2>3. CASE \A j \in DOMAIN file : file[j].stream = s => m.pts <= file[j].pts + Shift(s)
    BY <1>1, <1>5, <2>1, <2>3
  <2>4. ASSUME NEW j \in DOMAIN file, j <= pos, file[j].stream = s,
               m.pts = file[j].pts + Shift(s)
        PROVE  m.pts <= msg'.pts
    <3>1. j < pos + 1
      BY <1>4, <2>4
    <3>2. file[j].pts < file[pos + 1].pts /\ file[j].pts \in Int
      BY <1>1, <1>3, <2>1, <2>4, <3>1, FileFacts DEF Steady, Grows
    <3> QED BY <1>5, <2>1, <2>2, <2>4, <3>2
  <2> QED BY <2>2, <2>3, <2>4 DEF InPass
<1>16. /\ \A i \in DOMAIN delivered : delivered[i] \in Messages /\ IsTold(delivered[i])
       /\ \A i \in DOMAIN in_thread_queue :
            in_thread_queue[i] \in Messages /\ IsTold(in_thread_queue[i])
  <2>1. delivered \in Seq(Messages) /\ in_thread_queue \in Seq(Messages)
    BY DEF TypeOK
  <2> QED BY <2>1, ElementOfSeq, LenProperties DEF IsTold
<1>17. ASSUME NEW r \in Streams, Steady(r)', PacketOf(r, msg')
       PROVE  Below(r, delivered, msg') /\ Below(r, in_thread_queue, msg')
  BY <1>15, <1>16, <1>17 DEF Below
<1>18. RiseInv'
  <2> SUFFICES ASSUME NEW r \in Streams, Steady(r)'
               PROVE  /\ Rising(r, delivered) /\ Rising(r, in_thread_queue)
                      /\ \A i \in DOMAIN in_thread_queue :
                           PacketOf(r, in_thread_queue[i]) =>
                             Below(r, delivered, in_thread_queue[i])
                      /\ PacketOf(r, msg') =>
                           Below(r, delivered, msg') /\ Below(r, in_thread_queue, msg')
    BY <1>2 DEF RiseInv, Rising, Below, PacketOf
  <2>1. Steady(r)
    BY <1>10
  <2> QED BY <1>17, <2>1 DEF RiseInv
<1> QED BY <1>12, <1>14, <1>18

(* When the thread starts over, the longest stream was counted.            *)
LEMMA RestartKeepsTimes ==
  ASSUME TypeOK, TypeOK', TimeInv, LeastInv, FirstInv', [Next]_vars, Restart,
         thread \in {"seek", "durations"},
         UNCHANGED <<min_pts, max_pts, delivered, in_thread_queue>>,
         \A s \in Streams : Steady(s) => Counted(s)'
  PROVE  TimeInv'
<1>1. thread' = "read" /\ UNCHANGED file
  BY StepFrame DEF Restart
<1>2. ReadTypes /\ duration' \in [ticks : Int, tb : Nat \ {0}] /\ duration'.ticks >= 0
  BY TypeParts DEF TypeOK, FirstInv
<1> SUFFICES ASSUME NEW s \in Streams, Steady(s)', NEW m \in Messages, IsTold(m)',
                    PacketOf(s, m)
             PROVE  m.pts <= max_pts[s] /\ InPass(s, m.pts)'
  BY DEF TimeInv, PacketOf
<1>3. Steady(s) /\ IsTold(m)
  BY <1>1, SteadyBefore DEF IsTold
<1>4. m.pts <= max_pts[s] /\ m.pts \in Int
  BY <1>3, PacketFacts DEF TimeInv
<1>5. min_pts[s] \in Int /\ max_pts[s] \in Int /\ Offset(s) \in Int /\ Tb[s] \in Nat \ {0}
  BY <1>2, ShiftFacts DEF ReadTypes
<1>6. PICK x \in Nat, y \in Nat : x = duration'.ticks /\ y = duration'.tb
  BY <1>2
<1>7. PICK k \in Int : k = max_pts[s] - min_pts[s]
  BY <1>5
<1>8. Tb[s] * k <= x * y
  BY <1>3, <1>6, <1>7 DEF Counted, TimeOf
<1>9. k <= Rescale(x, y, Tb[s]) /\ Rescale(x, y, Tb[s]) \in Int
  <2>1. PICK b \in Nat \ {0} : b = Tb[s]
    BY <1>5
  <2>2. b * k <= x * y
    BY <1>8, <2>1
  <2>3. k <= Rescale(x, y, b)
    BY <2>2, RescaleLeast
  <2>4. x \in Int
    OBVIOUS
  <2>5. Rescale(x, y, b) \in Int
    BY <2>4, RescaleType
  <2> QED BY <2>1, <2>3, <2>5
<1>10. Shift(s)' = Offset(s) + Rescale(x, y, Tb[s])
  BY <1>6 DEF Shift, Offset, Rescale
<1>11. ASSUME NEW j \in DOMAIN file, file[j].stream = s
       PROVE  m.pts <= file[j].pts + Shift(s)'
  <2>1. min_pts[s] <= file[j].pts + Offset(s)
    BY <1>3, <1>11 DEF LeastInv, Read
  <2>2. file[j].pts \in Int
    BY <1>2, FileFacts
  <2> HIDE DEF Offset
  <2> QED BY <1>4, <1>5, <1>7, <1>9, <1>10, <2>1, <2>2
<1> QED BY <1>1, <1>4, <1>11 DEF InPass

(* min_pts still is not behind the times of the first pass.                *)
LEMMA LeastKept ==
  ASSUME LeastInv, [Next]_vars, UNCHANGED min_pts,
         \A j \in DOMAIN file : ~failed' /\ Read(j)' => Read(j)
  PROVE  LeastInv'
<1> SUFFICES ASSUME NEW s \in Streams, Steady(s)', NEW j \in DOMAIN file,
                    file[j].stream = s, Read(j)'
             PROVE  min_pts[s] <= file[j].pts + Offset(s)'
  BY StepFrame DEF LeastInv
<1>1. Steady(s) /\ Offset(s)' = Offset(s) /\ ~failed'
  BY SteadyBefore DEF Steady
<1> QED BY <1>1 DEF LeastInv

(* Other steps of the thread than ReadPacket and Restart.                  *)
LEMMA LeastSteps ==
  ASSUME TypeOK, LeastInv, FirstInv, FirstInv', [Next]_vars, ~ReadPacket
  PROVE  LeastInv'
<1>1. ReadTypes
  BY TypeParts
<1>2. UNCHANGED min_pts
  BY DEF Next, input_thread, MainStep, ReadUnusable, ReadEnds, SendBlocks, SendPacket,
     SendLooping, SendRefused, SeekToStart, SeekFails, RecvDuration, GetPacket,
     GetNothing, Drain, Join, decode_flush, ifile_get_packet, ifile_close, Closed,
     WaitForEachOther, vars, timeVars
<1>3. \/ UNCHANGED <<pos, pass>>
      \/ thread \in {"seek", "durations"}
  BY DEF Next, input_thread, MainStep, ReadUnusable, ReadEnds, SendBlocks, SendPacket,
     SendLooping, SendRefused, SeekToStart, SeekFails, RecvDuration, GetPacket,
     GetNothing, Drain, Join, decode_flush, ifile_get_packet, ifile_close, Closed,
     WaitForEachOther, vars, readVars
<1>4. ASSUME UNCHANGED <<pos, pass>>, NEW j \in DOMAIN file, ~failed', Read(j)'
      PROVE  Read(j)
  <2>1. CASE thread' \in {"sendLooping", "seek", "durations"}
    <3>1. pos = Len(file)
      BY <1>4, <2>1, StepFrame DEF FirstInv
    <3> QED BY <1>1, <1>4, <3>1, FileFacts DEF Read
  <2>2. CASE thread' \notin {"sendLooping", "seek", "durations"}
    BY <1>4, <2>2 DEF Read
  <2> QED BY <2>1, <2>2
<1>5. thread \in {"seek", "durations"} => \A j : Read(j)
  BY DEF Read
<1> QED BY <1>2, <1>3, <1>4, <1>5, LeastKept

(* Lengths of streams are not negative.                                    *)
LEMMA ExtentFacts ==
  ASSUME ReadTypes, NEW s \in Streams, NEW last \in Nat
  PROVE  /\ Extent(s, last).ticks \in Nat /\ Extent(s, last).tb = Tb[s]
         /\ max_pts[s] - min_pts[s] <= Extent(s, last).ticks
<1>1. max_pts[s] \in Int /\ min_pts[s] \in Int
  BY DEF ReadTypes
<1>2. PICK e : e = IF max_pts[s] > min_pts[s]
                   THEN last + max_pts[s] - min_pts[s] ELSE last
  OBVIOUS
<1>3. e \in Nat /\ max_pts[s] - min_pts[s] <= e
  BY <1>1, <1>2
<1> QED BY <1>2, <1>3 DEF Extent

(* A duration that is as long as a stream counts it.                       *)
LEMMA ExtentCounts ==
  ASSUME ReadTypes, NEW s \in Streams, NEW last \in Nat, NEW d \in Int,
         TimeOf(Extent(s, last)) <= d
  PROVE  Tb[s] * (max_pts[s] - min_pts[s]) <= d
<1>1. max_pts[s] \in Int /\ min_pts[s] \in Int /\ Tb[s] \in Nat \ {0}
  BY StreamFacts DEF ReadTypes
<1>2. PICK k \in Int : k = max_pts[s] - min_pts[s]
  BY <1>1
<1>3. PICK e \in Nat : e = Extent(s, last).ticks
  BY ExtentFacts
<1>4. PICK b \in Nat \ {0} : b = Tb[s]
  BY <1>1
<1>5. k <= e /\ e * b <= d
  BY <1>2, <1>3, <1>4, ExtentFacts DEF TimeOf
<1>6. b * k <= e * b
  <2>1. PICK n \in Nat : e = k + n
    BY <1>5, e - k \in Nat
  <2>2. e * b = b * k + b * n /\ b * n \in Nat /\ b * k \in Int
    BY <2>1
  <2> QED BY <2>2
<1>7. b * k \in Int /\ e * b \in Int
  OBVIOUS
<1>8. b * k <= d
  BY <1>5, <1>6, <1>7
<1> QED BY <1>2, <1>4, <1>8

(* The duration does not shrink when one stream is counted, ...            *)
LEMMA UpdateCounts ==
  ASSUME ReadTypes, duration.ticks \in Nat, NEW s \in Streams, NEW last \in Nat,
         duration' = ifile_duration_update(s, last)
  PROVE  /\ duration'.ticks \in Nat /\ TimeOf(duration) <= TimeOf(duration')
         /\ TimeOf(duration') \in Int /\ TimeOf(duration) \in Int
         /\ TimeOf(Extent(s, last)) <= TimeOf(duration')
<1>1. PICK x \in Nat, y \in Nat \ {0} : x = duration.ticks /\ y = duration.tb
  BY DEF ReadTypes
<1>2. PICK e \in Nat, b \in Nat \ {0} :
        e = Extent(s, last).ticks /\ b = Extent(s, last).tb
  BY ExtentFacts, StreamFacts
<1>3. PICK z \in Nat, w \in Nat : z = x * y /\ w = e * b
  OBVIOUS
<1>4. TimeOf(duration) = z /\ TimeOf(Extent(s, last)) = w /\ (x = 0 => z = 0)
  BY <1>1, <1>2, <1>3 DEF TimeOf
<1>5. duration' = IF x = 0 \/ z < w THEN Extent(s, last) ELSE duration
  BY <1>1, <1>4 DEF ifile_duration_update
<1>6. CASE x = 0 \/ z < w
  <2>1. duration' = Extent(s, last) /\ z <= w
    BY <1>4, <1>5, <1>6
  <2> QED BY <1>2, <1>4, <2>1
<1>7. CASE ~(x = 0 \/ z < w)
  <2>1. duration' = duration /\ w <= z
    BY <1>5, <1>7
  <2> QED BY <1>4, <2>1
<1> QED BY <1>6, <1>7

(* ... or all are.                                                         *)
LEMMA SeekCounts ==
  ASSUME TypeOK, TypeOK', FirstInv, SeekToStart, audio = {}
  PROVE  /\ duration'.ticks \in Nat /\ Restart
         /\ \A s \in Streams : Counted(s)'
<1>1. ReadTypes
  BY TypeParts
<1>2. PICK d \in {duration} \cup {Extent(s, LastFrame[s]) : s \in Streams} :
        /\ \A s \in Streams : TimeOf(Extent(s, LastFrame[s])) <= TimeOf(d)
        /\ duration' = d
  BY DEF SeekToStart
<1>3. Restart /\ UNCHANGED <<min_pts, max_pts>>
  BY DEF SeekToStart
<1>4. d.ticks \in Nat
  <2>1. \A s \in Streams : Extent(s, LastFrame[s]).ticks \in Nat
    BY <1>1, StreamFacts, ExtentFacts
  <2>2. duration.ticks \in Nat
    BY DEF TypeOK, FirstInv
  <2> QED BY <1>2, <2>1, <2>2
<1>5. d \in [ticks : Int, tb : Nat \ {0}]
  BY <1>2 DEF TypeOK
<1>6. TimeOf(d) \in Int
  BY <1>5 DEF TimeOf
<1>7. ASSUME NEW s \in Streams
      PROVE  Counted(s)'
  <2>1. LastFrame[s] \in Nat /\ TimeOf(Extent(s, LastFrame[s])) <= TimeOf(d)
    BY <1>2, StreamFacts
  <2>2. Tb[s] * (max_pts[s] - min_pts[s]) <= TimeOf(d)
    BY <1>1, <1>6, <2>1, ExtentCounts
  <2> QED BY <1>2, <1>3, <2>2 DEF Counted, TimeOf
<1> QED BY <1>2, <1>3, <1>4, <1>7

-----------------------------------------------------------------------------
(* A duration that is received counts its stream.                          *)
LEMMA DurationCounted ==
  ASSUME TypeOK, FirstInv, RecvDuration
  PROVE  /\ duration'.ticks \in Nat
         /\ \A s \in audio :
              s = Head(audio_duration_queue).stream \/ Counted(s) => Counted(s)'
<1>1. /\ audio_duration_queue # <<>> /\ UNCHANGED <<min_pts, max_pts>>
      /\ duration' = ifile_duration_update(Head(audio_duration_queue).stream,
                                           Head(audio_duration_queue).samples)
  BY DEF RecvDuration
<1>2. PICK r, n : r = Head(audio_duration_queue).stream
                    /\ n = Head(audio_duration_queue).samples
  OBVIOUS
<1>3. r \in audio /\ n \in Nat /\ audio \subseteq Streams /\ ReadTypes
      /\ duration.ticks \in Nat
  <2>1. r \in audio /\ n \in Nat
    BY <1>1, <1>2, DurationQueue
  <2>2. audio \subseteq Streams /\ ReadTypes /\ duration.ticks \in Int
    BY TypeParts DEF TypeOK
  <2> QED BY <2>1, <2>2 DEF FirstInv
<1>4. /\ duration'.ticks \in Nat /\ TimeOf(duration) <= TimeOf(duration')
      /\ TimeOf(duration') \in Int /\ TimeOf(duration) \in Int
      /\ TimeOf(Extent(r, n)) <= TimeOf(duration')
  BY <1>1, <1>2, <1>3, UpdateCounts
<1>5. PICK d \in Int : d = TimeOf(duration')
  BY <1>4
<1>6. Counted(r)'
  <2>1. Tb[r] * (max_pts[r] - min_pts[r]) <= d
    BY <1>3, <1>4, <1>5, ExtentCounts
  <2> QED BY <1>1, <1>5, <2>1 DEF Counted, TimeOf
<1>7. ASSUME NEW s \in audio, Counted(s)
      PROVE  Counted(s)'
  <2>1. max_pts[s] \in Int /\ min_pts[s] \in Int /\ Tb[s] \in Int
    BY <1>3, StreamFacts DEF ReadTypes
  <2>2. PICK e \in Int : e = Tb[s] * (max_pts[s] - min_pts[s])
    BY <2>1
  <2>3. e <= TimeOf(duration)
    BY <1>7, <2>2 DEF Counted
  <2>4. e <= d
    BY <1>4, <1>5, <2>3
  <2> QED BY <1>1, <1>5, <2>2, <2>4 DEF Counted, TimeOf
<1>8. ASSUME NEW s \in audio, s = Head(audio_duration_queue).stream
      PROVE  Counted(s)'
  BY <1>2, <1>6, <1>8
<1> QED BY <1>4, <1>7, <1>8

(* The last duration of a pass: no stream is pending behind it.            *)
LEMMA LastIsCounted ==
  ASSUME TypeOK, DurationInv, MarkInv, FirstInv, CountInv, RecvDuration,
         got_durations' = Cardinality(audio), NEW s \in audio
  PROVE  Counted(s)'
<1>1. /\ thread = "durations" /\ audio_duration_queue # <<>>
      /\ Cardinality(audio) = got_durations + 1
  BY DEF RecvDuration
<1>2. /\ Cardinality(audio) \in Nat /\ got_durations \in Nat /\ Left \in Nat
      /\ Len(audio_duration_queue) \in Nat /\ Len(audio_duration_queue) # 0
      /\ main = "flush" => (Left = 0 <=> audio \subseteq flushed)
  BY <1>1, CountTypes
<1>3. /\ audio # {} /\ got_durations + Len(audio_duration_queue) <= Cardinality(audio)
  BY <1>1 DEF DurationInv
<1>4. Len(audio_duration_queue) = 1
  <2>1. \A n \in Nat, g \in Nat : n # 0 /\ g + n <= g + 1 => n = 1
    OBVIOUS
  <2> QED BY <1>1, <1>2, <1>3, <2>1
<1>5. Open => NoMark /\ (main = "flush" => s \in flushed)
  <2> SUFFICES ASSUME Open
               PROVE  NoMark /\ (main = "flush" => s \in flushed)
    OBVIOUS
  <2>1. NoMark /\ Got + Len(audio_duration_queue) + Left = Cardinality(audio)
    BY <1>1, <1>3 DEF MarkInv
  <2>2. Got = got_durations
    BY <1>1 DEF Got
  <2>3. Left = 0
    <3>1. \A l \in Nat, g \in Nat : g + 1 + l = g + 1 => l = 0
      OBVIOUS
    <3> QED BY <1>1, <1>2, <1>4, <2>1, <2>2, <3>1
  <2> QED BY <1>2, <2>1, <2>3
<1>6. ~Open => NoMark /\ main # "flush"
  BY <1>1 DEF CountInv, Open
<1>7. Pending(s) \/ Counted(s)
  BY <1>1 DEF CountInv
<1>8. CASE Counted(s)
  BY <1>8, DurationCounted
<1>9. CASE Pending(s)
  <2>1. PICK i \in DOMAIN audio_duration_queue : audio_duration_queue[i].stream = s
    BY <1>1, <1>5, <1>6, <1>9 DEF Pending
  <2>2. audio_duration_queue \in Seq([stream : audio, samples : Nat, pass : Nat])
    BY DEF TypeOK
  <2>3. i = 1
    <3>1. DOMAIN audio_duration_queue = 1 .. Len(audio_duration_queue)
      BY <2>2, LenProperties
    <3>2. i \in 1 .. 1
      BY <1>4, <2>1, <3>1
    <3> QED BY <3>2
  <2>4. Head(audio_duration_queue) = audio_duration_queue[1]
    OBVIOUS
  <2> QED BY <2>1, <2>3, <2>4, DurationCounted
<1> QED BY <1>7, <1>8, <1>9

(* The first pass and the end of a pass.                                   *)
LEMMA FirstStep ==
  ASSUME TypeOK, TypeOK', FirstInv, [Next]_vars
  PROVE  FirstInv'
<1>1. ReadTypes /\ pass \in Nat /\ pos \in Nat /\ UNCHANGED file /\ (failed => failed')
      /\ Len(file) \in Nat
  BY TypeParts, FileFacts, StepFrame DEF ReadTypes
<1>2. CASE RecvDuration
  <2>1. duration'.ticks \in Nat /\ thread = "durations"
    BY <1>2, DurationCounted DEF RecvDuration
  <2>2. CASE Restart
    <3>1. thread' = "read" /\ pass' # 0 /\ pass' # 1
      BY <1>1, <2>2 DEF Restart, FirstInv
    <3> QED BY <2>1, <3>1 DEF FirstInv
  <2>3. CASE UNCHANGED <<thread, readVars>>
    BY <1>1, <2>1, <2>3 DEF FirstInv, readVars
  <2> QED BY <1>2, <2>2, <2>3 DEF RecvDuration
<1>3. CASE SeekToStart
  <2>1. thread = "seek"
    BY <1>3 DEF SeekToStart
  <2>2. CASE audio = {}
    <3>1. Restart /\ duration'.ticks \in Nat
      BY <1>3, <2>2, SeekCounts
    <3>2. thread' = "read" /\ pass' # 0 /\ pass' # 1
      BY <1>1, <3>1 DEF Restart, FirstInv
    <3> QED BY <3>1, <3>2 DEF FirstInv
  <2>3. CASE audio # {}
    <3>1. thread' = "durations" /\ UNCHANGED <<readVars, duration>>
      BY <1>3, <2>3 DEF SeekToStart
    <3> QED BY <1>1, <2>1, <3>1 DEF FirstInv, readVars
  <2> QED BY <2>2, <2>3
<1>4. CASE ReadPacket
  <2>1. thread = "read" /\ thread' = "send" /\ UNCHANGED <<pass, duration>>
    BY <1>4 DEF ReadPacket, ts_fixup
  <2> QED BY <2>1 DEF FirstInv
<1>5. CASE ReadEnds
  <2>1. thread = "read" /\ UNCHANGED <<pass, pos, duration>>
    BY <1>5 DEF ReadEnds, readVars, timeVars
  <2>2. CASE thread' = "sendLooping" /\ msg' = Looping
               /\ failed' = (failed \/ pos < Len(file))
    <3>1. IsLooping(msg') /\ (~failed' => pos = Len(file))
      <4>1. pos <= Len(file)
        BY <1>1, FileFacts
      <4>2. ~failed' => ~(pos < Len(file))
        BY <2>2
      <4>3. ~failed' => pos = Len(file)
        BY <1>1, <4>1, <4>2
      <4>4. IsLooping(msg')
        BY <2>2 DEF Looping, IsLooping
      <4> QED BY <4>3, <4>4
    <3> QED BY <1>1, <2>1, <2>2, <3>1 DEF FirstInv
  <2>3. CASE thread' = "ended"
    BY <2>1, <2>3 DEF FirstInv
  <2> QED BY <1>5, <2>2, <2>3 DEF ReadEnds, Finish
<1>6. ASSUME UNCHANGED <<pass, pos, duration, msg>>, thread' = thread
                \/ thread' = "ended"
                \/ (thread = "none" /\ thread' = "read")
                \/ (thread = "send" /\ thread' = "read")
                \/ (thread = "sendLooping" /\ thread' = "seek")
      PROVE  FirstInv'
  BY <1>1, <1>6 DEF FirstInv
<1>7. CASE ReadUnusable \/ SeekFails
  BY <1>6, <1>7 DEF ReadUnusable, SeekFails, Finish, readVars, timeVars
<1>8. CASE SendRefused \/ SendPacket \/ SendLooping
  <2>1. UNCHANGED <<pass, pos, duration>>
    BY <1>8 DEF SendRefused, SendPacket, SendLooping, readVars, timeVars
  <2>2. \/ thread' = "ended" \/ (thread = "send" /\ thread' = "read")
        \/ (thread = "sendLooping" /\ thread' = "seek")
    BY <1>8 DEF SendRefused, SendPacket, SendLooping, Finish
  <2> QED BY <1>1, <2>1, <2>2 DEF FirstInv
<1>9. CASE SendBlocks
  BY <1>6, <1>9 DEF SendBlocks, readVars, timeVars
<1>10. CASE ~input_thread
  <2>1. UNCHANGED <<pass, pos, duration, msg>>
    BY <1>10 DEF Next, MainStep, GetPacket, GetNothing, Drain, Join, decode_flush,
       ifile_get_packet, ifile_close, Closed, WaitForEachOther, vars, readVars,
       timeVars, thrVars
  <2>2. thread' = thread \/ (thread = "none" /\ thread' = "read")
    BY <1>10, MainFrame DEF ifile_get_packet
  <2> QED BY <1>6, <2>1, <2>2
<1> QED BY <1>2, <1>3, <1>4, <1>5, <1>7, <1>8, <1>9, <1>10 DEF input_thread

(* The durations that are still to come, after a step of the thread ...    *)
LEMMA CountThreadStep ==
  ASSUME TypeOK, MsgReady, DurationInv, FirstInv, CountInv, input_thread
  PROVE  CountInv'
<1>1. /\ UNCHANGED <<main, flushed, audio>> /\ Open' = Open
  BY DEF input_thread, ReadPacket, ReadUnusable, ReadEnds, SendBlocks, SendPacket,
     SendLooping, SendRefused, SeekToStart, SeekFails, RecvDuration, options,
     mainVars, Open
<1>2. UNCHANGED in_thread_queue => NoMark' = NoMark
  BY DEF NoMark
<1>3. ASSUME thread' \notin {"seek", "durations"}
      PROVE  CountInv'
  BY <1>3 DEF CountInv
<1>4. CASE SendLooping
  <2>1. /\ thread = "sendLooping" /\ thread' = "seek" /\ audio_duration_queue' = <<>>
        /\ in_thread_queue' = Append(in_thread_queue, msg)
    BY <1>4 DEF SendLooping, Send, DurationInv
  <2>2. IsLooping(msg) /\ msg \in Messages
    BY <2>1 DEF FirstInv, MsgReady
  <2>3. ~NoMark'
    <3>1. in_thread_queue \in Seq(Messages) /\ Len(in_thread_queue) \in Nat
      BY LenProperties DEF TypeOK
    <3>2. /\ in_thread_queue'[Len(in_thread_queue) + 1] = msg
          /\ DOMAIN in_thread_queue' = 1 .. Len(in_thread_queue) + 1
      BY <2>1, <2>2, <3>1, AppendProperties, LenProperties
    <3>3. Len(in_thread_queue) + 1 \in DOMAIN in_thread_queue'
      BY <3>1, <3>2
    <3> QED BY <2>2, <3>2, <3>3 DEF NoMark
  <2> QED BY <2>1, <2>3 DEF CountInv, Pending
<1>5. CASE SeekToStart
  <2>1. CASE audio = {}
    BY <1>3, <1>5, <2>1 DEF SeekToStart, Restart
  <2>2. CASE audio # {}
    <3>1. /\ thread = "seek" /\ thread' = "durations" /\ got_durations' = 0
          /\ UNCHANGED <<in_thread_queue, audio_duration_queue>>
      BY <1>5, <2>2 DEF SeekToStart, queueVars
    <3>2. \A s : Pending(s) => Pending(s)'
      BY <1>1, <1>2, <3>1 DEF Pending
    <3>3. Got = 0 /\ Got' = 0
      BY <3>1 DEF Got
    <3> QED BY <1>1, <1>2, <3>1, <3>2, <3>3 DEF CountInv
  <2> QED BY <2>1, <2>2
<1>6. CASE RecvDuration
  <2>1. /\ thread = "durations" /\ audio_duration_queue # <<>>
        /\ audio_duration_queue' = Tail(audio_duration_queue)
        /\ got_durations' = got_durations + 1
        /\ UNCHANGED in_thread_queue
    BY <1>6 DEF RecvDuration, queueVars
  <2>2. CASE Restart
    BY <1>3, <2>2 DEF Restart
  <2>3. CASE UNCHANGED thread
    <3>1. /\ audio_duration_queue \in Seq([stream : audio, samples : Nat, pass : Nat])
          /\ Len(audio_duration_queue) \in Nat
      BY LenProperties DEF TypeOK
    <3>2. /\ DOMAIN audio_duration_queue = 1 .. Len(audio_duration_queue)
          /\ DOMAIN audio_duration_queue' = 1 .. Len(audio_duration_queue) - 1
          /\ \A i \in 1 .. Len(audio_duration_queue) - 1 :
               audio_duration_queue'[i] = audio_duration_queue[i + 1]
          /\ Head(audio_duration_queue) = audio_duration_queue[1]
          /\ Len(audio_duration_queue') = Len(audio_duration_queue) - 1
      BY <2>1, <3>1, HeadTailProperties, LenProperties
    <3>3. ASSUME NEW s \in audio
          PROVE  (Pending(s) \/ Counted(s))'
      <4>1. Pending(s) \/ Counted(s)
        BY <2>1 DEF CountInv
      <4>2. CASE Counted(s)
        BY <1>6, <4>2, DurationCounted
      <4>3. ASSUME NEW i \in DOMAIN audio_duration_queue,
                   audio_duration_queue[i].stream = s
            PROVE  (Pending(s) \/ Counted(s))'
        <5>1. CASE i = 1
          BY <1>6, <3>2, <4>3, <5>1, DurationCounted
        <5>2. CASE i # 1
          <6>1. /\ i - 1 \in DOMAIN audio_duration_queue'
                /\ audio_duration_queue'[i - 1] = audio_duration_queue[i]
            BY <3>1, <3>2, <4>3, <5>2
          <6> QED BY <4>3, <6>1 DEF Pending
        <5> QED BY <5>1, <5>2
      <4>4. CASE (main = "flush" /\ s \notin flushed) \/ ~NoMark
        BY <1>1, <1>2, <2>1, <4>4 DEF Pending
      <4> QED BY <2>1, <4>1, <4>2, <4>3, <4>4 DEF Pending
    <3>4. ~Open => NoMark /\ Got' + Len(audio_duration_queue') = Cardinality(audio)
      <4>1. ~Open => NoMark /\ Got + Len(audio_duration_queue) = Cardinality(audio)
        BY <2>1 DEF CountInv
      <4>2. Got = got_durations /\ Got' = got_durations + 1 /\ got_durations \in Nat
        BY <2>1, <2>3, CountTypes DEF Got
      <4>3. got_durations + 1 + (Len(audio_duration_queue) - 1)
              = got_durations + Len(audio_duration_queue)
        BY <3>1, <4>2
      <4> QED BY <3>2, <4>1, <4>2, <4>3
    <3> QED BY <1>1, <1>2, <2>1, <2>3, <3>3, <3>4 DEF CountInv
  <2> QED BY <1>6, <2>2, <2>3 DEF RecvDuration
<1>7. CASE ReadPacket \/ ReadUnusable \/ ReadEnds \/ SendBlocks
  BY <1>3, <1>7 DEF ReadPacket, ReadUnusable, ReadEnds, SendBlocks, Finish
<1>8. CASE SendPacket \/ SendRefused \/ SeekFails
  BY <1>3, <1>8 DEF SendPacket, SendRefused, SeekFails, Finish
<1> QED BY <1>4, <1>5, <1>6, <1>7, <1>8 DEF input_thread

(* ... and of the main thread.                                             *)
LEMMA CountMainStep ==
  ASSUME TypeOK, OrderInv, DurationInv, MarkInv, CountInv, [Next]_vars, ~input_thread
  PROVE  CountInv'
<1>1. /\ UNCHANGED <<audio, got_durations, min_pts, max_pts, duration>>
      /\ ~ifile_get_packet => UNCHANGED thread
  BY MainFrame
     DEF Next, input_thread, MainStep, GetPacket, GetNothing, Drain, Join,
     decode_flush, ifile_get_packet, ifile_close, Closed, WaitForEachOther, vars,
     options, timeVars, thrVars
<1>2. \A s : Counted(s) => Counted(s)'
  BY <1>1 DEF Counted, TimeOf
<1>3. UNCHANGED in_thread_queue => NoMark' = NoMark
  BY DEF NoMark
<1>4. UNCHANGED thread => Got' = Got
  BY <1>1 DEF Got
<1>5. ASSUME UNCHANGED thread, \A s \in audio : Pending(s) => Pending(s)', Open'
      PROVE  CountInv'
  BY <1>1, <1>2, <1>5 DEF CountInv
<1>6. CASE ifile_get_packet
  <2>1. /\ main = "run" /\ main' \in {"run", "recv"} /\ Open /\ Open'
        /\ UNCHANGED <<in_thread_queue, audio_duration_queue, flushed>>
        /\ UNCHANGED thread \/ (thread = "none" /\ thread' = "read")
    BY <1>6 DEF ifile_get_packet, queueVars, Open
  <2>2. \A s : Pending(s) => Pending(s)'
    BY <1>3, <2>1 DEF Pending
  <2> QED BY <1>5, <2>1, <2>2 DEF CountInv
<1>7. CASE GetPacket
  <2>1. /\ main = "recv" /\ in_thread_queue # <<>> /\ Open /\ Open'
        /\ in_thread_queue' = Tail(in_thread_queue)
        /\ UNCHANGED <<audio_duration_queue, thread>>
        /\ IF IsLooping(Head(in_thread_queue)) THEN main' = "flush" /\ flushed' = {}
           ELSE main' = "run" /\ UNCHANGED flushed
    BY <1>7 DEF GetPacket, Recv, thrVars, Open
  <2>2. CASE IsLooping(Head(in_thread_queue))
    BY <1>5, <2>1, <2>2 DEF Pending
  <2>3. CASE ~IsLooping(Head(in_thread_queue))
    <3>1. ~NoMark => ~NoMark'
      <4>1. in_thread_queue \in Seq(Messages) /\ Len(in_thread_queue) \in Nat
        BY LenProperties DEF TypeOK
      <4>2. /\ DOMAIN in_thread_queue = 1 .. Len(in_thread_queue)
            /\ DOMAIN in_thread_queue' = 1 .. Len(in_thread_queue) - 1
            /\ \A i \in 1 .. Len(in_thread_queue) - 1 :
                 in_thread_queue'[i] = in_thread_queue[i + 1]
            /\ Head(in_thread_queue) = in_thread_queue[1]
        BY <2>1, <4>1, HeadTailProperties, LenProperties
      <4>3. \A i \in DOMAIN in_thread_queue :
              i # 1 => /\ i - 1 \in DOMAIN in_thread_queue'
                       /\ in_thread_queue'[i - 1] = in_thread_queue[i]
        BY <4>1, <4>2
      <4> QED BY <2>3, <4>2, <4>3 DEF NoMark
    <3>2. \A s : Pending(s) => Pending(s)'
      BY <2>1, <3>1 DEF Pending
    <3> QED BY <1>5, <2>1, <3>2
  <2> QED BY <2>2, <2>3
<1>8. CASE GetNothing
  <2>1. /\ main = "recv" /\ main' = "run" /\ Open /\ Open'
        /\ UNCHANGED <<in_thread_queue, audio_duration_queue, flushed, thread>>
    BY <1>8 DEF GetNothing, queueVars, thrVars, Open
  <2>2. \A s : Pending(s) => Pending(s)'
    BY <1>3, <2>1 DEF Pending
  <2> QED BY <1>5, <2>1, <2>2
<1>9. CASE Drain
  <2>1. /\ main = "drain" /\ main' \in {"drain", "join"} /\ ~Open /\ ~Open'
        /\ UNCHANGED <<audio_duration_queue, flushed, thread>>
        /\ \/ in_thread_queue # <<>> /\ in_thread_queue' = Tail(in_thread_queue)
           \/ UNCHANGED in_thread_queue
    BY <1>9 DEF Drain, Recv, queueVars, thrVars, Open
  <2>2. NoMark => NoMark'
    BY <1>3, <2>1, MarkTaken
  <2>3. thread \in {"seek", "durations"} /\ ~NoMark => audio_duration_queue = <<>>
    BY <2>1 DEF CountInv
  <2>4. ASSUME NEW s, Pending(s), thread \in {"seek", "durations"}
        PROVE  Pending(s)'
    BY <2>1, <2>3, <2>4 DEF Pending
  <2> QED BY <1>1, <1>2, <1>4, <2>1, <2>2, <2>4 DEF CountInv
<1>10. CASE Join
  <2>1. thread = "ended" /\ thread' = "ended"
    BY <1>10 DEF Join, thrVars
  <2> QED BY <2>1 DEF CountInv
<1>11. CASE \E s \in Streams : decode_flush(s)
  <2>1. PICK s \in Streams : decode_flush(s)
    BY <1>11
  <2>2. /\ main = "flush" /\ flushed' = flushed \cup {s} /\ Open
        /\ main' = IF flushed' = Streams THEN "run" ELSE "flush"
        /\ UNCHANGED <<in_thread_queue, thread>> /\ audio \subseteq Streams
    BY <2>1 DEF decode_flush, queueVars, thrVars, Open, TypeOK
  <2>3. Open'
    BY <2>2 DEF Open
  <2>4. /\ \A i \in DOMAIN audio_duration_queue :
             /\ i \in DOMAIN audio_duration_queue'
             /\ audio_duration_queue'[i] = audio_duration_queue[i]
        /\ s \in audio => \E i \in DOMAIN audio_duration_queue' :
                            audio_duration_queue'[i].stream = s
    <3>1. CASE s \notin audio
      BY <2>1, <3>1 DEF decode_flush
    <3>2. CASE s \in audio
      <4>1. PICK d : /\ d = [stream |-> s, samples |-> nb_samples'[s], pass |-> pass]
                     /\ audio_duration_queue' = Append(audio_duration_queue, d)
        BY <2>1, <3>2 DEF decode_flush
      <4>2. /\ audio_duration_queue \in Seq([stream : audio, samples : Nat, pass : Nat])
            /\ nb_samples' \in [Streams -> Nat] /\ pass \in Nat
        BY <2>1, DecodeTypes DEF TypeOK, decode_flush
      <4>3. d \in [stream : audio, samples : Nat, pass : Nat] /\ d.stream = s
        BY <3>2, <4>1, <4>2
      <4>4. Len(audio_duration_queue) \in Nat
            /\ DOMAIN audio_duration_queue = 1 .. Len(audio_duration_queue)
        BY <4>2, LenProperties
      <4>5. /\ DOMAIN audio_duration_queue' = 1 .. Len(audio_duration_queue) + 1
            /\ \A i \in 1 .. Len(audio_duration_queue) :
                 audio_duration_queue'[i] = audio_duration_queue[i]
            /\ audio_duration_queue'[Len(audio_duration_queue) + 1] = d
        BY <4>1, <4>2, <4>3, <4>4, AppendProperties, LenProperties
      <4>6. /\ Len(audio_duration_queue) + 1 \in DOMAIN audio_duration_queue'
            /\ \A i \in DOMAIN audio_duration_queue : i \in DOMAIN audio_duration_queue'
        BY <4>4, <4>5
      <4> QED BY <4>3, <4>4, <4>5, <4>6
    <3> QED BY <3>1, <3>2
  <2>5. ASSUME NEW r \in audio, Pending(r)
        PROVE  Pending(r)'
    <3>1. CASE \E i \in DOMAIN audio_duration_queue : audio_duration_queue[i].stream = r
      BY <2>4, <3>1 DEF Pending
    <3>2. CASE r = s
      BY <2>4, <3>2 DEF Pending
    <3>3. CASE r \notin flushed /\ r # s
      BY <2>2, <3>3 DEF Pending
    <3>4. CASE ~NoMark
      BY <1>3, <2>2, <3>4 DEF Pending
    <3> QED BY <2>2, <2>5, <3>1, <3>2, <3>3, <3>4 DEF Pending
  <2> QED BY <1>5, <2>2, <2>3, <2>5
<1>12. CASE ifile_close
  <2>1. /\ main = "run" /\ Open /\ ~Open' /\ Left = 0
        /\ UNCHANGED <<in_thread_queue, audio_duration_queue, flushed, thread>>
    BY <1>12 DEF ifile_close, thrVars, Open, Left
  <2>2. \A s : Pending(s) => Pending(s)'
    BY <1>3, <2>1 DEF Pending
  <2>3. ASSUME thread \in {"seek", "durations"}, audio_duration_queue # <<>>
        PROVE  NoMark /\ Got + Len(audio_duration_queue) = Cardinality(audio)
    <3>1. /\ audio # {} /\ Got \in Nat /\ Len(audio_duration_queue) \in Nat
      BY <2>3, CountTypes
    <3>2. NoMark /\ Got + Len(audio_duration_queue) + Left = Cardinality(audio)
      BY <2>1, <2>3, <3>1 DEF MarkInv
    <3> QED BY <2>1, <3>1, <3>2
  <2> QED BY <1>1, <1>2, <1>3, <1>4, <2>1, <2>2, <2>3 DEF CountInv
<1>13. CASE UNCHANGED vars
  <2>1. UNCHANGED <<in_thread_queue, audio_duration_queue, flushed, thread, main>>
    BY <1>13 DEF vars, queueVars, thrVars, mainVars
  <2>2. Open' = Open /\ \A s : Pending(s) => Pending(s)'
    BY <1>3, <2>1 DEF Pending, Open
  <2> QED BY <1>1, <1>2, <1>3, <1>4, <2>1, <2>2 DEF CountInv
<1> QED BY <1>6, <1>7, <1>8, <1>9, <1>10, <1>11, <1>12, <1>13
        DEF Next, MainStep, Closed, WaitForEachOther

-----------------------------------------------------------------------------
(* The times that were told, after any other step than ReadPacket.         *)
LEMMA TimeSteps ==
  ASSUME TypeOK, TypeOK', MsgReady, DurationInv, MarkInv, TimeInv, LeastInv,
         FirstInv, FirstInv', CountInv, [Next]_vars, ~ReadPacket
  PROVE  TimeInv'
<1>1. UNCHANGED max_pts
  BY DEF Next, input_thread, MainStep, ReadUnusable, ReadEnds, SendBlocks, SendPacket,
     SendLooping, SendRefused, SeekToStart, SeekFails, RecvDuration, GetPacket,
     GetNothing, Drain, Join, decode_flush, ifile_get_packet, ifile_close, Closed,
     WaitForEachOther, vars, timeVars
<1>2. ASSUME UNCHANGED <<delivered, in_thread_queue>>,
             thread' = "send" => thread = "send" /\ UNCHANGED msg
      PROVE  \A m : IsTold(m)' => IsTold(m)
  BY <1>2 DEF IsTold
<1>3. CASE SeekToStart
  <2>1. /\ thread = "seek" /\ thread' \in {"read", "durations"}
        /\ UNCHANGED <<min_pts, max_pts, delivered, in_thread_queue>>
    BY <1>3 DEF SeekToStart, Restart, queueVars, mainVars
  <2>2. CASE audio = {}
    <3>1. Restart /\ \A s \in Streams : Counted(s)'
      BY <1>3, <2>2, SeekCounts
    <3> QED BY <2>1, <3>1, RestartKeepsTimes
  <2>3. CASE audio # {}
    <3>1. thread' = "durations"
      BY <1>3, <2>3 DEF SeekToStart
    <3> QED BY <1>1, <1>2, <2>1, <3>1, TimeKept
  <2> QED BY <2>2, <2>3
<1>4. CASE RecvDuration
  <2>1. /\ thread = "durations" /\ audio # {}
        /\ UNCHANGED <<min_pts, max_pts, delivered, in_thread_queue>>
    BY <1>4 DEF RecvDuration, queueVars, mainVars, DurationInv
  <2>2. CASE got_durations' = Cardinality(audio) /\ Restart
    <3>1. \A s \in audio : Counted(s)'
      BY <1>4, <2>2, LastIsCounted
    <3>2. \A s \in Streams : Steady(s) => Counted(s)'
      BY <2>1, <3>1 DEF Steady
    <3> QED BY <2>1, <2>2, <3>2, RestartKeepsTimes
  <2>3. CASE UNCHANGED thread
    BY <1>1, <1>2, <2>1, <2>3, TimeKept
  <2> QED BY <1>4, <2>2, <2>3 DEF RecvDuration
<1>5. CASE SendPacket \/ SendLooping
  <2>1. /\ \/ thread = "send" /\ thread' = "read"
           \/ thread = "sendLooping" /\ thread' = "seek"
        /\ in_thread_queue' = Append(in_thread_queue, msg)
        /\ UNCHANGED <<delivered, pos, duration>>
    BY <1>5 DEF SendPacket, SendLooping, Send, readVars, timeVars, mainVars
  <2>2. msg \in Messages /\ (thread = "send" \/ IsLooping(msg)) /\ thread' # "send"
    BY <2>1 DEF FirstInv, MsgReady
  <2>3. \A s, m : PacketOf(s, m) /\ IsTold(m)' => IsTold(m)
    BY <2>1, <2>2, ToldKept
  <2> QED BY <1>1, <2>1, <2>3, TimeKept
<1>6. CASE GetPacket \/ Drain
  <2>1. UNCHANGED <<pos, duration, thread, msg>>
    BY <1>6 DEF GetPacket, Drain, readVars, timeVars, thrVars
  <2>2. \/ /\ Recv
           /\ delivered' \in {delivered, Append(delivered, Head(in_thread_queue))}
        \/ UNCHANGED <<delivered, in_thread_queue>>
    BY <1>6 DEF GetPacket, Drain, queueVars
  <2>3. \A m : IsTold(m)' => IsTold(m)
    BY <1>2, <2>1, <2>2, ToldKept
  <2> QED BY <1>1, <2>1, <2>3, TimeKept
<1>7. CASE ReadUnusable \/ ReadEnds \/ SendBlocks \/ SendRefused \/ SeekFails
  <2>1. UNCHANGED <<delivered, in_thread_queue, pos, duration>>
    BY <1>7 DEF ReadUnusable, ReadEnds, SendBlocks, SendRefused, SeekFails, Finish,
       readVars, timeVars, queueVars, mainVars
  <2>2. \/ thread' = thread /\ UNCHANGED msg
        \/ thread' \in {"ended", "sendLooping"}
    BY <1>7 DEF ReadUnusable, ReadEnds, SendBlocks, SendRefused, SeekFails, Finish
  <2> QED BY <1>1, <1>2, <2>1, <2>2, TimeKept
<1>8. CASE ~input_thread /\ ~GetPacket /\ ~Drain
  <2>1. UNCHANGED <<delivered, in_thread_queue, pos, duration, msg>>
    BY <1>8 DEF Next, MainStep, GetNothing, Join, decode_flush, ifile_get_packet,
       ifile_close, Closed, WaitForEachOther, vars, readVars, timeVars, queueVars,
       mainVars, thrVars
  <2>2. thread' = thread \/ (thread = "none" /\ thread' = "read")
    BY <1>8, MainFrame DEF ifile_get_packet
  <2> QED BY <1>1, <1>2, <2>1, <2>2, TimeKept
<1> QED BY <1>3, <1>4, <1>5, <1>6, <1>7, <1>8 DEF input_thread

(* A message behind a sequence it is not below, ...                        *)
LEMMA RisingAppend ==
  ASSUME NEW s, NEW seq \in Seq(Messages), NEW m \in Messages, Rising(s, seq),
         PacketOf(s, m) => Below(s, seq, m)
  PROVE  Rising(s, Append(seq, m))
<1>1. PICK r : r = Append(seq, m)
  OBVIOUS
<1>2. /\ Len(seq) \in Nat /\ DOMAIN seq = 1 .. Len(seq)
      /\ DOMAIN r = 1 .. Len(seq) + 1
      /\ \A i \in 1 .. Len(seq) : r[i] = seq[i]
      /\ r[Len(seq) + 1] = m
  BY <1>1, AppendProperties, LenProperties
<1>3. ASSUME NEW i \in DOMAIN r, NEW j \in DOMAIN r, i < j, PacketOf(s, r[i]),
             PacketOf(s, r[j])
      PROVE  r[i].pts <= r[j].pts
  <2>1. i \in DOMAIN seq /\ r[i] = seq[i]
    BY <1>2, <1>3
  <2>2. CASE j \in DOMAIN seq
    BY <1>2, <1>3, <2>1, <2>2 DEF Rising
  <2>3. CASE j \notin DOMAIN seq
    <3>1. j = Len(seq) + 1
      BY <1>2, <2>3
    <3> QED BY <1>2, <1>3, <2>1, <3>1 DEF Below
  <2> QED BY <2>2, <2>3
<1> QED BY <1>1, <1>3 DEF Rising

(* ... and a sequence without its first message.                           *)
LEMMA RisingTail ==
  ASSUME NEW s, NEW seq \in Seq(Messages), seq # <<>>, Rising(s, seq)
  PROVE  /\ Rising(s, Tail(seq))
         /\ \A i \in DOMAIN Tail(seq) :
              /\ \E j \in DOMAIN seq : Tail(seq)[i] = seq[j]
              /\ PacketOf(s, Head(seq)) /\ PacketOf(s, Tail(seq)[i]) =>
                   Head(seq).pts <= Tail(seq)[i].pts
<1>1. PICK r : r = Tail(seq)
  OBVIOUS
<1>2. /\ Len(seq) \in Nat /\ DOMAIN seq = 1 .. Len(seq)
      /\ DOMAIN r = 1 .. Len(seq) - 1
      /\ \A i \in 1 .. Len(seq) - 1 : r[i] = seq[i + 1]
      /\ Head(seq) = seq[1]
  BY <1>1, HeadTailProperties, LenProperties
<1>3. ASSUME NEW i \in DOMAIN r
      PROVE  /\ i + 1 \in DOMAIN seq /\ 1 \in DOMAIN seq /\ 1 < i + 1
             /\ r[i] = seq[i + 1]
  BY <1>2, <1>3
<1>4. ASSUME NEW i \in DOMAIN r, NEW j \in DOMAIN r, i < j
      PROVE  i + 1 < j + 1
  BY <1>2, <1>4
<1>5. Rising(s, r)
  BY <1>3, <1>4 DEF Rising
<1>6. ASSUME NEW i \in DOMAIN r
      PROVE  /\ \E j \in DOMAIN seq : r[i] = seq[j]
             /\ PacketOf(s, Head(seq)) /\ PacketOf(s, r[i]) => Head(seq).pts <= r[i].pts
  BY <1>2, <1>3, <1>6 DEF Rising
<1> QED BY <1>1, <1>5, <1>6

(* A message is above a sequence and above what is put behind it.          *)
LEMMA BelowAppend ==
  ASSUME NEW s, NEW seq \in Seq(Messages), NEW m \in Messages, NEW n,
         Below(s, seq, n), PacketOf(s, m) => m.pts <= n.pts
  PROVE  Below(s, Append(seq, m), n)
<1>1. PICK r : r = Append(seq, m)
  OBVIOUS
<1>2. \A i \in DOMAIN r : (i \in DOMAIN seq /\ r[i] = seq[i]) \/ r[i] = m
  BY <1>1, AppendProperties, LenProperties
<1> QED BY <1>1, <1>2 DEF Below

(* The times rise, after any other step than ReadPacket.                   *)
LEMMA RiseSteps ==
  ASSUME TypeOK, MsgReady, FirstInv, RiseInv, [Next]_vars, ~ReadPacket
  PROVE  RiseInv'
<1>0. in_thread_queue \in Seq(Messages) /\ delivered \in Seq(Messages)
  BY DEF TypeOK
<1> SUFFICES ASSUME NEW s \in Streams, Steady(s)'
             PROVE  /\ Rising(s, delivered') /\ Rising(s, in_thread_queue')
                    /\ \A i \in DOMAIN in_thread_queue' :
                         PacketOf(s, in_thread_queue'[i]) =>
                           Below(s, delivered', in_thread_queue'[i])
                    /\ thread' = "send" /\ PacketOf(s, msg') =>
                         Below(s, delivered', msg') /\ Below(s, in_thread_queue', msg')
  BY DEF RiseInv, Rising, Below, PacketOf
<1>1. Steady(s)
  BY SteadyBefore
<1>2. /\ Rising(s, delivered) /\ Rising(s, in_thread_queue)
      /\ \A i \in DOMAIN in_thread_queue :
           PacketOf(s, in_thread_queue[i]) => Below(s, delivered, in_thread_queue[i])
      /\ thread = "send" /\ PacketOf(s, msg) =>
           Below(s, delivered, msg) /\ Below(s, in_thread_queue, msg)
  BY <1>1 DEF RiseInv
<1> DEFINE Goal == /\ Rising(s, delivered') /\ Rising(s, in_thread_queue')
                   /\ \A i \in DOMAIN in_thread_queue' :
                        PacketOf(s, in_thread_queue'[i]) =>
                          Below(s, delivered', in_thread_queue'[i])
                   /\ thread' = "send" /\ PacketOf(s, msg') =>
                        Below(s, delivered', msg') /\ Below(s, in_thread_queue', msg')
<1>3. ASSUME UNCHANGED <<delivered, in_thread_queue>>,
             thread' = "send" => thread = "send" /\ UNCHANGED msg
      PROVE  Goal
  BY <1>2, <1>3
<1>4. CASE SendPacket \/ SendLooping
  <2>1. /\ thread = "send" \/ thread = "sendLooping"
        /\ thread' # "send" /\ UNCHANGED delivered
        /\ in_thread_queue' = Append(in_thread_queue, msg)
    BY <1>4 DEF SendPacket, SendLooping, Send, mainVars
  <2>2. msg \in Messages /\ (PacketOf(s, msg) => thread = "send")
    BY <2>1 DEF FirstInv, MsgReady, PacketOf
  <2>3. Rising(s, in_thread_queue')
    BY <1>0, <1>2, <2>1, <2>2, RisingAppend
  <2>4. \A i \in DOMAIN in_thread_queue' :
          \/ i \in DOMAIN in_thread_queue /\ in_thread_queue'[i] = in_thread_queue[i]
          \/ in_thread_queue'[i] = msg
    BY <1>0, <2>1, <2>2, AppendProperties, LenProperties
  <2> QED BY <1>2, <2>1, <2>2, <2>3, <2>4
<1>5. CASE GetPacket \/ (Drain /\ ~UNCHANGED in_thread_queue)
  <2>1. /\ in_thread_queue # <<>> /\ in_thread_queue' = Tail(in_thread_queue)
        /\ UNCHANGED <<thread, msg>>
        /\ delivered' \in {delivered, Append(delivered, Head(in_thread_queue))}
    BY <1>5 DEF GetPacket, Drain, Recv, queueVars, thrVars
  <2>2. PICK h \in Messages : h = Head(in_thread_queue)
    BY <1>0, <2>1, HeadTailProperties
  <2>3. /\ Rising(s, in_thread_queue')
        /\ \A i \in DOMAIN in_thread_queue' :
             /\ \E j \in DOMAIN in_thread_queue : in_thread_queue'[i] = in_thread_queue[j]
             /\ PacketOf(s, h) /\ PacketOf(s, in_thread_queue'[i]) =>
                  h.pts <= in_thread_queue'[i].pts
    BY <1>0, <1>2, <2>1, <2>2, RisingTail
  <2>4. \E j \in DOMAIN in_thread_queue : h = in_thread_queue[j]
    <3>1. Len(in_thread_queue) \in Nat \ {0}
          /\ DOMAIN in_thread_queue = 1 .. Len(in_thread_queue)
      BY <1>0, <2>1, LenProperties, EmptySeq
    <3>2. 1 \in DOMAIN in_thread_queue /\ h = in_thread_queue[1]
      BY <2>2, <3>1
    <3> QED BY <3>2
  <2>5. Rising(s, delivered')
    <3>1. PacketOf(s, h) => Below(s, delivered, h)
      BY <1>2, <2>4
    <3>2. Rising(s, Append(delivered, h))
      BY <1>0, <1>2, <2>2, <3>1, RisingAppend
    <3> QED BY <1>2, <2>1, <2>2, <3>2
  <2>6. ASSUME NEW n, Below(s, delivered, n), PacketOf(s, h) => h.pts <= n.pts
        PROVE  Below(s, delivered', n)
    BY <1>0, <2>1, <2>2, <2>6, BelowAppend
  <2>7. \A i \in DOMAIN in_thread_queue' :
          PacketOf(s, in_thread_queue'[i]) => Below(s, delivered', in_thread_queue'[i])
    BY <1>2, <2>3, <2>6
  <2>8. ASSUME thread' = "send", PacketOf(s, msg')
        PROVE  Below(s, delivered', msg') /\ Below(s, in_thread_queue', msg')
    <3>1. Below(s, delivered, msg) /\ Below(s, in_thread_queue, msg)
      BY <1>2, <2>1, <2>8
    <3>2. PacketOf(s, h) => h.pts <= msg.pts
      BY <2>4, <3>1 DEF Below
    <3>3. Below(s, in_thread_queue', msg)
      BY <2>3, <3>1 DEF Below
    <3> QED BY <2>1, <2>6, <3>1, <3>2, <3>3
  <2> QED BY <2>3, <2>5, <2>7, <2>8
<1>6. CASE ReadUnusable \/ ReadEnds \/ SendBlocks \/ SendRefused \/ SeekFails
  <2>1. UNCHANGED <<delivered, in_thread_queue>>
    BY <1>6 DEF ReadUnusable, ReadEnds, SendBlocks, SendRefused, SeekFails, Finish,
       queueVars, mainVars
  <2>2. \/ thread' = thread /\ UNCHANGED msg
        \/ thread' \in {"ended", "sendLooping"}
    BY <1>6 DEF ReadUnusable, ReadEnds, SendBlocks, SendRefused, SeekFails, Finish
  <2> QED BY <1>3, <2>1, <2>2
<1>7. CASE SeekToStart \/ RecvDuration
  <2>1. UNCHANGED <<delivered, in_thread_queue>>
    BY <1>7 DEF SeekToStart, RecvDuration, queueVars, mainVars
  <2>2. thread' # "send"
    BY <1>7 DEF SeekToStart, RecvDuration, Restart
  <2> QED BY <1>3, <2>1, <2>2
<1>8. CASE ~input_thread /\ ~GetPacket /\ (Drain => UNCHANGED in_thread_queue)
  <2>1. UNCHANGED <<delivered, in_thread_queue, msg>>
    BY <1>8 DEF Next, MainStep, GetNothing, Join, Drain, decode_flush,
       ifile_get_packet, ifile_close, Closed, WaitForEachOther, vars, queueVars,
       mainVars, thrVars
  <2>2. thread' = thread \/ (thread = "none" /\ thread' = "read")
    BY <1>8, MainFrame DEF ifile_get_packet
  <2> QED BY <1>3, <2>1, <2>2
<1>9. \/ SendPacket \/ SendLooping
      \/ GetPacket \/ (Drain /\ ~UNCHANGED in_thread_queue)
      \/ ReadUnusable \/ ReadEnds \/ SendBlocks \/ SendRefused \/ SeekFails
      \/ SeekToStart \/ RecvDuration
      \/ (~input_thread /\ ~GetPacket /\ (Drain => UNCHANGED in_thread_queue))
  BY DEF input_thread
<1> HIDE DEF Goal
<1>10. Goal
  BY <1>4, <1>5, <1>6, <1>7, <1>8, <1>9 DEF Goal
<1> QED BY <1>10 DEF Goal

(* At the start nothing was told.                                          *)
LEMMA InitTimes ==
  Init => TimeInv /\ LeastInv /\ FirstInv /\ CountInv /\ RiseInv
<1> SUFFICES ASSUME Init
             PROVE  TimeInv /\ LeastInv /\ FirstInv /\ CountInv /\ RiseInv
  OBVIOUS
<1>1. /\ delivered = <<>> /\ in_thread_queue = <<>> /\ thread = "none" /\ main = "run"
      /\ pos = 0 /\ pass = 1 /\ duration = [ticks |-> 0, tb |-> 1]
  BY DEF Init
<1>2. TypeOK
  BY InitTypes
<1>3. TimeInv
  BY <1>1 DEF TimeInv, IsTold
<1>4. LeastInv
  BY <1>1, <1>2, TypeParts, FileFacts DEF LeastInv, Read
<1>5. FirstInv /\ CountInv
  BY <1>1 DEF FirstInv, CountInv, Open
<1>6. RiseInv
  BY <1>1 DEF RiseInv, Rising
<1> QED BY <1>3, <1>4, <1>5, <1>6

(* seek_to_start and ts_fixup, for every file, every time base, every      *)
(* offset and every stream_loop: the times of a stream that grow in the    *)
(* file do not go back when it is looped.                                  *)
THEOREM TimesGrowOn == Spec => []TimesGrow
<1> DEFINE TimesInv == TimeInv /\ LeastInv /\ FirstInv /\ CountInv /\ RiseInv
           PairsInv == OrderInv /\ DurationInv /\ MarkInv
<1>1. Init => TypeOK /\ MsgReady /\ PairsInv /\ TimesInv
  <2>1. Init => MsgReady
    BY DEF Init, MsgReady
  <2> QED BY <2>1, InitTypes, InitOrder, InitPairs, InitTimes
<1>2. TypeOK /\ MsgReady /\ PairsInv /\ TimesInv /\ [Next]_vars
        => (TypeOK /\ MsgReady /\ PairsInv /\ TimesInv)'
  <2> SUFFICES ASSUME TypeOK, MsgReady, OrderInv, DurationInv, MarkInv, TimeInv,
                      LeastInv, FirstInv, CountInv, RiseInv, [Next]_vars
               PROVE  (TypeOK /\ MsgReady /\ PairsInv /\ TimesInv)'
    OBVIOUS
  <2>1. TypeOK' /\ MsgReady'
    BY TypeStep
  <2>2. OrderInv' /\ DurationInv' /\ MarkInv'
    BY OrderThreadStep, OrderMainStep, PairThreadStep, PairMainStep
  <2>3. FirstInv'
    BY <2>1, FirstStep
  <2>4. CountInv'
    BY CountThreadStep, CountMainStep
  <2>5. TimeInv' /\ LeastInv' /\ RiseInv'
    BY <2>1, <2>3, ReadKeepsTimes, TimeSteps, LeastSteps, RiseSteps
  <2> QED BY <2>1, <2>2, <2>3, <2>4, <2>5
<1>3. TimesInv => TimesGrow
  BY DEF RiseInv, TimesGrow, Steady
<1> HIDE DEF TimesInv, PairsInv
<1> QED BY <1>1, <1>2, <1>3, PTL DEF Spec

=============================================================================
