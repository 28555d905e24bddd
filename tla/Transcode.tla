----------------------------- MODULE Transcode -----------------------------
(***************************************************************************)
(* The main loop of fftools/ffmpeg.c: transcode() chooses the output       *)
(* stream that is most behind, asks its filter graph for a frame, or reads *)
(* a packet of the input file that can feed it, and hands on what comes    *)
(* out: packets to decoders, frames to filter graphs (which are configured *)
(* when the formats of all their inputs are known, and again when one      *)
(* changes), filtered frames to encoders, packets to the muxers.           *)
(*                                                                         *)
(* Packets and frames are [ist, pts, fmt, key], in the order of the file;  *)
(* decoders, encoders and filters keep what they were given for some time  *)
(* (DecDelay, EncDelay, Latency) and do not change it.  Streams and files  *)
(* are numbers, iterated in their order.  Subtitles, and graphs without    *)
(* inputs, are left out.                                                   *)
(***************************************************************************)
EXTENDS Integers, Sequences, FiniteSets, SequencesExt

CONSTANTS
  InFiles, Ists, FileOf,   (* input files, input streams, the file of each *)
  Contents,                (* what the files may give: packets and marks   *)
  OutFiles, Outs, OutFile, (* output files, their streams                  *)
  Copies, Source,          (* streams that are copied, and from where      *)
  Graphs, Inputs, GraphOf, (* filter graphs, their inputs, their outputs   *)
  Audio,                   (* encoded streams that are audio               *)
  Eager,                   (* graphs whose frames pass without a request   *)
  Latency,                 (* frames a graph keeps per open input          *)
  DecDelay, EncDelay,      (* frames a decoder, an encoder keeps           *)
  Limits,                  (* of->recording_time of the output files       *)
  Known                    (* streams whose codecpar has a format          *)

Encoded == Outs \ Copies
Needed  == UNION {Inputs[g] : g \in Graphs}
OutsOf(g) == {o \in Encoded : GraphOf[o] = g}

ASSUME InputAssumption ==
  /\ InFiles \subseteq Nat /\ Ists \subseteq Nat \ {0}
  /\ IsFiniteSet(Ists) /\ FileOf \in [Ists -> InFiles]
ASSUME OutputAssumption ==
  /\ Outs \subseteq Nat \ {0} /\ IsFiniteSet(Outs) /\ Outs # {}
  /\ Copies \subseteq Outs /\ Audio \subseteq Encoded
  /\ OutFile \in [Outs -> OutFiles]
  /\ Source \in [Copies -> Ists]
ASSUME GraphAssumption ==
  /\ Latency \in [Graphs -> Nat] /\ {DecDelay, EncDelay} \subseteq Nat
  /\ Inputs \in [Graphs -> (SUBSET Ists) \ {{}}]
  /\ GraphOf \in [Encoded -> Graphs]
  /\ Eager \subseteq {g \in Graphs : Cardinality(Inputs[g]) = 1}
  /\ \A s \in Ists : Cardinality({g \in Graphs : s \in Inputs[g]}) <= 1

NoFormat == 0
NoPts == -1
End == [ist |-> 0]
Mark == [ist |-> -1]
IsData(p) == p.ist > 0
Packet == [ist : Ists, pts : Nat, fmt : Nat \ {NoFormat}, key : BOOLEAN]

ASSUME ContentAssumption ==
  \A c \in Contents, f \in InFiles :
    c[f] \in Seq({Mark} \cup [ist : {s \in Ists : FileOf[s] = f}, pts : Nat,
                             fmt : Nat \ {NoFormat}, key : BOOLEAN])
ASSUME LimitAssumption == Limits \subseteq [OutFiles -> Nat]

VARIABLES
  content,      (* what each input file holds                              *)
  read,         (* how much of it was read                                 *)
  arrived,      (* the files whose demuxer has put the next message        *)
  eagain, eof_reached,
  dec,          (* what the decoder of each stream holds                   *)
  got_output,
  graph,        (* the filter graphs                                       *)
  sink,         (* frames at the buffer sink of each output                *)
  ost,          (* the output streams                                      *)
  recording_time,
  muxer_ended,  (* output files whose muxer thread has ended early         *)
  received_sigterm,
  pc,           (* the function that runs                                  *)
  chosen,       (* the output stream of this step                          *)
  cur,          (* the input file or stream of this step                   *)
  todo,         (* streams still to be told the end of their file          *)
  drops,        (* graphs that give nothing                                *)
  lossy,        (* history: these, and those that lost frames              *)
  failed        (* history: a graph could not be configured or asked       *)

inVars   == <<content, read, arrived, eagain, eof_reached>>
flagVars == <<recording_time, drops, muxer_ended, received_sigterm>>
stepVars == <<pc, chosen, cur, todo>>
vars == <<inVars, dec, got_output, graph, sink, ost, flagVars, stepVars,
          lossy, failed>>

Init ==
  /\ content \in Contents
  /\ read = [f \in InFiles |-> 0]
  /\ arrived = {} /\ eagain = {} /\ eof_reached = {}
  /\ dec = [s \in Ists |-> <<>>] /\ got_output = {}
  /\ graph = [g \in Graphs |->
       [up |-> FALSE, fmt |-> [s \in Inputs[g] |-> NoFormat],
        frame_queue |-> [s \in Inputs[g] |-> <<>>],
        held |-> [s \in Inputs[g] |-> <<>>], eof |-> {}]]
  /\ sink = [o \in Encoded |-> <<>>]
  /\ ost = [o \in Outs |->
       [initialized |-> o \in Copies, inputs_done |-> FALSE, finished |-> {},
        unavailable |-> FALSE, last |-> NoPts, enc |-> <<>>, out |-> <<>>]]
  /\ recording_time \in Limits
  /\ muxer_ended = {} /\ received_sigterm = FALSE
  /\ pc = "loop" /\ chosen = 0 /\ cur = 0 /\ todo = {}
  /\ drops \in SUBSET Graphs /\ lossy = drops /\ failed = FALSE

-----------------------------------------------------------------------------
(* A muxer thread is started when all streams of its file are initialized. *)
Started(of) == \A o \in Outs : OutFile[o] = of => ost[o].initialized

(* of_output_packet of stream o with record r: packets and ends go to the  *)
(* muxer, or wait for it; one that has ended refuses them.                 *)
of_output_packet(o, r, seq) ==
  LET refused == OutFile[o] \in muxer_ended /\ seq # <<>>
      ended   == End \in {seq[i] : i \in DOMAIN seq} /\ Started(OutFile[o]) IN
  IF "mux" \in r.finished THEN r
  ELSE [r EXCEPT !.out = IF refused THEN @ ELSE @ \o seq,
                 !.finished = IF refused \/ ended THEN @ \cup {"mux"} ELSE @]

(* do_streamcopy starts at a keyframe and stops at the recording time.     *)
InTime(o, p) == p.pts < recording_time[OutFile[o]]

do_streamcopy(o, r, p) ==
  IF "mux" \in r.finished \/ (r.last = NoPts /\ ~p.key) THEN r
  ELSE IF ~InTime(o, p) THEN [r EXCEPT !.finished = @ \cup {"enc"}]
  ELSE of_output_packet(o, [r EXCEPT !.last = p.pts], <<p>>)

(* do_video_out and do_audio_out for frames of the sink: those before the  *)
(* recording time are encoded, the first behind it closes the stream.      *)
encode_frames(o, r, frames) ==
  LET late == {i \in DOMAIN frames : ~InTime(o, frames[i])}
      upto == IF late = {} THEN Len(frames) ELSE Min(late) - 1
      all  == r.enc \o SubSeq(frames, 1, upto)
      n    == IF Len(all) > EncDelay THEN Len(all) - EncDelay ELSE 0
      r1   == of_output_packet(o, r, SubSeq(all, 1, n)) IN
  [r1 EXCEPT !.enc = SubSeq(all, n + 1, Len(all)),
             !.last = IF late # {} THEN frames[upto + 1].pts
                      ELSE IF frames # <<>> THEN Last(frames).pts ELSE @,
             !.finished = IF late # {} THEN @ \cup {"enc"} ELSE @]

(* reap_filters(flush) for stream o: an audio encoder is initialized as    *)
(* soon as there is a graph, a video encoder by its first frame, or by the *)
(* flush of a graph that has ended.  Variant: not by the flush.            *)
Drained(g) == \A s \in Inputs[g] : graph[g].held[s] = <<>> /\ s \in graph[g].eof

Reaped_NoInit(o, flush) ==
  IF o \in Copies \/ ~graph[GraphOf[o]].up THEN ost[o]
  ELSE LET r == [ost[o] EXCEPT !.initialized =
                   @ \/ o \in Audio \/ sink[o] # <<>>] IN
       IF r.finished # {} THEN r ELSE encode_frames(o, r, sink[o])

Reaped(o, flush) ==
  IF o \in Copies \/ ~graph[GraphOf[o]].up THEN ost[o]
  ELSE LET r == [ost[o] EXCEPT !.initialized =
                   @ \/ o \in Audio \/ sink[o] # <<>>
                     \/ (flush /\ Drained(GraphOf[o]))] IN
       IF r.finished # {} THEN r ELSE encode_frames(o, r, sink[o])

reap_filters(flush) == [o \in Outs |-> Reaped(o, flush)]
EmptySinks == [o \in Encoded |-> <<>>]

-----------------------------------------------------------------------------
(* The filter graph gr of g: which frames it can give next, ...            *)
CanGive(g, gr) ==
  /\ \E s \in Inputs[g] : gr.held[s] # <<>>
  /\ \A s \in Inputs[g] : s \in gr.eof \/ Len(gr.held[s]) > Latency[g]

Oldest(g, gr) ==
  CHOOSE s \in Inputs[g] :
    /\ gr.held[s] # <<>>
    /\ \A t \in Inputs[g] :
         gr.held[t] # <<>> =>
           gr.held[s][1].pts < gr.held[t][1].pts
             \/ (gr.held[s][1].pts = gr.held[t][1].pts /\ s <= t)

(* ... what passes through an eager one, ...                               *)
Passed(g, gr) ==
  IF g \notin Eager \/ ~gr.up THEN <<>>
  ELSE LET s == CHOOSE s \in Inputs[g] : TRUE
           n == Len(gr.held[s]) - IF s \in gr.eof THEN 0 ELSE Latency[g] IN
       SubSeq(gr.held[s], 1, n)

Kept(g, gr) ==
  [gr EXCEPT !.held = [s \in Inputs[g] |->
     SubSeq(@[s], Len(Passed(g, gr)) + 1, Len(@[s]))]]

(* ... and its state when it was configured (anew): the frames that were   *)
(* queued are sent in, those inside of the old graph are gone.             *)
ifilter_has_all_input_formats(g, gr) ==
  \A s \in Inputs[g] : gr.fmt[s] # NoFormat

(* Variant: the queued frames are not sent in.                             *)
configure_filtergraph_NoQueue(g, gr) ==
  [gr EXCEPT !.up = TRUE,
             !.held = [s \in Inputs[g] |-> <<>>],
             !.frame_queue = [s \in Inputs[g] |-> <<>>]]

configure_filtergraph(g, gr) ==
  [gr EXCEPT !.up = TRUE,
             !.held = IF g \in drops THEN [s \in Inputs[g] |-> <<>>]
                      ELSE gr.frame_queue,
             !.frame_queue = [s \in Inputs[g] |-> <<>>]]

(* ifilter_send_frame into graph g.                                        *)
Reinit(g, p) == graph[g].fmt[p.ist] # p.fmt \/ ~graph[g].up

WithFormat(g, p) ==
  IF Reinit(g, p) THEN [graph[g] EXCEPT !.fmt[p.ist] = p.fmt] ELSE graph[g]

Configures(p) ==
  {g \in Graphs : /\ p.ist \in Inputs[g] /\ Reinit(g, p)
                  /\ ifilter_has_all_input_formats(g, WithFormat(g, p))}

Sent(gr, p) == [gr EXCEPT !.held[p.ist] = Append(@, p)]

ifilter_send_frame(g, p) ==
  IF p.ist \notin Inputs[g] THEN graph[g]
  ELSE IF Reinit(g, p) /\ g \notin Configures(p)
  THEN [WithFormat(g, p) EXCEPT !.frame_queue[p.ist] = Append(@, p)]
  ELSE LET gr == IF g \in Configures(p)
                 THEN configure_filtergraph(g, WithFormat(g, p)) ELSE graph[g]
       IN IF g \in drops THEN gr ELSE Sent(gr, p)

(* send_frame_to_filters: a graph that is configured anew makes the sinks  *)
(* of all graphs be reaped first; at the end of a file process_input_packet *)
(* ends copies of the stream.  Variant: not when all is drained.           *)
EndCopies_NotDrained(s, r) ==
  [o \in Outs |-> IF o \in Copies /\ Source[o] = s /\ pc = "eof"
                  THEN of_output_packet(o, r[o], <<End>>) ELSE r[o]]

EndCopies(s, r) ==
  [o \in Outs |-> IF o \in Copies /\ Source[o] = s
                  THEN of_output_packet(o, r[o], <<End>>) ELSE r[o]]

send_frame_to_filters(p) ==
  LET next == [g \in Graphs |-> ifilter_send_frame(g, p)]
      conf == Configures(p)
      r    == IF conf # {} THEN reap_filters(TRUE) ELSE ost IN
  /\ ost' = IF pc \in {"eof", "drain"} THEN EndCopies(p.ist, r) ELSE r
  /\ sink' = [o \in Encoded |->
       (IF conf # {} THEN <<>> ELSE sink[o])
         \o Passed(GraphOf[o], next[GraphOf[o]])]
  /\ graph' = [g \in Graphs |-> Kept(g, next[g])]
  /\ lossy' = lossy \cup
       {g \in conf : \E s \in Inputs[g] : graph[g].held[s] # <<>>}

(* decode takes the first frame out of a decoder: while it has more than   *)
(* it keeps, when a file is looped, or at the end.                         *)
Holding == {s \in Needed : FileOf[s] = cur /\ dec[s] # <<>>}

HasFrame(s) ==
  \/ pc = "decode" /\ s = cur /\ Len(dec[s]) > DecDelay
  \/ pc = "flush" /\ Holding # {} /\ s = Min(Holding)
  \/ pc \in {"eof", "drain"} /\ todo # {} /\ s = Min(todo) /\ dec[s] # <<>>

TakeFrame(s) ==
  /\ HasFrame(s)
  /\ dec' = [dec EXCEPT ![s] = Tail(@)]
  /\ got_output' = got_output \cup {s}
  /\ send_frame_to_filters(Head(dec[s]))

-----------------------------------------------------------------------------
(* choose_output.  Variant: a stream that waits for input is passed over.  *)
Uninitialized == {o \in Outs : ~ost[o].initialized /\ ~ost[o].inputs_done}
Unfinished == {o \in Outs : ost[o].finished = {}}

MostBehind(S) ==
  CHOOSE o \in S :
    \A p \in S : \/ ost[o].last < ost[p].last
                 \/ ost[o].last = ost[p].last /\ o <= p

choose_output_PassOver ==
  LET S == {o \in Unfinished : ~ost[o].unavailable}
      U == Uninitialized \cap S IN
  IF U # {} THEN Min(U) ELSE IF S # {} THEN MostBehind(S) ELSE 0

choose_output ==
  LET o == IF Uninitialized # {} THEN Min(Uninitialized)
           ELSE IF Unfinished # {} THEN MostBehind(Unfinished) ELSE 0 IN
  IF o = 0 THEN 0 ELSE IF ost[o].unavailable THEN 0 ELSE o

got_eagain == \E o \in Outs : ost[o].unavailable

Available(r) == [o \in Outs |-> [r[o] EXCEPT !.unavailable = FALSE]]

(* transcode: a signal, or no output that is needed, ends the loop.        *)
Looping == pc = "loop" /\ ~received_sigterm /\ Unfinished # {}

LeaveLoop ==
  /\ pc = "loop"
  /\ received_sigterm \/ Unfinished = {}
  /\ pc' = "drain" /\ cur' = 0
  /\ todo' = {s \in Ists : FileOf[s] \notin eof_reached}
  /\ UNCHANGED <<inVars, dec, got_output, graph, sink, ost, flagVars, chosen,
                 lossy, failed>>

(* transcode_step: all that is needed waits for input, ...                 *)
(* Variant: the flags of the streams stay.                                 *)
NoneAvailable_Stay ==
  /\ Looping /\ choose_output = 0
  /\ eagain' = {}
  /\ UNCHANGED <<content, read, arrived, eof_reached, dec, got_output, graph,
                 sink, ost, flagVars, stepVars, lossy, failed>>

NoneAvailable ==
  /\ Looping /\ choose_output = 0
  /\ eagain' = IF got_eagain THEN {} ELSE eagain
  /\ ost' = Available(ost)
  /\ UNCHANGED <<content, read, arrived, eof_reached, dec, got_output, graph,
                 sink, flagVars, stepVars, lossy, failed>>

(* ... a stream is copied, ...                                             *)
StepCopy ==
  /\ Looping /\ choose_output \in Copies
  /\ chosen' = choose_output
  /\ pc' = "input" /\ cur' = FileOf[Source[choose_output]]
  /\ UNCHANGED <<inVars, dec, got_output, graph, sink, ost, flagVars, todo,
                 lossy, failed>>

(* ... or comes from a graph, which is configured when it can be; ...      *)
StepGraph ==
  /\ Looping /\ choose_output \in Encoded
  /\ chosen' = choose_output
  /\ LET o  == choose_output
         g  == GraphOf[o]
         gr == IF ~graph[g].up /\ ifilter_has_all_input_formats(g, graph[g])
               THEN configure_filtergraph(g, graph[g]) ELSE graph[g]
         waiting == {s \in Inputs[g] : s \notin got_output
                                         /\ FileOf[s] \notin eof_reached} IN
     /\ graph' = [graph EXCEPT ![g] = Kept(g, gr)]
     /\ sink' = [p \in Encoded |-> IF GraphOf[p] = g
                                   THEN sink[p] \o Passed(g, gr) ELSE sink[p]]
     /\ \/ /\ gr.up
           /\ pc' = "request"
           /\ ost' = [ost EXCEPT ![o].initialized = @ \/ o \in Audio]
           /\ UNCHANGED cur
        \/ /\ ~gr.up
           /\ IF waiting # {}
              THEN /\ pc' = "input" /\ cur' = FileOf[Min(waiting)]
                   /\ UNCHANGED ost
              ELSE /\ ost' = [ost EXCEPT ![o].inputs_done = TRUE]
                   /\ UNCHANGED <<pc, cur>>
  /\ UNCHANGED <<inVars, dec, got_output, flagVars, todo, lossy, failed>>

(* ... and when a graph cannot be configured or fails the loop ends.       *)
StepFails ==
  /\ \/ /\ Looping /\ choose_output \in Encoded
        /\ ~graph[GraphOf[choose_output]].up
        /\ LET g == GraphOf[choose_output] IN
           ifilter_has_all_input_formats(g, graph[g])
     \/ pc = "request"
  /\ pc' = "drain" /\ cur' = 0
  /\ todo' = {s \in Ists : FileOf[s] \notin eof_reached}
  /\ failed' = TRUE
  /\ UNCHANGED <<inVars, dec, got_output, graph, sink, ost, flagVars, chosen,
                 lossy>>

-----------------------------------------------------------------------------
(* transcode_from_filter: the graph gives a frame, ...                     *)
RequestGives ==
  /\ pc = "request"
  /\ LET g == GraphOf[chosen]
         s == Oldest(g, graph[g]) IN
     /\ CanGive(g, graph[g])
     /\ graph' = [graph EXCEPT ![g].held[s] = Tail(@)]
     /\ sink' = [o \in Encoded |-> IF o \in OutsOf(g)
          THEN Append(sink[o], Head(graph[g].held[s])) ELSE sink[o]]
  /\ pc' = "reap"
  /\ UNCHANGED <<inVars, dec, got_output, ost, flagVars, chosen, cur, todo,
                 lossy, failed>>

(* ... has ended: its outputs are reaped and closed, ...                   *)
RequestEnds ==
  /\ pc = "request"
  /\ Drained(GraphOf[chosen])
  /\ ost' = [o \in Outs |->
       IF o \in OutsOf(GraphOf[chosen])
       THEN [reap_filters(TRUE)[o] EXCEPT !.finished = @ \cup {"enc"}]
       ELSE reap_filters(TRUE)[o]]
  /\ sink' = EmptySinks
  /\ pc' = "loop"
  /\ UNCHANGED <<inVars, dec, got_output, graph, flagVars, chosen, cur, todo,
                 lossy, failed>>

(* ... or needs a frame of an input whose file may have a packet.          *)
Starving(g) ==
  {s \in Inputs[g] : s \notin graph[g].eof /\ Len(graph[g].held[s]) <= Latency[g]}

RequestWaits ==
  /\ pc = "request"
  /\ LET g == GraphOf[chosen]
         best == {s \in Starving(g) : FileOf[s] \notin eagain \cup eof_reached} IN
     /\ ~CanGive(g, graph[g]) /\ ~Drained(g)
     /\ \/ /\ best # {}
           /\ \E s \in best : cur' = FileOf[s]
           /\ pc' = "input"
           /\ UNCHANGED ost
        \/ /\ best = {}
           /\ ost' = [o \in Outs |-> [ost[o] EXCEPT !.unavailable =
                                        @ \/ o \in OutsOf(g)]]
           /\ pc' = "loop"
           /\ UNCHANGED cur
  /\ UNCHANGED <<inVars, dec, got_output, graph, sink, flagVars, chosen, todo,
                 lossy, failed>>

-----------------------------------------------------------------------------
(* process_input: a file gives nothing yet (files are only asked without   *)
(* blocking when there are several), ...                                   *)
NonBlocking == Cardinality(InFiles) > 1
Message(f) == content[f][read[f] + 1]

InputAgain ==
  /\ pc = "input" /\ NonBlocking
  /\ cur \notin arrived
  /\ eagain' = eagain \cup {cur}
  /\ ost' = [ost EXCEPT ![chosen].unavailable = TRUE]
  /\ pc' = "loop"
  /\ UNCHANGED <<content, read, arrived, eof_reached, dec, got_output, graph,
                 sink, flagVars, chosen, cur, todo, lossy, failed>>

(* ... a packet, which is copied and decoded, ...                          *)
InputPacket ==
  /\ pc = "input" /\ cur \in arrived
  /\ read[cur] < Len(content[cur])
  /\ LET p == Message(cur) IN
     /\ p # Mark
     /\ ost' = Available([o \in Outs |->
          IF o \in Copies /\ Source[o] = p.ist
          THEN do_streamcopy(o, ost[o], p) ELSE ost[o]])
     /\ dec' = IF p.ist \in Needed
               THEN [dec EXCEPT ![p.ist] = Append(@, p)] ELSE dec
     /\ pc' = IF p.ist \in Needed THEN "decode" ELSE "reap"
     /\ cur' = p.ist
  /\ read' = [read EXCEPT ![cur] = @ + 1]
  /\ arrived' = arrived \ {cur}
  /\ eagain' = {}
  /\ UNCHANGED <<content, eof_reached, got_output, graph, sink, flagVars,
                 chosen, todo, lossy, failed>>

(* ... the mark of a file that starts again, or its end.                   *)
InputLooped ==
  /\ pc = "input" /\ cur \in arrived
  /\ read[cur] < Len(content[cur])
  /\ Message(cur) = Mark
  /\ read' = [read EXCEPT ![cur] = @ + 1]
  /\ arrived' = arrived \ {cur}
  /\ pc' = "flush"
  /\ UNCHANGED <<content, eagain, eof_reached, dec, got_output, graph, sink,
                 ost, flagVars, chosen, cur, todo, lossy, failed>>

InputEof ==
  /\ pc = "input" /\ cur \in arrived
  /\ read[cur] = Len(content[cur])
  /\ pc' = "eof"
  /\ todo' = {s \in Ists : FileOf[s] = cur}
  /\ UNCHANGED <<inVars, dec, got_output, graph, sink, ost, flagVars, chosen,
                 cur, lossy, failed>>

(* process_input_packet: frames are taken until the decoder wants more; in *)
(* decode_flush, until those of the file that starts again are empty.      *)
Decode ==
  /\ pc \in {"decode", "flush"}
  /\ \E s \in Needed : TakeFrame(s)
  /\ UNCHANGED <<inVars, flagVars, stepVars, failed>>

Decoded ==
  /\ pc \in {"decode", "flush"}
  /\ \A s \in Needed : ~HasFrame(s)
  /\ pc' = IF pc = "decode" THEN "reap" ELSE "loop"
  /\ ost' = [ost EXCEPT ![chosen].unavailable =
                @ \/ (pc = "flush" /\ cur \in eagain)]
  /\ UNCHANGED <<inVars, dec, got_output, graph, sink, flagVars, chosen, cur,
                 todo, lossy, failed>>

(* process_input_packet(NULL): a decoder gives one frame, which ends the   *)
(* step, but not what follows the loop; ...                                *)
StreamGives ==
  /\ pc \in {"eof", "drain"} /\ todo # {}
  /\ TakeFrame(Min(todo))
  /\ todo' = todo \ {Min(todo)}
  /\ pc' = IF pc = "eof" THEN "reap" ELSE pc
  /\ UNCHANGED <<inVars, flagVars, chosen, cur, failed>>

(* ... or has ended, and so do the inputs of the graphs.                  *)
send_filter_eof(s, g) ==
  IF s \notin Inputs[g] THEN graph[g]
  ELSE [graph[g] EXCEPT !.eof = @ \cup {s},
                        !.fmt[s] = IF @ = NoFormat THEN 1 ELSE @]

Formatless(s) ==
  \E g \in Graphs : s \in Inputs[g] /\ graph[g].fmt[s] = NoFormat /\ s \notin Known

StreamEnds ==
  /\ pc \in {"eof", "drain"} /\ todo # {}
  /\ LET s == Min(todo)
         next == [g \in Graphs |-> send_filter_eof(s, g)] IN
     /\ dec[s] = <<>> /\ ~Formatless(s)
     /\ graph' = [g \in Graphs |-> Kept(g, next[g])]
     /\ sink' = [o \in Encoded |->
                   sink[o] \o Passed(GraphOf[o], next[GraphOf[o]])]
     /\ ost' = EndCopies(s, ost)
     /\ todo' = todo \ {s}
  /\ UNCHANGED <<inVars, dec, got_output, flagVars, pc, chosen, cur, lossy,
                 failed>>

EofReached ==
  /\ pc = "eof" /\ todo = {}
  /\ eof_reached' = eof_reached \cup {cur}
  /\ ost' = [ost EXCEPT ![chosen].unavailable = @ \/ cur \in eagain]
  /\ pc' = "loop"
  /\ UNCHANGED <<content, read, arrived, eagain, dec, got_output, graph, sink,
                 flagVars, chosen, cur, todo, lossy, failed>>

(* The step ends with reap_filters(0).                                     *)
Reap ==
  /\ pc = "reap"
  /\ ost' = reap_filters(FALSE)
  /\ sink' = EmptySinks
  /\ pc' = "loop"
  /\ UNCHANGED <<inVars, dec, got_output, graph, flagVars, chosen, cur, todo,
                 lossy, failed>>

(* exit_program: the format of an input cannot be found out, or the graph  *)
(* cannot be configured with that of a new frame.                          *)
ExitProgram ==
  /\ \/ /\ pc \in {"eof", "drain"} /\ todo # {}
        /\ dec[Min(todo)] = <<>> /\ Formatless(Min(todo))
     \/ \E s \in Needed : HasFrame(s) /\ Configures(Head(dec[s])) # {}
  /\ pc' = "exit"
  /\ UNCHANGED <<inVars, dec, got_output, graph, sink, ost, flagVars, chosen,
                 cur, todo, lossy, failed>>

-----------------------------------------------------------------------------
(* flush_encoders: a stream that was never initialized is, if the formats  *)
(* of its inputs are known; what encoders hold is output, and an end.      *)
(* Variant: what they hold is lost.                                        *)
Flushed_Drops(o) ==
  LET r == of_output_packet(o, ost[o], <<End>>) IN
  [r EXCEPT !.initialized = TRUE, !.enc = <<>>]

Flushed(o) ==
  LET gr == graph[GraphOf[o]]
      known == \A s \in Inputs[GraphOf[o]] : gr.fmt[s] # NoFormat \/ s \in Known
      r1 == IF ~ost[o].initialized /\ ~gr.up
            THEN of_output_packet(o, ost[o], <<End>>) ELSE ost[o]
      r2 == of_output_packet(o, r1, Append(r1.enc, End)) IN
  IF ~ost[o].initialized /\ ~gr.up /\ ~known THEN ost[o]
  ELSE [r2 EXCEPT !.initialized = TRUE, !.enc = <<>>]

flush_encoders ==
  /\ pc = "drain" /\ todo = {}
  /\ ost' = [o \in Outs |-> IF o \in Encoded THEN Flushed(o) ELSE ost[o]]
  /\ pc' = "done"
  /\ UNCHANGED <<inVars, dec, got_output, graph, sink, flagVars, chosen, cur,
                 todo, lossy, failed>>

(* The demuxer of a file has the next message, or the end, in its queue.   *)
Arrive(f) ==
  /\ f \notin arrived
  /\ pc \notin {"done", "exit"}
  /\ arrived' = arrived \cup {f}
  /\ UNCHANGED <<content, read, eagain, eof_reached, dec, got_output, graph,
                 sink, ost, flagVars, stepVars, lossy, failed>>

(* A muxer thread ends on an error; a signal is received.                  *)
MuxerEnds(of) ==
  /\ Started(of) /\ of \notin muxer_ended
  /\ pc \notin {"done", "exit"}
  /\ muxer_ended' = muxer_ended \cup {of}
  /\ UNCHANGED <<inVars, dec, got_output, graph, sink, ost, recording_time,
                 drops, received_sigterm, stepVars, lossy, failed>>

ReceiveSigterm ==
  /\ ~received_sigterm
  /\ pc \notin {"done", "exit"}
  /\ received_sigterm' = TRUE
  /\ UNCHANGED <<inVars, dec, got_output, graph, sink, ost, recording_time,
                 drops, muxer_ended, stepVars, lossy, failed>>

Over == pc \in {"done", "exit"} /\ UNCHANGED vars

MainStep ==
  \/ LeaveLoop \/ NoneAvailable \/ StepCopy \/ StepGraph \/ StepFails
  \/ RequestGives \/ RequestEnds \/ RequestWaits
  \/ InputAgain \/ InputPacket \/ InputLooped \/ InputEof
  \/ Decode \/ Decoded \/ StreamGives \/ StreamEnds \/ EofReached
  \/ Reap \/ ExitProgram \/ flush_encoders

Next ==
  \/ MainStep
  \/ \E f \in InFiles : Arrive(f)
  \/ \E of \in OutFiles : MuxerEnds(of)
  \/ ReceiveSigterm
  \/ Over

Spec == Init /\ [][Next]_vars

(* The main thread runs, and each demuxer thread gives an answer at last.  *)
FairSpec == /\ Spec /\ WF_vars(MainStep)
            /\ \A f \in InFiles : WF_vars(Arrive(f))

-----------------------------------------------------------------------------
Packets == UNION {{content[f][i] : i \in DOMAIN content[f]} : f \in InFiles}
Frames  == {p \in Packets : IsData(p)}

GraphType(g) ==
  [up : BOOLEAN, fmt : [Inputs[g] -> Nat], frame_queue : [Inputs[g] -> Seq(Frames)],
   held : [Inputs[g] -> Seq(Frames)], eof : SUBSET Inputs[g]]

OstType ==
  [initialized : BOOLEAN, inputs_done : BOOLEAN, finished : SUBSET {"enc", "mux"},
   unavailable : BOOLEAN, last : Nat \cup {NoPts}, enc : Seq(Frames),
   out : Seq(Frames \cup {End})]

(* Every variable keeps its type, and no decoder or encoder holds more     *)
(* than it may.                                                            *)
TypeOK ==
  /\ content \in Contents /\ read \in [InFiles -> Nat]
  /\ \A f \in InFiles : read[f] <= Len(content[f])
  /\ arrived \cup eagain \cup eof_reached \subseteq InFiles
  /\ dec \in [Ists -> Seq(Frames)] /\ \A s \in Ists : Len(dec[s]) <= DecDelay + 1
  /\ got_output \subseteq Ists
  /\ graph = [g \in Graphs |-> graph[g]]
  /\ \A g \in Graphs : graph[g] \in GraphType(g)
  /\ sink \in [Encoded -> Seq(Frames)]
  /\ ost \in [Outs -> OstType] /\ \A o \in Outs : Len(ost[o].enc) <= EncDelay
  /\ recording_time \in Limits
  /\ muxer_ended \subseteq OutFiles /\ received_sigterm \in BOOLEAN
  /\ pc \in {"loop", "request", "input", "decode", "flush", "eof", "reap",
             "drain", "done", "exit"}
  /\ chosen \in Outs \cup {0} /\ cur \in InFiles \cup Ists \cup {0}
  /\ todo \subseteq Ists /\ drops \subseteq lossy /\ lossy \subseteq Graphs
  /\ failed \in BOOLEAN

(* The elements of a sequence that are in K; its packets; those of one     *)
(* stream; what file of stream s holds of it.                              *)
Only(K, seq) ==
  LET only[n \in 0 .. Len(seq)] ==
        IF n = 0 THEN <<>>
        ELSE IF seq[n] \in K THEN Append(only[n - 1], seq[n]) ELSE only[n - 1]
  IN only[Len(seq)]

Data(seq) == Only(Packet, seq)
OfIst(s, seq) == Only({p \in Packet : p.ist = s}, seq)
Holds(s) == OfIst(s, content[FileOf[s]])

(* What is read reaches the output in order, through decoder, queue of the *)
(* unconfigured graph, graph, sink and encoder, as long as the output is   *)
(* not finished and its graph was not replaced with frames inside.         *)
NothingLost ==
  \A o \in Encoded : LET g == GraphOf[o] IN
    ost[o].finished = {} /\ g \notin lossy /\ pc \notin {"done", "exit"} =>
      \A s \in Inputs[g] :
        OfIst(s, ost[o].out \o ost[o].enc \o sink[o])
          \o graph[g].held[s] \o graph[g].frame_queue[s] \o dec[s]
        = OfIst(s, SubSeq(content[FileOf[s]], 1, read[FileOf[s]]))

(* A run that nobody interrupts and where nothing fails gives each output  *)
(* an end (two, perhaps, if its muxer is not started) with nothing behind  *)
(* it and, if time does not run backwards in its input, all of this input  *)
(* up to the recording time.                                               *)
InOrder(s) ==
  \A i \in DOMAIN Holds(s), j \in DOMAIN Holds(s) :
    i <= j => Holds(s)[i].pts <= Holds(s)[j].pts

Expected(o, s) ==
  LET all == Holds(s)
      keys == {i \in DOMAIN all : all[i].key}
      from == IF o \in Encoded THEN all
              ELSE IF keys = {} THEN <<>> ELSE SubSeq(all, Min(keys), Len(all)) IN
  Only({p \in Packet : InTime(o, p)}, from)

CompleteAtEnd ==
  pc = "done" /\ ~received_sigterm /\ ~failed /\ muxer_ended = {} =>
    \A o \in Outs :
      /\ LET n == Len(Data(ost[o].out)) IN
           /\ n < Len(ost[o].out)
           /\ \A i \in n + 1 .. Len(ost[o].out) : ost[o].out[i] = End
      /\ o \in Copies /\ InOrder(Source[o]) =>
           Data(ost[o].out) = Expected(o, Source[o])
      /\ /\ o \in Encoded /\ GraphOf[o] \notin lossy
         /\ \A s \in Inputs[GraphOf[o]] : InOrder(s)
         => \A s \in Inputs[GraphOf[o]] : OfIst(s, ost[o].out) = Expected(o, s)

(* Each output gets an end, also when a signal or a failure ends the loop, *)
(* or a stream was never initialized, and no packet comes after it.        *)
OutputsEnd ==
  \A o \in Outs : LET out == ost[o].out IN
    /\ \A i \in DOMAIN out, j \in DOMAIN out : out[i] = End /\ i <= j => out[j] = End
    /\ pc = "done" /\ OutFile[o] \notin muxer_ended => \E i \in DOMAIN out : out[i] = End

(* choose_output takes uninitialized streams first, without asking whether *)
(* they are finished: none may be, or the loop would not leave it.         *)
FinishedIsInitialized ==
  \A o \in Outs : ost[o].finished # {} => ost[o].initialized

(* The streams are interleaved: a copy runs ahead of a copy from another   *)
(* file by no more than the packets that decoders and graphs keep back,    *)
(* however late the packets of the other file are.                         *)
MaxLatency == Max({0} \cup {Latency[g] : g \in Graphs})

CopiesStayTogether ==
  \A o, p \in Copies :
    /\ FileOf[Source[o]] # FileOf[Source[p]]
    /\ {o, p} \subseteq Unfinished
    /\ ost[o].last # NoPts /\ ost[p].last # NoPts
    => Cardinality({q \in Frames : /\ q.ist = Source[o]
                                  /\ ost[p].last < q.pts /\ q.pts <= ost[o].last})
         <= 1 + DecDelay + MaxLatency

(* The loop ends, however slow the files are.                              *)
LoopEnds == <>(pc \in {"done", "exit"})
=============================================================================
