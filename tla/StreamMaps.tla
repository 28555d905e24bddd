----------------------------- MODULE StreamMaps -----------------------------
(***************************************************************************)
(* Which streams a command line reads, decodes and writes: the inputs of   *)
(* complex filter graphs take their streams, each output file applies its  *)
(* -map options, takes the unlabelled outputs of the graphs and then what  *)
(* the maps say or, without any, the best stream of each type, and at the  *)
(* end every output of a graph has to be connected.  (ffmpeg_opt.c,        *)
(* ffmpeg_filter.c and ffmpeg_mux_init.c; the input files are open.)       *)
(*                                                                         *)
(* A stream is its file and its index.  Codecs are looked up in libavcodec *)
(* and are there; attachments, unknown types and hardware are left out.    *)
(***************************************************************************)
EXTENDS Integers, Sequences, FiniteSets, SequencesExt

CONSTANTS
  InputSets,    (* sequences of files, each a sequence of streams          *)
  GraphSets,    (* sequences of complex graphs                             *)
  OutputSets,   (* sequences of output files                               *)
  Bonus,        (* what AV_DISPOSITION_DEFAULT adds to a score             *)
  NewBonus      (* what AVSTREAM_EVENT_FLAG_NEW_PACKETS adds               *)

(* A stream: its type, whether -discard all was set, its size (pixels or   *)
(* channels), whether packets of it came when the file was probed (new),   *)
(* whether it is the default one, an attached picture, and of a codec that *)
(* the output's encoder or format can do with (fits).                      *)
IsStream(s) ==
  /\ s.type \in {"v", "a", "s", "d"} /\ s.size \in Nat
  /\ {s.off, s.new, s.default, s.pic, s.fits} \subseteq BOOLEAN
ASSUME StreamAssumption ==
  \A files \in InputSets : \A f \in DOMAIN files : \A i \in DOMAIN files[f] :
    IsStream(files[f][i])
ASSUME BonusAssumption == Bonus \in Nat /\ NewBonus \in Nat

VARIABLES
  input_files, filtergraphs, outputs,   (* the command line                *)
  pc, i, j,       (* the phase; the graph or output file, and its part     *)
  bound,          (* the inputs of graphs so far: [stream, named, kept]    *)
  discard,        (* streams with ist->discard                             *)
  decoding_needed, processing_needed,   (* sets of streams                 *)
  pending,        (* outputs of graphs whose out_tmp is there              *)
  stream_maps,    (* of the output file being opened                       *)
  ost             (* for each output file, its streams: [stream, pad, enc] *)

commandLine == <<input_files, filtergraphs, outputs>>
used == <<bound, discard, decoding_needed, processing_needed>>
vars == <<commandLine, pc, i, j, used, pending, stream_maps, ost>>

Streams == UNION {{<<f, n>> : n \in DOMAIN input_files[f]} :
                    f \in DOMAIN input_files}
St(s) == input_files[s[1]][s[2]]

(* The streams of file f, in their order, and those of all files.           *)
OfFile(f) == [n \in DOMAIN input_files[f] |-> <<f, n>>]
ist_iter == FlattenSeq([f \in DOMAIN input_files |-> OfFile(f)])

(* check_stream_specifier for the specifiers "" and a type.                 *)
check_stream_specifier(s, spec) == spec = "" \/ St(s).type = spec

Pads == UNION {{<<g, k>> : k \in DOMAIN filtergraphs[g].outs} :
                 g \in DOMAIN filtergraphs}
Pad(p) == filtergraphs[p[1]].outs[p[2]]
PadSeq == FlattenSeq([g \in DOMAIN filtergraphs |->
                        [k \in DOMAIN filtergraphs[g].outs |-> <<g, k>>]])

Init ==
  /\ input_files \in InputSets /\ filtergraphs \in GraphSets
  /\ outputs \in OutputSets
  /\ pc = "graphs" /\ i = 1 /\ j = 1
  /\ bound = <<>> /\ discard = Streams
  /\ decoding_needed = {} /\ processing_needed = {}
  /\ pending = Pads /\ stream_maps = <<>>
  /\ ost = [o \in DOMAIN outputs |-> <<>>]

exit_program ==
  /\ pc' = "exit"
  /\ UNCHANGED <<commandLine, i, j, used, pending, stream_maps, ost>>

(***************************************************************************)
(* init_complex_filters                                                    *)
(***************************************************************************)

(* The streams an input without a name may take.                            *)
Unused(type) ==
  SelectSeq(ist_iter,
            LAMBDA s : ~St(s).off /\ St(s).type = type /\ s \in discard)

(* The streams that match the name of an input; a subtitle is rendered for  *)
(* a video input.                                                           *)
Named(in) ==
  SelectSeq(OfFile(in.file),
            LAMBDA s : St(s).type \in {in.type}
                         \cup (IF in.type = "v" THEN {"s"} ELSE {}))

Candidates(in) ==
  IF in.file = 0 THEN Unused(in.type)
  ELSE IF in.file \notin DOMAIN input_files THEN <<>>
  ELSE SelectSeq(Named(in), LAMBDA s : check_stream_specifier(s, in.spec))

init_input_filter ==
  /\ pc = "graphs" /\ i <= Len(filtergraphs)
  /\ j <= Len(filtergraphs[i].ins)
  /\ LET in == filtergraphs[i].ins[j]
         found == Candidates(in) IN
     IF found = <<>> \/ St(Head(found)).off THEN exit_program
     ELSE /\ bound' = Append(bound, [stream |-> Head(found),
                                     named |-> in.file # 0])
          /\ discard' = discard \ {Head(found)}
          /\ decoding_needed' = decoding_needed \cup {Head(found)}
          /\ processing_needed' = processing_needed \cup {Head(found)}
          /\ j' = j + 1
          /\ UNCHANGED <<commandLine, pc, i, pending, stream_maps, ost>>

NextGraph ==
  /\ pc = "graphs" /\ i <= Len(filtergraphs)
  /\ j > Len(filtergraphs[i].ins)
  /\ i' = i + 1 /\ j' = 1
  /\ UNCHANGED <<commandLine, pc, used, pending, stream_maps, ost>>

GraphsDone ==
  /\ pc = "graphs" /\ i > Len(filtergraphs)
  /\ pc' = "maps" /\ i' = 1 /\ j' = 1
  /\ UNCHANGED <<commandLine, used, pending, stream_maps, ost>>

(***************************************************************************)
(* opt_map                                                                 *)
(***************************************************************************)

Out == outputs[i]
MapOf(s) == [label |-> "", stream |-> s, disabled |-> FALSE]

(* Only the last map that matches is disabled.                              *)
Negated_Last(m) ==
  LET hits == {n \in DOMAIN stream_maps :
                 /\ stream_maps[n].stream[1] = m.file
                 /\ check_stream_specifier(stream_maps[n].stream, m.spec)} IN
  [n \in DOMAIN stream_maps |->
     IF n \in hits /\ \A k \in hits : k <= n
       THEN [stream_maps[n] EXCEPT !.disabled = TRUE] ELSE stream_maps[n]]

(* A negative map disables the maps so far that match.  The map of a label  *)
(* is that of the first stream of the first file as well, and matches so.   *)
Negated(m) ==
  [n \in DOMAIN stream_maps |->
     [stream_maps[n] EXCEPT !.disabled =
        \/ @
        \/ /\ stream_maps[n].stream[1] = m.file
           /\ check_stream_specifier(stream_maps[n].stream, m.spec)]]

(* The maps that a positive option adds: streams switched off are skipped.  *)
Added(m) ==
  LET hit == SelectSeq(OfFile(m.file),
                       LAMBDA s : check_stream_specifier(s, m.spec)
                                    /\ ~St(s).off) IN
  [n \in DOMAIN hit |-> MapOf(hit[n])]

(* One -map of output file i.  An option without effect is an error unless  *)
(* it ends with "?"; a negative one has an effect if there are maps at all. *)
opt_map ==
  /\ pc = "maps" /\ i <= Len(outputs) /\ j <= Len(Out.maps)
  /\ LET m == Out.maps[j]
         new == CASE m.kind = "label" ->
                       Append(stream_maps, [label |-> m.label, disabled |-> FALSE,
                                            stream |-> <<1, 1>>])
                  [] m.kind = "not" -> Negated(m)
                  [] m.kind = "map" -> stream_maps \o Added(m)
         nothing == IF m.kind = "map" THEN new = stream_maps ELSE new = <<>> IN
     IF \/ m.kind # "label" /\ m.file \notin DOMAIN input_files
        \/ nothing /\ ~m.optional
       THEN exit_program
       ELSE /\ stream_maps' = new /\ j' = j + 1
            /\ UNCHANGED <<commandLine, pc, i, used, pending, ost>>

MapsDone ==
  /\ pc = "maps" /\ i <= Len(outputs) /\ j > Len(Out.maps)
  /\ pc' = "pads" /\ j' = 1
  /\ UNCHANGED <<commandLine, i, used, pending, stream_maps, ost>>

(***************************************************************************)
(* create_streams                                                          *)
(***************************************************************************)

NoSource == <<0, 0>>
Encoded(type) == type \in {"v", "a", "s"} \ Out.copy

(* The stream is written, but still not read.                               *)
NewStreams_Unread(seq) ==
  /\ ost' = [ost EXCEPT ![i] = @ \o
               [n \in DOMAIN seq |->
                  [stream |-> seq[n], pad |-> NoSource,
                   enc |-> Encoded(St(seq[n]).type)]]]
  /\ discard' = discard \ {s \in Range(seq) : Encoded(St(s).type)}

(* new_video_stream, new_audio_stream, ... for streams of the inputs.       *)
NewStreams(seq) ==
  /\ ost' = [ost EXCEPT ![i] = @ \o
               [n \in DOMAIN seq |->
                  [stream |-> seq[n], pad |-> NoSource,
                   enc |-> Encoded(St(seq[n]).type)]]]
  /\ discard' = discard \ Range(seq)

(* A new stream for an output of a graph: it has to be encoded.             *)
init_output_filter(p) ==
  IF Pad(p).type \notin {"v", "a"} \ Out.copy THEN exit_program
  ELSE /\ ost' = [ost EXCEPT ![i] =
                    Append(@, [stream |-> NoSource, pad |-> p, enc |-> TRUE])]
       /\ pending' = pending \ {p}
       /\ j' = j + 1
       /\ UNCHANGED <<commandLine, pc, i, used, stream_maps>>

Unlabelled == SelectSeq(PadSeq, LAMBDA p : p \in pending /\ Pad(p).label = "")

TakePad ==
  /\ pc = "pads" /\ Unlabelled # <<>>
  /\ init_output_filter(Head(Unlabelled))

PadsTaken ==
  /\ pc = "pads" /\ Unlabelled = <<>>
  /\ pc' = "create" /\ j' = 1
  /\ UNCHANGED <<commandLine, i, used, pending, stream_maps, ost>>

Types == <<"v", "a", "s", "d">>
NotWanted ==
  Out.disable
    \cup {Pad(x.pad).type : x \in {y \in Range(ost[i]) : y.pad # NoSource}}

(* The score between files, where being the default of one says nothing;   *)
(* a picture does not count where the format takes no pictures.            *)
Between(s) ==
  IF St(s).type = "v" /\ St(s).pic /\ ~Out.apic THEN 1
  ELSE St(s).size + (IF St(s).new THEN NewBonus ELSE 0)

(* The score within a file.                                                *)
Score(s) ==
  IF St(s).type = "v" /\ St(s).pic /\ ~Out.apic THEN 1
  ELSE Between(s) + (IF St(s).default THEN Bonus ELSE 0)

(* A format with attached pictures (APIC) takes nothing else for a video.   *)
MayBe(s, type) ==
  /\ ~St(s).off /\ St(s).type = type
  /\ type = "v" /\ Out.apic => St(s).pic

Better(a, b, score(_)) ==
  IF (a = NoSource /\ score(b) > 0) \/ (a # NoSource /\ score(b) > score(a))
    THEN b ELSE a

FileBest(f, type) ==
  FoldLeft(LAMBDA a, s : IF MayBe(s, type) THEN Better(a, s, Score) ELSE a,
           NoSource, OfFile(f))

(* The winner of its file keeps its bonus.                                  *)
Best_Bonus(type) ==
  FoldLeft(LAMBDA a, f : LET s == FileBest(f, type) IN
             IF s = NoSource THEN a ELSE Better(a, s, Score),
           NoSource, [f \in DOMAIN input_files |-> f])

(* map_auto_video, map_auto_audio: the best of each file, then of all.      *)
Best(type) ==
  FoldLeft(LAMBDA a, f : LET s == FileBest(f, type) IN
             IF s = NoSource THEN a ELSE Better(a, s, Between),
           NoSource, [f \in DOMAIN input_files |-> f])

Fitting(type) ==
  SelectSeq(ist_iter,
            LAMBDA s : ~St(s).off /\ St(s).type = type /\ St(s).fits)

(* Subtitles: the first that fits; data: all that do.                       *)
Auto(type) ==
  CASE type \in NotWanted \/ type \notin Out.supports -> <<>>
    [] type \in {"v", "a"} ->
         IF Best(type) = NoSource THEN <<>> ELSE <<Best(type)>>
    [] type = "s" -> SubSeq(Fitting("s"), 1, Min({1, Len(Fitting("s"))}))
    [] type = "d" -> Fitting("d")

map_auto ==
  /\ pc = "create" /\ stream_maps = <<>> /\ j <= Len(Types)
  /\ NewStreams(Auto(Types[j]))
  /\ j' = j + 1
  /\ UNCHANGED <<commandLine, pc, i, bound, decoding_needed,
                 processing_needed, pending, stream_maps>>

Labelled(label) == SelectSeq(PadSeq, LAMBDA p : p \in pending
                                                  /\ Pad(p).label = label)

(* A disabled map is skipped, and so is a type that -vn, -an... switch off. *)
map_manual ==
  /\ pc = "create" /\ stream_maps # <<>> /\ j <= Len(stream_maps)
  /\ LET m == stream_maps[j] IN
     CASE m.disabled \/ (m.label = "" /\ St(m.stream).type \in Out.disable) ->
            /\ j' = j + 1
            /\ UNCHANGED <<commandLine, pc, i, used, pending, stream_maps, ost>>
       [] ~m.disabled /\ m.label # "" ->
            IF Labelled(m.label) = <<>> THEN exit_program
            ELSE init_output_filter(Head(Labelled(m.label)))
       [] OTHER ->
            /\ NewStreams(<<m.stream>>)
            /\ j' = j + 1
            /\ UNCHANGED <<commandLine, pc, i, bound, decoding_needed,
                           processing_needed, pending, stream_maps>>

Created ==
  /\ pc = "create"
  /\ j > IF stream_maps = <<>> THEN Len(Types) ELSE Len(stream_maps)

NoStreams == Created /\ ost[i] = <<>> /\ exit_program

(* of_open after create_streams: what is encoded has to be decoded.         *)
FileOpened ==
  /\ Created /\ ost[i] # <<>>
  /\ LET from(kind) == {x.stream : x \in {y \in Range(ost[i]) :
                          y.stream # NoSource /\ y.enc \in kind}} IN
     /\ decoding_needed' = decoding_needed \cup from({TRUE})
     /\ processing_needed' = processing_needed \cup from(BOOLEAN)
  /\ i' = i + 1 /\ j' = 1 /\ pc' = "maps" /\ stream_maps' = <<>>
  /\ UNCHANGED <<commandLine, bound, discard, pending, ost>>

check_filter_outputs ==
  /\ pc = "maps" /\ i > Len(outputs)
  /\ IF pending # {} THEN exit_program
     ELSE /\ pc' = "done"
          /\ UNCHANGED <<commandLine, i, j, used, pending, stream_maps, ost>>

Next ==
  \/ init_input_filter \/ NextGraph \/ GraphsDone
  \/ opt_map \/ MapsDone
  \/ TakePad \/ PadsTaken \/ map_auto \/ map_manual \/ NoStreams \/ FileOpened
  \/ check_filter_outputs

Spec == Init /\ [][Next]_vars

(***************************************************************************)
(* Properties                                                              *)
(***************************************************************************)

OstOf(o) == Range(ost[o])
AllOst == UNION {OstOf(o) : o \in DOMAIN outputs}

TypeOK ==
  /\ pc \in {"graphs", "maps", "pads", "create", "done", "exit"}
  /\ i \in Nat /\ j \in Nat
  /\ Range(bound) \subseteq [stream : Streams, named : BOOLEAN]
  /\ discard \subseteq Streams /\ pending \subseteq Pads
  /\ decoding_needed \subseteq Streams /\ processing_needed \subseteq Streams
  /\ AllOst \subseteq [stream : Streams \cup {NoSource},
                       pad : Pads \cup {NoSource}, enc : BOOLEAN]

(* The streams that an output of a graph feeds.                              *)
Fed(p) ==
  UNION {{<<o, n>> : n \in {k \in DOMAIN ost[o] : ost[o][k].pad = p}} :
           o \in DOMAIN outputs}

(* The demuxers drop the packets of a stream with discard, and the          *)
(* scheduler decodes or copies by the two other flags, all set at different *)
(* places while the files are opened: in the end a stream is read exactly   *)
(* if an output stream or a graph uses it, processed then, and decoded      *)
(* exactly if one of them needs frames; and every output of a graph feeds   *)
(* exactly one stream of one file.                                          *)
EverythingIsConnected ==
  pc = "done" =>
    LET filtered == {bound[n].stream : n \in DOMAIN bound}
        written(kind) == {x.stream : x \in {y \in AllOst : y.stream # NoSource
                                                         /\ y.enc \in kind}}
    IN /\ Streams \ discard = filtered \cup written(BOOLEAN)
       /\ processing_needed = filtered \cup written(BOOLEAN)
       /\ decoding_needed = filtered \cup written({TRUE})
       /\ \A p \in Pads : Cardinality(Fed(p)) = 1

(* The options ask for stream s so often: by the -map options that match it *)
(* and that no later negative one takes back.                               *)
Asked(o, s) ==
  LET maps == outputs[o].maps
      hits(n) == /\ maps[n].kind # "label" /\ maps[n].file = s[1]
                 /\ check_stream_specifier(s, maps[n].spec)
  IN IF St(s).off \/ St(s).type \in outputs[o].disable THEN 0
     ELSE Cardinality({n \in DOMAIN maps :
            /\ maps[n].kind = "map" /\ hits(n)
            /\ \A k \in (n + 1)..Len(maps) : ~(maps[k].kind = "not" /\ hits(k))})

Opened(o) == pc \in {"maps", "pads", "create", "done"} /\ o < i

(* An output file whose options name a stream has the streams the options   *)
(* ask for, each as often as they do, and no other.                         *)
MapsAreObeyed ==
  \A o \in DOMAIN outputs :
    (Opened(o) /\ \E n \in DOMAIN outputs[o].maps :
                     \/ outputs[o].maps[n].kind = "label"
                     \/ /\ outputs[o].maps[n].kind = "map"
                        /\ \E s \in Streams :
                             /\ s[1] = outputs[o].maps[n].file /\ ~St(s).off
                             /\ check_stream_specifier(s,
                                  outputs[o].maps[n].spec))
      => \A s \in Streams :
           Asked(o, s)
             = Cardinality({n \in DOMAIN ost[o] : ost[o][n].stream = s})

(* Without maps: the winner of a file has the greatest sum of size and      *)
(* bonuses, and is the first of them, so that a larger stream, or one whose *)
(* packets came early, may well beat the default one.  Between the winners  *)
(* being the default does not count, and one that has nothing else loses.   *)
Wins(s, type) ==
  /\ MayBe(s, type) /\ Score(s) > 0
  /\ \A t \in Streams : t[1] = s[1] /\ t # s /\ MayBe(t, type) =>
       \/ Score(t) < Score(s)
       \/ Score(t) = Score(s) /\ s[2] < t[2]

IsBest(s, type) ==
  /\ Wins(s, type) /\ Between(s) > 0
  /\ \A t \in Streams : t # s /\ Wins(t, type) =>
       \/ Between(t) < Between(s)
       \/ Between(t) = Between(s) /\ s[1] <= t[1]

(* map_auto_video and map_auto_audio: what the two nested loops find is the *)
(* best stream of the type, and nothing only if there is none.              *)
BestIsTaken ==
  (pc = "create" /\ stream_maps = <<>> /\ j > Len(Types)) =>
    \A type \in {"v", "a"} \cap Out.supports :
      LET taken == {x.stream : x \in {y \in Range(ost[i]) :
                      y.stream # NoSource /\ St(y.stream).type = type}}
          graphs == {x \in Range(ost[i]) : x.pad # NoSource
                                              /\ Pad(x.pad).type = type}
      IN taken = IF type \in Out.disable \/ graphs # {} THEN {}
                 ELSE {s \in Streams : IsBest(s, type)}
=============================================================================
