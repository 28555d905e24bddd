-------------------------- MODULE Transcode_proofs --------------------------
(***************************************************************************)
(* Transcode for any files, streams, graphs and delays: no finished output *)
(* is uninitialized, every output gets an end and nothing behind it, no    *)
(* frame is lost or overtaken on its way from the file to the output, and  *)
(* a run that nobody interrupts gives each output all that it may get.     *)
(***************************************************************************)
EXTENDS Transcode, SequenceTheorems, FiniteSetTheorems, WellFoundedInduction,
        TLAPS

HasEnd(out) == \E i \in DOMAIN out : out[i] = End
EndIsLast(out) ==
  \A i \in DOMAIN out, j \in DOMAIN out : out[i] = End /\ i <= j => out[j] = End

(* A record of output stream o: its type; what is finished is initialized, *)
(* and nothing is encoded before; a copy is initialized from the start;    *)
(* the muxer is done with a stream only at its end, unless it has failed.  *)
Good(o, r) ==
  /\ r \in OstType /\ Len(r.enc) <= EncDelay
  /\ r.finished # {} => r.initialized
  /\ ~r.initialized => r.enc = <<>>
  /\ o \in Copies => r.initialized
  /\ EndIsLast(r.out)
  /\ "mux" \in r.finished /\ OutFile[o] \notin muxer_ended => HasEnd(r.out)

OstInv ==
  /\ \A o \in Outs : Good(o, ost[o])
  /\ \A of \in muxer_ended : Started(of)

(* What the function that runs knows of the variables of the step, and     *)
(* what the decoders hold.                                                 *)
PlaceInv ==
  /\ pc = "request" => chosen \in Encoded /\ graph[GraphOf[chosen]].up
  /\ pc \in {"input", "eof", "flush"} => cur \in InFiles
  /\ pc = "decode" => cur \in Needed
  /\ pc = "eof" => /\ read[cur] = Len(content[cur])
                   /\ \A s \in todo : FileOf[s] = cur
  /\ \A s \in Ists : Len(dec[s]) <= DecDelay \/ (pc \in {"decode", "exit"} /\ s = cur)
  /\ \A s \in Ists : \A i \in DOMAIN dec[s] : dec[s][i].ist = s

(* The end of stream s has reached everybody: its copies have an end, and  *)
(* its graph knows its format.                                             *)
Ended(s) ==
  /\ \A g \in Graphs : s \in Inputs[g] => graph[g].fmt[s] # NoFormat
  /\ \A o \in Copies :
       Source[o] = s /\ OutFile[o] \notin muxer_ended => HasEnd(ost[o].out)

(* Copies end when their file does or the loop is left, encoded streams    *)
(* when they are flushed; who was told the end.                            *)
EndInv ==
  /\ \A o \in Encoded : HasEnd(ost[o].out) => pc = "done"
  /\ \A o \in Copies : HasEnd(ost[o].out) =>
       \/ pc \in {"drain", "done", "exit"}
       \/ read[FileOf[Source[o]]] = Len(content[FileOf[Source[o]]])
  /\ pc = "eof" => \A s \in Ists \ todo : FileOf[s] = cur => Ended(s)
  /\ pc = "drain" => \A s \in Ists \ todo : Ended(s)
  /\ \A s \in Ists : FileOf[s] \in eof_reached => Ended(s)
  /\ pc = "done" =>
       \A o \in Outs : OutFile[o] \notin muxer_ended => HasEnd(ost[o].out)

IInv == TypeOK /\ OstInv /\ PlaceInv /\ EndInv

-----------------------------------------------------------------------------
(* A set of naturals that is not empty has its least member.               *)
LEMMA Least ==
  ASSUME NEW T, T \subseteq Nat, T # {}
  PROVE  \E x \in T : \A y \in T : x <= y
<1>1. PICK x \in T : \A y \in T : <<y, x>> \notin OpToRel(<, Nat)
  BY WFMin, NatLessThanWellFounded, Zenon
<1>2. \A y \in T : ~ (y < x)
  BY <1>1 DEF OpToRel
<1> QED
  BY <1>2

(* So Min takes a member.                                                  *)
LEMMA MinIs ==
  ASSUME NEW T, T \subseteq Nat, T # {}
  PROVE  Min(T) \in T /\ \A y \in T : Min(T) <= y
<1>1. \E x \in T : \A y \in T : x <= y
  BY Least
<1> QED BY <1>1 DEF Min

(* What a packet of a file is.                                             *)
LEMMA FramesAre ==
  ASSUME content \in Contents, NEW p \in Frames
  PROVE  /\ p.ist \in Ists /\ p.pts \in Nat /\ p.fmt \in Nat \ {NoFormat}
         /\ p # End /\ p # Mark
<1>0. PICK f \in InFiles : p \in {content[f][i] : i \in DOMAIN content[f]}
  BY DEF Frames, Packets
<1>1. PICK i \in DOMAIN content[f] : p = content[f][i]
  BY <1>0
<1> DEFINE Data_ == [ist : {s \in Ists : FileOf[s] = f}, pts : Nat,
                     fmt : Nat \ {NoFormat}, key : BOOLEAN]
<1>2. content[f] \in Seq({Mark} \cup Data_)
  BY ContentAssumption
<1>3. p \in {Mark} \cup Data_
  <2> HIDE DEF Data_
  <2>1. i \in 1 .. Len(content[f])
    BY <1>2, LenProperties
  <2> QED BY <1>1, <1>2, <2>1, ElementOfSeq
<1>4. p.ist > 0
  BY DEF Frames, IsData
<1>5. p # Mark /\ p # End
  BY <1>4 DEF Mark, End
<1> QED BY <1>3, <1>5

(* The next message of a file.                                             *)
LEMMA MessageIs ==
  ASSUME content \in Contents, NEW f \in InFiles, read[f] \in Nat,
         read[f] < Len(content[f]), Message(f) # Mark
  PROVE  Message(f) \in Frames /\ FileOf[Message(f).ist] = f
<1> DEFINE Data_ == [ist : {s \in Ists : FileOf[s] = f}, pts : Nat,
                     fmt : Nat \ {NoFormat}, key : BOOLEAN]
           i == read[f] + 1
<1>1. content[f] \in Seq({Mark} \cup Data_)
  BY ContentAssumption
<1>2. i \in 1 .. Len(content[f]) /\ DOMAIN content[f] = 1 .. Len(content[f])
  <2> HIDE DEF Data_
  <2> QED BY <1>1, LenProperties
<1>3. content[f][i] \in {Mark} \cup Data_
  <2> HIDE DEF Data_, i
  <2> QED BY <1>1, <1>2, ElementOfSeq
<1>4. Message(f) \in Data_
  BY <1>3 DEF Message
<1>5. Message(f).ist \in Ists /\ FileOf[Message(f).ist] = f
  BY <1>4
<1>6. Message(f) \in Packets
  BY <1>2 DEF Message, Packets
<1> HIDE DEF Data_, i
<1>7. Message(f).ist > 0
  <2>1. \A s \in Ists : s \in Nat /\ s # 0
    BY InputAssumption
  <2>2. \A s \in Ists : s > 0
    BY <2>1
  <2> QED BY <1>5, <2>2
<1>8. IsData(Message(f))
  BY <1>7 DEF IsData
<1>9. Message(f) \in Frames
  BY <1>6, <1>8 DEF Frames
<1> QED BY <1>5, <1>9

(* Types that depend on what the files hold stay the same.                 *)
LEMMA SameTypes ==
  ASSUME content' = content
  PROVE  /\ Frames' = Frames /\ OstType' = OstType
         /\ \A g : GraphType(g)' = GraphType(g)
<1>1. Frames' = Frames
  BY DEF Frames, Packets
<1> QED BY <1>1 DEF OstType, GraphType

-----------------------------------------------------------------------------
(* An end is last if what comes after it are ends.                         *)
LEMMA EndStaysLast ==
  ASSUME NEW S, NEW a \in Seq(S), NEW b \in Seq(S),
         EndIsLast(a), EndIsLast(b),
         HasEnd(a) => \A i \in DOMAIN b : b[i] = End
  PROVE  /\ EndIsLast(a \o b)
         /\ HasEnd(a \o b) <=> HasEnd(a) \/ HasEnd(b)
<1> DEFINE m == Len(a)
           n == Len(b)
           c == a \o b
<1>1. /\ m \in Nat /\ n \in Nat /\ DOMAIN a = 1 .. m /\ DOMAIN b = 1 .. n
      /\ DOMAIN c = 1 .. m + n
      /\ \A i \in 1 .. m + n : c[i] = IF i <= m THEN a[i] ELSE b[i - m]
  BY LenProperties, ConcatProperties
<1> HIDE DEF m, n, c
<1>2. ASSUME NEW i \in 1 .. m + n, NEW j \in 1 .. m + n, c[i] = End, i <= j
      PROVE  c[j] = End
  <2>1. CASE j <= m
    BY <1>1, <1>2, <2>1 DEF EndIsLast
  <2>2. CASE j > m /\ i <= m
    <3>1. HasEnd(a) /\ j - m \in 1 .. n
      BY <1>1, <1>2, <2>2 DEF HasEnd
    <3> QED BY <1>1, <2>2, <3>1
  <2>3. CASE j > m /\ i > m
    <3>1. PICK k \in 1 .. n, l \in 1 .. n : k = i - m /\ l = j - m
      BY <1>1, <1>2, <2>3
    <3>2. b[k] = End /\ k <= l /\ c[j] = b[l]
      BY <1>1, <1>2, <2>3, <3>1
    <3> QED BY <1>1, <3>2 DEF EndIsLast
  <2> QED BY <1>1, <2>1, <2>2, <2>3
<1>3. HasEnd(c) => HasEnd(a) \/ HasEnd(b)
  <2> SUFFICES ASSUME NEW i \in 1 .. m + n, c[i] = End
               PROVE  HasEnd(a) \/ HasEnd(b)
    BY <1>1 DEF HasEnd
  <2>1. CASE i <= m
    BY <1>1, <2>1 DEF HasEnd
  <2>2. CASE i > m
    <3>1. PICK k \in 1 .. n : k = i - m
      BY <1>1, <2>2
    <3>2. b[k] = End
      BY <1>1, <2>2, <3>1
    <3> QED BY <1>1, <3>2 DEF HasEnd
  <2> QED BY <1>1, <2>1, <2>2
<1>4. HasEnd(a) => HasEnd(c)
  BY <1>1 DEF HasEnd
<1>5. HasEnd(b) => HasEnd(c)
  <2> SUFFICES ASSUME NEW i \in 1 .. n, b[i] = End PROVE HasEnd(c)
    BY <1>1 DEF HasEnd
  <2>1. m + i \in 1 .. m + n /\ ~(m + i <= m) /\ (m + i) - m = i
    BY <1>1
  <2> QED BY <1>1, <2>1 DEF HasEnd
<1> QED BY <1>1, <1>2, <1>3, <1>4, <1>5 DEF EndIsLast, c

(* A sequence of frames has no end.                                        *)
LEMMA FramesNoEnd ==
  ASSUME content \in Contents, NEW q \in Seq(Frames)
  PROVE  ~HasEnd(q) /\ EndIsLast(q)
<1>1. \A i \in DOMAIN q : q[i] \in Frames
  BY LenProperties, ElementOfSeq
<1>2. \A i \in DOMAIN q : q[i] # End
  BY <1>1, FramesAre
<1> QED BY <1>2 DEF HasEnd, EndIsLast

(* A prefix, and what comes after it.                                      *)
LEMMA CutOff ==
  ASSUME NEW S, NEW q \in Seq(S), NEW n \in 0 .. Len(q)
  PROVE  /\ SubSeq(q, 1, n) \in Seq(S) /\ Len(SubSeq(q, 1, n)) = n
         /\ SubSeq(q, n + 1, Len(q)) \in Seq(S)
         /\ Len(SubSeq(q, n + 1, Len(q))) = Len(q) - n
         /\ \A i \in 1 .. Len(q) - n : SubSeq(q, n + 1, Len(q))[i] = q[n + i]
<1>1. Len(q) \in Nat /\ n \in Nat /\ n <= Len(q)
  BY LenProperties
<1>2. \A i \in 1 .. Len(q) : q[i] \in S
  BY ElementOfSeq
<1>3. /\ SubSeq(q, 1, n) \in Seq(S)
      /\ Len(SubSeq(q, 1, n)) = IF 1 <= n THEN n - 1 + 1 ELSE 0
  <2>1. \A i \in 1 .. n : q[i] \in S
    BY <1>1, <1>2
  <2> QED BY <1>1, <2>1, SubSeqProperties
<1>4. /\ SubSeq(q, n + 1, Len(q)) \in Seq(S)
      /\ Len(SubSeq(q, n + 1, Len(q)))
           = IF n + 1 <= Len(q) THEN Len(q) - (n + 1) + 1 ELSE 0
      /\ \A i \in 1 .. Len(q) - (n + 1) + 1 :
           SubSeq(q, n + 1, Len(q))[i] = q[n + 1 + i - 1]
  <2>1. \A i \in n + 1 .. Len(q) : q[i] \in S
    BY <1>1, <1>2
  <2>2. n + 1 \in Int /\ Len(q) \in Int
    BY <1>1
  <2> QED BY <2>1, <2>2, SubSeqProperties
<1>5. Len(SubSeq(q, 1, n)) = n /\ Len(SubSeq(q, n + 1, Len(q))) = Len(q) - n
  BY <1>1, <1>3, <1>4
<1>6. ASSUME NEW i \in 1 .. Len(q) - n
      PROVE  SubSeq(q, n + 1, Len(q))[i] = q[n + i]
  <2>1. i \in 1 .. Len(q) - (n + 1) + 1 /\ n + 1 + i - 1 = n + i
    BY <1>1
  <2> QED BY <1>4, <2>1
<1> QED BY <1>3, <1>4, <1>5, <1>6

-----------------------------------------------------------------------------
(* A started file has initialized streams only.                            *)
LEMMA StartedIs ==
  ASSUME NEW o \in Outs, Started(OutFile[o])
  PROVE  ost[o].initialized
  BY DEF Started

(* of_output_packet.                                                       *)
LEMMA OutputPacket ==
  ASSUME OstInv, NEW o \in Outs, NEW r, Good(o, r),
         ost[o].initialized => r.initialized,
         NEW seq \in Seq(Frames \cup {End}), EndIsLast(seq),
         HasEnd(r.out) => \A i \in DOMAIN seq : seq[i] = End
  PROVE  LET q == of_output_packet(o, r, seq) IN
         /\ Good(o, q) /\ q.initialized = r.initialized
         /\ q.enc = r.enc /\ q.last = r.last /\ r.finished \subseteq q.finished
         /\ HasEnd(r.out) => HasEnd(q.out)
         /\ HasEnd(q.out) => HasEnd(r.out) \/ HasEnd(seq)
         /\ HasEnd(seq) /\ OutFile[o] \notin muxer_ended => HasEnd(q.out)
<1> DEFINE q == of_output_packet(o, r, seq)
           refused == OutFile[o] \in muxer_ended /\ seq # <<>>
           ended == End \in {seq[i] : i \in DOMAIN seq} /\ Started(OutFile[o])
<1>1. /\ r \in OstType /\ r.out \in Seq(Frames \cup {End}) /\ EndIsLast(r.out)
      /\ Len(r.enc) <= EncDelay /\ r.finished \subseteq {"enc", "mux"}
  BY DEF Good, OstType
<1>2. CASE "mux" \in r.finished
  <2>1. q = r
    BY <1>2 DEF of_output_packet
  <2>2. OutFile[o] \notin muxer_ended => HasEnd(r.out)
    BY <1>2 DEF Good
  <2> QED BY <2>1, <2>2
<1>3. CASE "mux" \notin r.finished /\ refused
  <2>1. q = [r EXCEPT !.finished = @ \cup {"mux"}]
    BY <1>1, <1>3 DEF of_output_packet, OstType
  <2>2. r.initialized
    BY <1>3, StartedIs DEF OstInv
  <2>3. /\ q \in OstType /\ q.initialized = r.initialized /\ q.enc = r.enc
        /\ q.last = r.last /\ q.out = r.out
        /\ q.finished = r.finished \cup {"mux"}
    BY <1>1, <2>1 DEF OstType
  <2>4. OutFile[o] \in muxer_ended
    BY <1>3
  <2> HIDE DEF q
  <2>5. Good(o, q)
    BY <1>1, <2>2, <2>3, <2>4 DEF Good
  <2> QED BY <2>3, <2>4, <2>5 DEF q
<1>4. CASE "mux" \notin r.finished /\ ~refused
  <2>1. q = [r EXCEPT !.out = @ \o seq,
                      !.finished = IF ended THEN @ \cup {"mux"} ELSE @]
    BY <1>1, <1>4 DEF of_output_packet
  <2>2. r.out \o seq \in Seq(Frames \cup {End})
    BY <1>1, ConcatProperties
  <2>3. /\ EndIsLast(r.out \o seq)
        /\ HasEnd(r.out \o seq) <=> HasEnd(r.out) \/ HasEnd(seq)
    BY <1>1, EndStaysLast
  <2>4. /\ q \in OstType /\ q.initialized = r.initialized /\ q.enc = r.enc
        /\ q.last = r.last /\ q.out = r.out \o seq
        /\ q.finished = IF ended THEN r.finished \cup {"mux"} ELSE r.finished
    BY <1>1, <2>1, <2>2 DEF OstType
  <2>5. ended => r.initialized /\ HasEnd(seq)
    BY StartedIs DEF HasEnd
  <2> HIDE DEF q, ended
  <2>6. Good(o, q)
    BY <1>1, <1>4, <2>3, <2>4, <2>5 DEF Good
  <2> QED BY <2>3, <2>4, <2>6 DEF q
<1> QED BY <1>2, <1>3, <1>4

(* How a step changes an output stream: it stays initialized, and its end  *)
(* stays; and if it is told no end.                                        *)
Grows(o, r) ==
  /\ Good(o, r)
  /\ ost[o].initialized => r.initialized
  /\ HasEnd(ost[o].out) => HasEnd(r.out)

Quiet(o, r) == Grows(o, r) /\ (HasEnd(r.out) => HasEnd(ost[o].out))

(* Flags that Good does not speak of.                                      *)
LEMMA FlagsAreQuiet ==
  ASSUME NEW o \in Outs, NEW r, Quiet(o, r), NEW b \in BOOLEAN
  PROVE  /\ Quiet(o, [r EXCEPT !.unavailable = b])
         /\ Quiet(o, [r EXCEPT !.inputs_done = b])
<1>1. r \in OstType
  BY DEF Quiet, Grows, Good
<1> DEFINE q == [r EXCEPT !.unavailable = b]
           p == [r EXCEPT !.inputs_done = b]
<1>2. /\ q \in OstType /\ q.out = r.out /\ q.finished = r.finished
      /\ q.initialized = r.initialized /\ q.enc = r.enc
  BY <1>1 DEF OstType
<1>3. /\ p \in OstType /\ p.out = r.out /\ p.finished = r.finished
      /\ p.initialized = r.initialized /\ p.enc = r.enc
  BY <1>1 DEF OstType
<1> HIDE DEF q, p
<1>4. Quiet(o, q) /\ Quiet(o, p)
  BY <1>2, <1>3 DEF Quiet, Grows, Good
<1> QED BY <1>4 DEF q, p

(* Nothing changes.                                                        *)
LEMMA SameIsQuiet ==
  ASSUME OstInv, NEW o \in Outs
  PROVE  Quiet(o, ost[o])
  BY DEF OstInv, Quiet, Grows

(* do_streamcopy of a packet, to a stream that was told no end.            *)
LEMMA CopyIsQuiet ==
  ASSUME content \in Contents, OstInv, NEW o \in Copies, o \in Outs,
         ~HasEnd(ost[o].out), NEW p \in Frames
  PROVE  Quiet(o, do_streamcopy(o, ost[o], p))
<1> DEFINE r == ost[o]
<1>1. Good(o, r) /\ r \in OstType /\ r.initialized
  BY DEF OstInv, Good
<1>2. p.pts \in Nat
  BY FramesAre
<1>3. CASE "mux" \in r.finished \/ (r.last = NoPts /\ ~p.key)
  <2>1. do_streamcopy(o, r, p) = r
    BY <1>3 DEF do_streamcopy
  <2> QED BY <2>1, SameIsQuiet
<1>4. CASE ~("mux" \in r.finished \/ (r.last = NoPts /\ ~p.key)) /\ ~InTime(o, p)
  <2> DEFINE q == [r EXCEPT !.finished = @ \cup {"enc"}]
  <2>1. do_streamcopy(o, r, p) = q
    BY <1>4 DEF do_streamcopy
  <2>2. /\ q \in OstType /\ q.initialized /\ q.out = r.out /\ q.enc = r.enc
        /\ "mux" \notin q.finished
    BY <1>1, <1>4 DEF OstType
  <2> HIDE DEF q
  <2>3. Quiet(o, q)
    BY <1>1, <2>2 DEF Quiet, Grows, Good
  <2> QED BY <2>1, <2>3
<1>5. CASE ~("mux" \in r.finished \/ (r.last = NoPts /\ ~p.key)) /\ InTime(o, p)
  <2> DEFINE q == [r EXCEPT !.last = p.pts]
  <2>1. do_streamcopy(o, r, p) = of_output_packet(o, q, <<p>>)
    BY <1>5 DEF do_streamcopy
  <2>2. /\ q \in OstType /\ q.initialized = r.initialized /\ q.out = r.out
        /\ q.enc = r.enc /\ q.finished = r.finished
    BY <1>1, <1>2 DEF OstType
  <2> HIDE DEF q
  <2>3. Good(o, q) /\ ~HasEnd(q.out)
    BY <1>1, <2>2 DEF Good
  <2>4. <<p>> \in Seq(Frames) /\ <<p>> \in Seq(Frames \cup {End})
    OBVIOUS
  <2>5. ~HasEnd(<<p>>) /\ EndIsLast(<<p>>)
    BY <2>4, FramesNoEnd
  <2>6. ost[o].initialized => q.initialized
    BY <2>2
  <2> DEFINE z == of_output_packet(o, q, <<p>>)
  <2>7. /\ Good(o, z) /\ z.initialized = q.initialized
        /\ HasEnd(z.out) => HasEnd(q.out) \/ HasEnd(<<p>>)
    BY <2>3, <2>4, <2>5, <2>6, OutputPacket
  <2> HIDE DEF z
  <2>8. Quiet(o, z)
    BY <1>1, <2>2, <2>3, <2>5, <2>7 DEF Quiet, Grows
  <2> QED BY <2>1, <2>8 DEF z
<1> QED BY <1>3, <1>4, <1>5

(* A sequence of a subset is one of the set; the empty ones.               *)
LEMMA Wider ==
  ASSUME NEW q \in Seq(Frames)
  PROVE  q \in Seq(Frames \cup {End})
  BY SeqMonotonic

(* The frames of the sink are encoded.                                     *)
LEMMA EncodeIsQuiet ==
  ASSUME content \in Contents, OstInv, NEW o \in Outs, ~HasEnd(ost[o].out),
         NEW r, Good(o, r), ost[o].initialized => r.initialized,
         r.out = ost[o].out,
         NEW frames \in Seq(Frames), frames # <<>> => r.initialized
  PROVE  /\ Quiet(o, encode_frames(o, r, frames))
         /\ encode_frames(o, r, frames).initialized = r.initialized
<1> DEFINE late == {i \in DOMAIN frames : ~InTime(o, frames[i])}
           upto == IF late = {} THEN Len(frames) ELSE Min(late) - 1
           all == r.enc \o SubSeq(frames, 1, upto)
           n == IF Len(all) > EncDelay THEN Len(all) - EncDelay ELSE 0
           given == SubSeq(all, 1, n)
           kept == SubSeq(all, n + 1, Len(all))
           r1 == of_output_packet(o, r, given)
           last == IF late # {} THEN frames[upto + 1].pts
                   ELSE IF frames # <<>> THEN Last(frames).pts ELSE r1.last
           fin == IF late # {} THEN r1.finished \cup {"enc"} ELSE r1.finished
           q == encode_frames(o, r, frames)
<1>1. /\ r \in OstType /\ r.enc \in Seq(Frames) /\ EncDelay \in Nat
      /\ Len(frames) \in Nat /\ DOMAIN frames = 1 .. Len(frames)
      /\ \A i \in 1 .. Len(frames) : frames[i] \in Frames
  BY GraphAssumption, LenProperties, ElementOfSeq DEF Good, OstType
<1>2. /\ upto \in 0 .. Len(frames)
      /\ late # {} => upto + 1 \in 1 .. Len(frames)
  <2>1. CASE late = {}
    BY <1>1, <2>1
  <2>2. CASE late # {}
    <3>1. late \subseteq Nat /\ late \subseteq 1 .. Len(frames)
      BY <1>1
    <3> HIDE DEF late
    <3>2. Min(late) \in late
      BY <2>2, <3>1, MinIs
    <3> QED BY <1>1, <2>2, <3>1, <3>2
  <2> QED BY <2>1, <2>2
<1>3. q = [r1 EXCEPT !.enc = kept, !.last = last, !.finished = fin]
  BY DEF encode_frames
<1>4. last \in Nat \cup {NoPts} \cup {r1.last}
  <2>1. CASE late # {}
    <3>1. frames[upto + 1] \in Frames
      BY <1>1, <1>2, <2>1
    <3> HIDE DEF upto
    <3> QED BY <2>1, <3>1, FramesAre
  <2>2. CASE late = {} /\ frames # <<>>
    <3>1. Len(frames) \in 1 .. Len(frames)
      BY <2>2, EmptySeq
    <3>2. Last(frames) \in Frames
      BY <1>1, <3>1 DEF Last
    <3> QED BY <2>2, <3>2, FramesAre
  <2>3. CASE late = {} /\ frames = <<>>
    BY <2>3
  <2> QED BY <2>1, <2>2, <2>3
<1>5. fin = r1.finished \/ (fin = r1.finished \cup {"enc"} /\ frames # <<>>)
  <2>1. late # {} => frames # <<>>
    OBVIOUS
  <2> QED BY <2>1
<1> HIDE DEF last, fin, late
<1>6. SubSeq(frames, 1, upto) \in Seq(Frames)
      /\ Len(SubSeq(frames, 1, upto)) = upto
  <2> HIDE DEF upto
  <2> QED BY <1>2, CutOff
<1>7. all \in Seq(Frames) /\ Len(all) = Len(r.enc) + upto
  BY <1>1, <1>6, ConcatProperties
<1>8. Len(all) \in Nat /\ n \in 0 .. Len(all) /\ Len(all) - n <= EncDelay
  <2>1. Len(all) \in Nat
    BY <1>7, LenProperties
  <2> HIDE DEF all
  <2> QED BY <1>1, <2>1
<1>9. ~r.initialized => Len(all) = 0
  <2> SUFFICES ASSUME ~r.initialized PROVE Len(all) = 0
    OBVIOUS
  <2>1. frames = <<>> /\ r.enc = <<>>
    BY DEF Good
  <2>2. Len(frames) = 0 /\ Len(r.enc) = 0
    BY <2>1
  <2> QED BY <1>2, <1>7, <2>2
<1> HIDE DEF all, n
<1>10. /\ given \in Seq(Frames) /\ kept \in Seq(Frames)
       /\ Len(kept) = Len(all) - n
  BY <1>7, <1>8, CutOff
<1>11. given \in Seq(Frames \cup {End}) /\ ~HasEnd(given) /\ EndIsLast(given)
  BY <1>10, Wider, FramesNoEnd
<1>12. Len(kept) <= EncDelay /\ (~r.initialized => kept = <<>>)
  <2>1. ~r.initialized => Len(kept) = 0
    BY <1>8, <1>9, <1>10
  <2> HIDE DEF kept
  <2> QED BY <1>8, <1>10, <2>1, EmptySeq
<1> HIDE DEF given, kept
<1>13. /\ Good(o, r1) /\ r1.initialized = r.initialized
       /\ HasEnd(r1.out) => HasEnd(r.out) \/ HasEnd(given)
  BY <1>11, OutputPacket
<1> HIDE DEF r1
<1>14. r1 \in OstType
  BY <1>13 DEF Good
<1>15. last \in Nat \cup {NoPts}
  BY <1>4, <1>14 DEF OstType
<1>16. fin \subseteq {"enc", "mux"} /\ ("mux" \in fin <=> "mux" \in r1.finished)
       /\ (fin # {} => r1.finished # {} \/ frames # <<>>)
  BY <1>5, <1>14 DEF OstType
<1>17. /\ q \in OstType /\ q.initialized = r1.initialized /\ q.out = r1.out
       /\ q.enc = kept /\ q.finished = fin
  BY <1>3, <1>10, <1>14, <1>15, <1>16 DEF OstType
<1> HIDE DEF q
<1>18. Good(o, q)
  BY <1>12, <1>13, <1>16, <1>17 DEF Good
<1>19. Quiet(o, q)
  BY <1>11, <1>13, <1>17, <1>18 DEF Quiet, Grows
<1> QED BY <1>13, <1>17, <1>19 DEF q

(* reap_filters: no stream is told its end.                                *)
LEMMA ReapedIsQuiet ==
  ASSUME TypeOK, OstInv, NEW o \in Outs, o \in Encoded => ~HasEnd(ost[o].out),
         NEW flush \in BOOLEAN
  PROVE  /\ Quiet(o, Reaped(o, flush))
         /\ o \in Copies => Reaped(o, flush) = ost[o]
         /\ o \in Encoded /\ graph[GraphOf[o]].up /\ flush /\ Drained(GraphOf[o])
              => Reaped(o, flush).initialized
<1>1. CASE o \in Copies \/ ~graph[GraphOf[o]].up
  <2>1. Reaped(o, flush) = ost[o]
    BY <1>1 DEF Reaped
  <2> QED BY <1>1, <2>1, SameIsQuiet DEF Encoded
<1>2. CASE o \notin Copies /\ graph[GraphOf[o]].up
  <2> DEFINE now == \/ ost[o].initialized \/ o \in Audio \/ sink[o] # <<>>
                    \/ (flush /\ Drained(GraphOf[o]))
             r == [ost[o] EXCEPT !.initialized = now]
  <2>1. Reaped(o, flush) = IF r.finished # {} THEN r ELSE encode_frames(o, r, sink[o])
    BY <1>2 DEF Reaped
  <2>2. o \in Encoded /\ sink[o] \in Seq(Frames) /\ ~HasEnd(ost[o].out)
    BY <1>2 DEF Encoded, TypeOK
  <2>3. Good(o, ost[o]) /\ ost[o] \in OstType
    BY DEF OstInv, Good
  <2>4. /\ ost[o].initialized \in BOOLEAN /\ now \in BOOLEAN
        /\ ost[o].initialized => now
        /\ sink[o] # <<>> => now
        /\ flush /\ Drained(GraphOf[o]) => now
    BY <2>3 DEF OstType
  <2> HIDE DEF now
  <2>5. /\ r \in OstType /\ r.initialized = now /\ r.out = ost[o].out
        /\ r.enc = ost[o].enc /\ r.finished = ost[o].finished
    BY <2>3, <2>4 DEF OstType
  <2> HIDE DEF r
  <2>6. Good(o, r)
    BY <2>3, <2>4, <2>5 DEF Good
  <2>7. CASE r.finished # {}
    <3>1. Reaped(o, flush) = r
      BY <2>1, <2>7
    <3>2. Quiet(o, r)
      BY <2>4, <2>5, <2>6 DEF Quiet, Grows
    <3> QED BY <1>2, <2>4, <2>5, <3>1, <3>2
  <2>8. CASE r.finished = {}
    <3>1. Reaped(o, flush) = encode_frames(o, r, sink[o])
      BY <2>1, <2>8
    <3>2. /\ Quiet(o, encode_frames(o, r, sink[o]))
          /\ encode_frames(o, r, sink[o]).initialized = r.initialized
      <4>1. content \in Contents
        BY DEF TypeOK
      <4>2. ost[o].initialized => r.initialized
        BY <2>4, <2>5
      <4>3. sink[o] # <<>> => r.initialized
        BY <2>4, <2>5
      <4> QED BY <2>2, <2>5, <2>6, <4>1, <4>2, <4>3, EncodeIsQuiet
    <3> QED BY <1>2, <2>4, <2>5, <3>1, <3>2
  <2> QED BY <2>7, <2>8
<1> QED BY <1>1, <1>2

(* The end of a stream is output.                                          *)
LEMMA EndPacket ==
  ASSUME OstInv, NEW o \in Outs, NEW r, Good(o, r),
         ost[o].initialized => r.initialized
  PROVE  LET q == of_output_packet(o, r, <<End>>) IN
         /\ Good(o, q) /\ q.initialized = r.initialized /\ q.enc = r.enc
         /\ HasEnd(r.out) => HasEnd(q.out)
         /\ OutFile[o] \notin muxer_ended => HasEnd(q.out)
<1> DEFINE seq == <<End>>
<1>1. /\ seq \in Seq(Frames \cup {End})
      /\ DOMAIN seq = {1} /\ seq[1] = End
  OBVIOUS
<1>2. \A i \in DOMAIN seq : seq[i] = End
  BY <1>1
<1>3. EndIsLast(seq) /\ HasEnd(seq)
  BY <1>1 DEF EndIsLast, HasEnd
<1> HIDE DEF seq
<1>4. LET q == of_output_packet(o, r, seq) IN
      /\ Good(o, q) /\ q.initialized = r.initialized /\ q.enc = r.enc
      /\ HasEnd(r.out) => HasEnd(q.out)
      /\ OutFile[o] \notin muxer_ended => HasEnd(q.out)
  BY <1>1, <1>2, <1>3, OutputPacket
<1> QED BY <1>4 DEF seq

(* EndCopies tells the copies of a stream their end.                       *)
LEMMA EndCopiesGrows ==
  ASSUME OstInv, NEW s, NEW r, NEW o \in Outs, Quiet(o, r[o])
  PROVE  LET q == EndCopies(s, r)[o] IN
         /\ Grows(o, q)
         /\ HasEnd(q.out) => HasEnd(ost[o].out) \/ (o \in Copies /\ Source[o] = s)
         /\ o \in Copies /\ Source[o] = s /\ OutFile[o] \notin muxer_ended
              => HasEnd(q.out)
         /\ o \notin Copies => q = r[o]
<1> DEFINE q == EndCopies(s, r)[o]
<1>1. CASE o \in Copies /\ Source[o] = s
  <2>1. q = of_output_packet(o, r[o], <<End>>)
    BY <1>1 DEF EndCopies
  <2>4. Good(o, r[o]) /\ (ost[o].initialized => r[o].initialized)
        /\ (HasEnd(ost[o].out) => HasEnd(r[o].out))
    BY DEF Quiet, Grows
  <2> DEFINE z == of_output_packet(o, r[o], <<End>>)
  <2>5. /\ Good(o, z) /\ z.initialized = r[o].initialized
        /\ HasEnd(r[o].out) => HasEnd(z.out)
        /\ OutFile[o] \notin muxer_ended => HasEnd(z.out)
    BY <2>4, EndPacket
  <2> HIDE DEF z
  <2>6. q = z
    BY <2>1 DEF z
  <2> HIDE DEF q
  <2>7. Grows(o, q)
    BY <2>4, <2>5, <2>6 DEF Grows
  <2> QED BY <1>1, <2>5, <2>6, <2>7 DEF q
<1>2. CASE ~(o \in Copies /\ Source[o] = s)
  <2>1. q = r[o]
    BY <1>2 DEF EndCopies
  <2> HIDE DEF q
  <2> QED BY <1>2, <2>1 DEF Quiet, q
<1> QED BY <1>1, <1>2

(* flush_encoders, when the graph knows all its formats.                   *)
LEMMA FlushedEnds ==
  ASSUME content \in Contents, OstInv, NEW o \in Encoded, ~HasEnd(ost[o].out),
         \A s \in Inputs[GraphOf[o]] : graph[GraphOf[o]].fmt[s] # NoFormat
  PROVE  /\ Grows(o, Flushed(o))
         /\ OutFile[o] \notin muxer_ended => HasEnd(Flushed(o).out)
<1> DEFINE empty == ~ost[o].initialized /\ ~graph[GraphOf[o]].up
           r1 == IF empty
                 THEN of_output_packet(o, ost[o], <<End>>) ELSE ost[o]
           seq == Append(r1.enc, End)
           r2 == of_output_packet(o, r1, seq)
           q == [r2 EXCEPT !.initialized = TRUE, !.enc = <<>>]
<1>1. Flushed(o) = q
  BY DEF Flushed
<1>2. o \in Outs /\ Good(o, ost[o]) /\ ost[o] \in OstType
  BY DEF Encoded, OstInv, Good
<1>5. /\ Good(o, r1) /\ r1.initialized = ost[o].initialized
      /\ r1.enc = ost[o].enc
      /\ HasEnd(r1.out) => ~ost[o].initialized
  <2>1. CASE empty
    <3> HIDE DEF empty
    <3> DEFINE z == of_output_packet(o, ost[o], <<End>>)
    <3>1. Good(o, z) /\ z.initialized = ost[o].initialized /\ z.enc = ost[o].enc
      BY <1>2, EndPacket
    <3>2. r1 = z
      BY <2>1
    <3> HIDE DEF z, r1
    <3> QED BY <2>1, <3>1, <3>2 DEF empty
  <2>2. CASE ~empty
    <3> HIDE DEF empty
    <3>1. r1 = ost[o]
      BY <2>2
    <3> HIDE DEF r1
    <3> QED BY <1>2, <3>1
  <2> QED BY <2>1, <2>2
<1> HIDE DEF r1
<1>6. /\ r1 \in OstType /\ r1.enc \in Seq(Frames)
      /\ r1.enc \in Seq(Frames \cup {End})
      /\ (~r1.initialized => r1.enc = <<>>)
  BY <1>5, Wider DEF Good, OstType
<1>7. /\ seq \in Seq(Frames \cup {End}) /\ HasEnd(seq) /\ EndIsLast(seq)
      /\ HasEnd(r1.out) => \A i \in DOMAIN seq : seq[i] = End
  <2> DEFINE m == Len(r1.enc)
  <2>1. /\ seq \in Seq(Frames \cup {End}) /\ Len(seq) = m + 1 /\ m \in Nat
        /\ \A i \in 1 .. m : seq[i] = r1.enc[i]
        /\ seq[m + 1] = End /\ DOMAIN seq = 1 .. m + 1
    BY <1>6, AppendProperties, LenProperties
  <2>2. \A i \in 1 .. m : r1.enc[i] \in Frames
    BY <1>6, ElementOfSeq
  <2> HIDE DEF seq
  <2>3. \A i \in 1 .. m : seq[i] # End
    BY <2>1, <2>2, FramesAre
  <2>4. HasEnd(seq) /\ EndIsLast(seq)
    BY <2>1, <2>3 DEF HasEnd, EndIsLast
  <2>5. HasEnd(r1.out) => m = 0
    <3>1. HasEnd(r1.out) => r1.enc = <<>>
      BY <1>5, <1>6
    <3>2. r1.enc = <<>> => Len(r1.enc) = 0
      OBVIOUS
    <3> QED BY <3>1, <3>2
  <2> HIDE DEF m
  <2>6. HasEnd(r1.out) => \A i \in DOMAIN seq : seq[i] = End
    BY <2>1, <2>5
  <2> QED BY <2>1, <2>4, <2>6
<1> HIDE DEF seq
<1>8. /\ Good(o, r2) /\ r2.initialized = r1.initialized
      /\ OutFile[o] \notin muxer_ended => HasEnd(r2.out)
  BY <1>2, <1>5, <1>7, OutputPacket
<1> HIDE DEF r2
<1>9. r2 \in OstType /\ EncDelay \in Nat /\ <<>> \in Seq(Frames) /\ Len(<<>>) = 0
  BY <1>8, GraphAssumption, EmptySeq DEF Good
<1>10. /\ q \in OstType /\ q.initialized /\ q.enc = <<>> /\ q.out = r2.out
       /\ q.finished = r2.finished
  BY <1>9 DEF OstType
<1> HIDE DEF q
<1>11. Good(o, q)
  BY <1>8, <1>9, <1>10 DEF Good
<1>12. Grows(o, q)
  BY <1>10, <1>11 DEF Grows
<1> QED BY <1>1, <1>8, <1>10, <1>12

-----------------------------------------------------------------------------
(* Part of a sequence.                                                     *)
LEMMA PartOf ==
  ASSUME NEW S, NEW q \in Seq(S), NEW m \in Nat \ {0}, NEW n \in Int, n <= Len(q)
  PROVE  SubSeq(q, m, n) \in Seq(S)
<1>1. \A i \in m .. n : i \in 1 .. Len(q)
  BY LenProperties
<1>2. \A i \in m .. n : q[i] \in S
  BY <1>1, ElementOfSeq
<1> QED BY <1>2, SubSeqProperties

(* What passes through a graph, and what it keeps.                         *)
LEMMA KeptIs ==
  ASSUME NEW g \in Graphs, NEW gr \in GraphType(g)
  PROVE  /\ Passed(g, gr) \in Seq(Frames)
         /\ Kept(g, gr) \in GraphType(g)
         /\ Kept(g, gr).fmt = gr.fmt /\ Kept(g, gr).up = gr.up
<1>1. /\ gr.held \in [Inputs[g] -> Seq(Frames)] /\ Latency[g] \in Nat
      /\ Inputs[g] # {}
  BY GraphAssumption DEF GraphType
<1>2. Passed(g, gr) \in Seq(Frames)
  <2>1. CASE g \notin Eager \/ ~gr.up
    <3>1. Passed(g, gr) = <<>>
      BY <2>1 DEF Passed
    <3> QED BY <3>1, EmptySeq
  <2>2. CASE ~(g \notin Eager \/ ~gr.up)
    <3> DEFINE s == CHOOSE s \in Inputs[g] : TRUE
               n == Len(gr.held[s]) - IF s \in gr.eof THEN 0 ELSE Latency[g]
    <3>1. s \in Inputs[g]
      BY <1>1
    <3> HIDE DEF s
    <3>2. gr.held[s] \in Seq(Frames) /\ Len(gr.held[s]) \in Nat
      BY <1>1, <3>1, LenProperties
    <3>3. n \in Int /\ n <= Len(gr.held[s])
      BY <1>1, <3>2
    <3>4. Passed(g, gr) = SubSeq(gr.held[s], 1, n)
      BY <2>2 DEF Passed, s
    <3> HIDE DEF n
    <3> QED BY <3>2, <3>3, <3>4, PartOf
  <2> QED BY <2>1, <2>2
<1> DEFINE l == Len(Passed(g, gr))
           rest == [s \in Inputs[g] |-> SubSeq(gr.held[s], l + 1, Len(gr.held[s]))]
<1>3. l \in Nat
  BY <1>2, LenProperties
<1>4. rest \in [Inputs[g] -> Seq(Frames)]
  <2> HIDE DEF l
  <2> SUFFICES ASSUME NEW s \in Inputs[g]
               PROVE  SubSeq(gr.held[s], l + 1, Len(gr.held[s])) \in Seq(Frames)
    OBVIOUS
  <2>1. gr.held[s] \in Seq(Frames) /\ Len(gr.held[s]) \in Nat /\ l + 1 \in Nat \ {0}
    BY <1>1, <1>3, LenProperties
  <2> QED BY <2>1, PartOf
<1>5. Kept(g, gr) = [gr EXCEPT !.held = rest]
  BY DEF Kept
<1> HIDE DEF rest
<1> QED BY <1>2, <1>4, <1>5 DEF GraphType

(* configure_filtergraph.                                                  *)
LEMMA ConfiguredIs ==
  ASSUME NEW g \in Graphs, NEW gr \in GraphType(g)
  PROVE  /\ configure_filtergraph(g, gr) \in GraphType(g)
         /\ configure_filtergraph(g, gr).fmt = gr.fmt
         /\ configure_filtergraph(g, gr).up
<1>1. [s \in Inputs[g] |-> <<>>] \in [Inputs[g] -> Seq(Frames)]
  BY EmptySeq
<1> DEFINE none == [s \in Inputs[g] |-> <<>>]
           h == IF g \in drops THEN none ELSE gr.frame_queue
<1>2. h \in [Inputs[g] -> Seq(Frames)]
  BY <1>1 DEF GraphType
<1>3. configure_filtergraph(g, gr)
        = [gr EXCEPT !.up = TRUE, !.held = h, !.frame_queue = none]
  BY DEF configure_filtergraph
<1> HIDE DEF h, none
<1> QED BY <1>1, <1>2, <1>3 DEF GraphType, none

(* ifilter_send_frame: the graph learns the format of the frame and        *)
(* forgets none.                                                           *)
LEMMA SendFrameIs ==
  ASSUME TypeOK, NEW g \in Graphs, NEW p \in Frames
  PROVE  LET gr == ifilter_send_frame(g, p) IN
         /\ gr \in GraphType(g)
         /\ \A s \in Inputs[g] :
              graph[g].fmt[s] # NoFormat \/ s = p.ist => gr.fmt[s] # NoFormat
<1>1. /\ graph[g] \in GraphType(g) /\ p.fmt \in Nat \ {NoFormat} /\ p.ist \in Ists
  BY FramesAre DEF TypeOK
<1>2. CASE p.ist \notin Inputs[g]
  <2>1. ifilter_send_frame(g, p) = graph[g]
    BY <1>2 DEF ifilter_send_frame
  <2> QED BY <1>1, <1>2, <2>1
<1>3. CASE p.ist \in Inputs[g]
  <2> DEFINE w == WithFormat(g, p)
  <2>1. /\ w \in GraphType(g) /\ w.fmt[p.ist] = p.fmt
        /\ \A s \in Inputs[g] \ {p.ist} : w.fmt[s] = graph[g].fmt[s]
        /\ ~Reinit(g, p) => w = graph[g]
    <3>1. CASE Reinit(g, p)
      <4> DEFINE f == [graph[g].fmt EXCEPT ![p.ist] = p.fmt]
      <4>1. w = [graph[g] EXCEPT !.fmt = f]
        BY <3>1 DEF WithFormat
      <4>2. /\ f \in [Inputs[g] -> Nat] /\ f[p.ist] = p.fmt
            /\ \A s \in Inputs[g] \ {p.ist} : f[s] = graph[g].fmt[s]
        BY <1>1, <1>3 DEF GraphType
      <4> HIDE DEF f, w
      <4> QED BY <1>1, <3>1, <4>1, <4>2 DEF GraphType
    <3>2. CASE ~Reinit(g, p)
      <4>1. w = graph[g] /\ graph[g].fmt[p.ist] = p.fmt
        BY <3>2 DEF WithFormat, Reinit
      <4> QED BY <1>1, <4>1
    <3> QED BY <3>1, <3>2
  <2> HIDE DEF w
  <2>2. CASE Reinit(g, p) /\ g \notin Configures(p)
    <3> DEFINE fq == [w.frame_queue EXCEPT ![p.ist] = Append(@, p)]
    <3>1. ifilter_send_frame(g, p) = [w EXCEPT !.frame_queue = fq]
      BY <1>3, <2>2 DEF ifilter_send_frame, w
    <3>2. w.frame_queue \in [Inputs[g] -> Seq(Frames)]
      BY <2>1 DEF GraphType
    <3>3. Append(w.frame_queue[p.ist], p) \in Seq(Frames)
      BY <1>3, <3>2, AppendProperties
    <3>4. fq \in [Inputs[g] -> Seq(Frames)]
      BY <3>2, <3>3
    <3> HIDE DEF fq
    <3> QED BY <1>1, <2>1, <3>1, <3>4 DEF GraphType
  <2>3. CASE ~(Reinit(g, p) /\ g \notin Configures(p))
    <3> DEFINE gr == IF g \in Configures(p) THEN configure_filtergraph(g, w) ELSE graph[g]
               hd == [gr.held EXCEPT ![p.ist] = Append(@, p)]
    <3>1. ifilter_send_frame(g, p) = IF g \in drops THEN gr ELSE [gr EXCEPT !.held = hd]
      BY <1>3, <2>3 DEF ifilter_send_frame, Sent, w
    <3>2. gr \in GraphType(g) /\ gr.fmt = w.fmt
      <4>1. CASE g \in Configures(p)
        BY <2>1, <4>1, ConfiguredIs
      <4>2. CASE g \notin Configures(p)
        BY <1>1, <2>1, <2>3, <4>2
      <4> QED BY <4>1, <4>2
    <3> HIDE DEF gr
    <3>3. gr.held \in [Inputs[g] -> Seq(Frames)]
      BY <3>2 DEF GraphType
    <3>4. Append(gr.held[p.ist], p) \in Seq(Frames)
      BY <1>3, <3>3, AppendProperties
    <3>5. hd \in [Inputs[g] -> Seq(Frames)]
      BY <3>3, <3>4
    <3> HIDE DEF hd
    <3> QED BY <1>1, <2>1, <3>1, <3>2, <3>5, ZenonT(60) DEF GraphType
  <2> QED BY <2>2, <2>3
<1> QED BY <1>2, <1>3

(* send_filter_eof.                                                        *)
LEMMA EofIs ==
  ASSUME TypeOK, NEW s \in Ists, NEW g \in Graphs
  PROVE  LET gr == send_filter_eof(s, g) IN
         /\ gr \in GraphType(g)
         /\ \A t \in Inputs[g] :
              graph[g].fmt[t] # NoFormat \/ t = s => gr.fmt[t] # NoFormat
<1>1. graph[g] \in GraphType(g)
  BY DEF TypeOK
<1>2. CASE s \notin Inputs[g]
  <2>1. send_filter_eof(s, g) = graph[g]
    BY <1>2 DEF send_filter_eof
  <2> QED BY <1>1, <1>2, <2>1
<1>3. CASE s \in Inputs[g]
  <2> DEFINE e == graph[g].eof \cup {s}
             f == [graph[g].fmt EXCEPT ![s] = IF @ = NoFormat THEN 1 ELSE @]
  <2>1. send_filter_eof(s, g) = [graph[g] EXCEPT !.eof = e, !.fmt = f]
    BY <1>3 DEF send_filter_eof
  <2>2. e \subseteq Inputs[g] /\ graph[g].fmt \in [Inputs[g] -> Nat]
    BY <1>1, <1>3 DEF GraphType
  <2>3. /\ f \in [Inputs[g] -> Nat]
        /\ \A t \in Inputs[g] :
             graph[g].fmt[t] # NoFormat \/ t = s => f[t] # NoFormat
    BY <1>3, <2>2 DEF NoFormat
  <2> HIDE DEF e, f
  <2> QED BY <1>1, <2>1, <2>2, <2>3 DEF GraphType
<1> QED BY <1>2, <1>3

-----------------------------------------------------------------------------
(* The buffers of decoders, graphs and sinks, and what the graphs know.    *)
Flow ==
  /\ dec \in [Ists -> Seq(Frames)]
  /\ \A s \in Ists : \A i \in DOMAIN dec[s] : dec[s][i].ist = s
  /\ graph = [g \in Graphs |-> graph[g]]
  /\ \A g \in Graphs : graph[g] \in GraphType(g)
  /\ sink \in [Encoded -> Seq(Frames)]

FormatsKept ==
  \A g \in Graphs : \A s \in Inputs[g] :
    graph[g].fmt[s] # NoFormat => graph'[g].fmt[s] # NoFormat

FormatKnown(s) == \A g \in Graphs : s \in Inputs[g] => graph'[g].fmt[s] # NoFormat

OstGrows ==
  /\ ost' = [o \in Outs |-> ost'[o]]
  /\ \A o \in Outs : Grows(o, ost'[o])

OstQuiet == OstGrows /\ \A o \in Outs : Quiet(o, ost'[o])

(* Copies of stream s, and no other streams, are told an end.              *)
TellsEnd(s) ==
  /\ OstGrows
  /\ \A o \in Outs : HasEnd(ost'[o].out) =>
       HasEnd(ost[o].out) \/ (o \in Copies /\ Source[o] = s)
  /\ \A o \in Copies :
       Source[o] = s /\ OutFile[o] \notin muxer_ended => HasEnd(ost'[o].out)

(* The flow has its type.                                                  *)
LEMMA FlowTypes ==
  ASSUME IInv
  PROVE  Flow
  BY DEF IInv, TypeOK, PlaceInv, Flow

(* The sets of streams.                                                    *)
LEMMA Sets ==
  /\ Encoded \subseteq Outs /\ Copies \subseteq Outs
  /\ \A o \in Encoded : GraphOf[o] \in Graphs
  /\ \A o \in Outs : o \in Encoded <=> o \notin Copies
  /\ \A g \in Graphs : Inputs[g] \subseteq Ists
  /\ \A s \in Ists : FileOf[s] \in InFiles
  /\ Ists \subseteq Nat
  BY InputAssumption, OutputAssumption, GraphAssumption DEF Encoded

(* The frame that is taken out of a decoder.                               *)
LEMMA FrameTaken ==
  ASSUME IInv, NEW s \in Ists, HasFrame(s)
  PROVE  /\ dec[s] \in Seq(Frames) /\ dec[s] # <<>>
         /\ Head(dec[s]) \in Frames /\ Head(dec[s]).ist = s
<1> DEFINE p == Head(dec[s])
<1>1. Flow /\ PlaceInv
  BY FlowTypes DEF IInv
<1>2. dec[s] \in Seq(Frames) /\ dec[s] # <<>>
  <2>1. dec[s] \in Seq(Frames)
    BY <1>1 DEF Flow
  <2>2. Len(dec[s]) > DecDelay => dec[s] # <<>>
    <3>1. DecDelay \in Nat /\ Len(<<>>) = 0
      BY GraphAssumption
    <3> QED BY <3>1
  <2>3. Holding # {} => Min(Holding) \in Holding
    <3>1. Holding \subseteq Nat
      BY Sets, GraphAssumption DEF Holding, Needed
    <3> QED BY <3>1, MinIs
  <2> QED BY <2>1, <2>2, <2>3 DEF HasFrame, Holding
<1>3. p \in Frames /\ p.ist = s
  <2>1. p \in Frames
    BY <1>2, HeadTailProperties
  <2>2. 1 \in DOMAIN dec[s] /\ p = dec[s][1]
    BY <1>2, EmptySeq, LenProperties
  <2> QED BY <1>1, <2>1, <2>2 DEF PlaceInv
<1> QED BY <1>2, <1>3

(* decode takes a frame and sends it on.                                   *)
LEMMA TakesFrame ==
  ASSUME IInv, NEW s \in Ists, TakeFrame(s), content' = content
  PROVE  /\ Flow' /\ FormatsKept /\ FormatKnown(s)
         /\ pc \in {"decode", "flush"} => OstQuiet
         /\ pc \in {"eof", "drain"} => TellsEnd(s)
         /\ \A t \in Ists : Len(dec'[t]) <= Len(dec[t])
         /\ got_output' \subseteq Ists
         /\ lossy \subseteq lossy' /\ lossy' \subseteq Graphs
         /\ HasFrame(s) /\ Len(dec'[s]) = Len(dec[s]) - 1 /\ Len(dec[s]) \in Nat
<1> DEFINE p == Head(dec[s])
           next == [g \in Graphs |-> ifilter_send_frame(g, p)]
           conf == Configures(p)
           r == IF conf # {} THEN reap_filters(TRUE) ELSE ost
<1>1. TypeOK /\ OstInv /\ PlaceInv /\ EndInv /\ Flow
  BY FlowTypes DEF IInv
<1>2. HasFrame(s) /\ dec' = [dec EXCEPT ![s] = Tail(@)] /\ got_output' = got_output \cup {s}
  BY DEF TakeFrame
<1>3. /\ ost' = IF pc \in {"eof", "drain"} THEN EndCopies(p.ist, r) ELSE r
      /\ sink' = [o \in Encoded |-> (IF conf # {} THEN <<>> ELSE sink[o])
                                      \o Passed(GraphOf[o], next[GraphOf[o]])]
      /\ graph' = [g \in Graphs |-> Kept(g, next[g])]
      /\ lossy' = lossy \cup {g \in conf : \E t \in Inputs[g] : graph[g].held[t] # <<>>}
  BY DEF TakeFrame, send_frame_to_filters
<1>4. dec[s] \in Seq(Frames) /\ dec[s] # <<>>
  BY <1>2, FrameTaken
<1>5. p \in Frames /\ p.ist = s
  BY <1>2, FrameTaken
<1>6. /\ Tail(dec[s]) \in Seq(Frames) /\ Len(Tail(dec[s])) = Len(dec[s]) - 1
      /\ Len(dec[s]) \in Nat
      /\ \A i \in DOMAIN Tail(dec[s]) : Tail(dec[s])[i].ist = s
  <2>1. /\ Tail(dec[s]) \in Seq(Frames) /\ Len(Tail(dec[s])) = Len(dec[s]) - 1
        /\ \A i \in 1 .. Len(Tail(dec[s])) : Tail(dec[s])[i] = dec[s][i + 1]
    BY <1>4, HeadTailProperties
  <2>2. /\ DOMAIN dec[s] = 1 .. Len(dec[s]) /\ Len(dec[s]) \in Nat
        /\ DOMAIN Tail(dec[s]) = 1 .. Len(Tail(dec[s]))
    BY <1>4, <2>1, LenProperties
  <2>3. \A i \in DOMAIN dec[s] : dec[s][i].ist = s
    BY <1>1 DEF Flow
  <2>4. \A i \in 1 .. Len(Tail(dec[s])) : i + 1 \in 1 .. Len(dec[s])
    BY <2>1, <2>2
  <2> QED BY <2>1, <2>2, <2>3, <2>4
<1>7. /\ dec' \in [Ists -> Seq(Frames)]
      /\ \A t \in Ists : Len(dec'[t]) <= Len(dec[t])
      /\ \A t \in Ists : \A i \in DOMAIN dec'[t] : dec'[t][i].ist = t
      /\ Len(dec'[s]) = Len(dec[s]) - 1
  <2>1. \A t \in Ists : dec'[t] = IF t = s THEN Tail(dec[s]) ELSE dec[t]
    BY <1>1, <1>2 DEF Flow
  <2>2. dec' \in [Ists -> Seq(Frames)]
    BY <1>1, <1>2, <1>6 DEF Flow
  <2>3. \A t \in Ists : dec[t] \in Seq(Frames) /\ Len(dec[t]) \in Nat
    BY <1>1, LenProperties DEF Flow
  <2>4. \A t \in Ists : Len(dec'[t]) <= Len(dec[t])
    <3> SUFFICES ASSUME NEW t \in Ists PROVE Len(dec'[t]) <= Len(dec[t])
      OBVIOUS
    <3>1. CASE t = s
      <4>1. dec'[t] = Tail(dec[s])
        BY <2>1, <3>1
      <4>2. Len(dec'[t]) = Len(dec[s]) - 1
        BY <1>6, <4>1
      <4> QED BY <1>6, <3>1, <4>2
    <3>2. CASE t # s
      <4>1. dec'[t] = dec[t]
        BY <2>1, <3>2
      <4> QED BY <2>3, <4>1
    <3> QED BY <3>1, <3>2
  <2>5. \A t \in Ists : \A i \in DOMAIN dec'[t] : dec'[t][i].ist = t
    <3>1. \A t \in Ists : \A i \in DOMAIN dec[t] : dec[t][i].ist = t
      BY <1>1 DEF Flow
    <3> QED BY <1>6, <2>1, <3>1, Zenon
  <2> QED BY <1>6, <2>1, <2>2, <2>4, <2>5
<1> HIDE DEF p
<1>8. ASSUME NEW g \in Graphs
      PROVE  /\ next[g] \in GraphType(g)
             /\ \A t \in Inputs[g] :
                  graph[g].fmt[t] # NoFormat \/ t = s => next[g].fmt[t] # NoFormat
  BY <1>1, <1>5, SendFrameIs
<1> HIDE DEF next
<1>9. ASSUME NEW g \in Graphs
      PROVE  /\ Kept(g, next[g]) \in GraphType(g) /\ graph'[g] = Kept(g, next[g])
             /\ Passed(g, next[g]) \in Seq(Frames)
             /\ \A t \in Inputs[g] :
                  graph[g].fmt[t] # NoFormat \/ t = s => graph'[g].fmt[t] # NoFormat
  <2>1. graph'[g] = Kept(g, next[g])
    BY <1>3
  <2>2. /\ Kept(g, next[g]) \in GraphType(g) /\ Kept(g, next[g]).fmt = next[g].fmt
        /\ Passed(g, next[g]) \in Seq(Frames)
    BY <1>8, KeptIs
  <2> QED BY <1>8, <2>1, <2>2
<1>10. FormatsKept /\ FormatKnown(s)
  BY <1>9 DEF FormatsKept, FormatKnown
<1>11. /\ graph' = [g \in Graphs |-> graph'[g]]
       /\ \A g \in Graphs : graph'[g] \in GraphType(g)
  BY <1>3, <1>9
<1>12. sink' \in [Encoded -> Seq(Frames)]
  <2> SUFFICES ASSUME NEW o \in Encoded
               PROVE  (IF conf # {} THEN <<>> ELSE sink[o])
                        \o Passed(GraphOf[o], next[GraphOf[o]]) \in Seq(Frames)
    BY <1>3
  <2>1. Passed(GraphOf[o], next[GraphOf[o]]) \in Seq(Frames)
    BY <1>9, Sets
  <2>2. (IF conf # {} THEN <<>> ELSE sink[o]) \in Seq(Frames)
    BY <1>1, EmptySeq DEF Flow
  <2> QED BY <2>1, <2>2, ConcatProperties
<1>13. Flow'
  <2>1. Frames' = Frames /\ \A g : GraphType(g)' = GraphType(g)
    BY SameTypes
  <2> QED BY <1>7, <1>11, <1>12, <2>1 DEF Flow
<1>14. r = [o \in Outs |-> r[o]] /\ \A o \in Outs : Quiet(o, r[o])
  <2>1. ASSUME NEW o \in Outs, pc # "done"
        PROVE  Quiet(o, Reaped(o, TRUE)) /\ Quiet(o, ost[o])
    <3>1. o \in Encoded => ~HasEnd(ost[o].out)
      BY <1>1, <2>1 DEF EndInv
    <3> QED BY <1>1, <3>1, ReapedIsQuiet, SameIsQuiet
  <2>2. pc # "done"
    BY <1>2 DEF HasFrame
  <2>3. ost = [o \in Outs |-> ost[o]]
    BY <1>1 DEF TypeOK
  <2>4. CASE conf # {}
    <3>1. r = [o \in Outs |-> Reaped(o, TRUE)]
      BY <2>4 DEF reap_filters
    <3> HIDE DEF r
    <3> QED BY <2>1, <2>2, <3>1
  <2>5. CASE conf = {}
    <3>1. r = ost
      BY <2>5
    <3> HIDE DEF r
    <3> QED BY <2>1, <2>2, <2>3, <3>1
  <2> QED BY <2>4, <2>5
<1> HIDE DEF r
<1>15. pc \in {"decode", "flush"} => OstQuiet
  <2> SUFFICES ASSUME pc \in {"decode", "flush"} PROVE OstQuiet
    OBVIOUS
  <2>1. ost' = r
    BY <1>3
  <2> QED BY <1>14, <2>1 DEF OstQuiet, OstGrows, Quiet
<1>16. pc \in {"eof", "drain"} => TellsEnd(s)
  <2> SUFFICES ASSUME pc \in {"eof", "drain"} PROVE TellsEnd(s)
    OBVIOUS
  <2>1. ost' = EndCopies(s, r)
    BY <1>3, <1>5
  <2>2. ost' = [o \in Outs |-> ost'[o]]
    BY <2>1 DEF EndCopies
  <2>3. ASSUME NEW o \in Outs
        PROVE  /\ Grows(o, ost'[o])
               /\ HasEnd(ost'[o].out) => HasEnd(ost[o].out) \/ (o \in Copies /\ Source[o] = s)
               /\ o \in Copies /\ Source[o] = s /\ OutFile[o] \notin muxer_ended
                    => HasEnd(ost'[o].out)
    BY <1>1, <1>14, <2>1, EndCopiesGrows
  <2> QED BY <2>2, <2>3, Sets DEF TellsEnd, OstGrows
<1>17. got_output' \subseteq Ists /\ lossy \subseteq lossy' /\ lossy' \subseteq Graphs
  <2>1. conf \subseteq Graphs
    BY DEF Configures
  <2> HIDE DEF conf
  <2> QED BY <1>1, <1>2, <1>3, <2>1 DEF TypeOK
<1> QED BY <1>2, <1>6, <1>7, <1>10, <1>13, <1>15, <1>16, <1>17

(* A stream without frames is told its end, and so are its graph and its   *)
(* copies.                                                                 *)
LEMMA StreamIsEnded ==
  ASSUME IInv, NEW s \in Ists, pc # "done", content' = content, UNCHANGED dec,
         graph' = [g \in Graphs |-> Kept(g, send_filter_eof(s, g))],
         sink' = [o \in Encoded |->
                    sink[o] \o Passed(GraphOf[o], send_filter_eof(s, GraphOf[o]))],
         ost' = EndCopies(s, ost)
  PROVE  Flow' /\ FormatsKept /\ FormatKnown(s) /\ TellsEnd(s)
<1>1. TypeOK /\ OstInv /\ Flow
  BY FlowTypes DEF IInv
<1>2. ASSUME NEW g \in Graphs
      PROVE  /\ graph'[g] \in GraphType(g)
             /\ Passed(g, send_filter_eof(s, g)) \in Seq(Frames)
             /\ \A t \in Inputs[g] :
                  graph[g].fmt[t] # NoFormat \/ t = s => graph'[g].fmt[t] # NoFormat
  <2> DEFINE gr == send_filter_eof(s, g)
  <2>1. /\ gr \in GraphType(g)
        /\ \A t \in Inputs[g] :
             graph[g].fmt[t] # NoFormat \/ t = s => gr.fmt[t] # NoFormat
    BY <1>1, EofIs
  <2>2. graph'[g] = Kept(g, gr)
    OBVIOUS
  <2> HIDE DEF gr
  <2>3. /\ Kept(g, gr) \in GraphType(g) /\ Kept(g, gr).fmt = gr.fmt
        /\ Passed(g, gr) \in Seq(Frames)
    BY <2>1, KeptIs
  <2> QED BY <2>1, <2>2, <2>3 DEF gr
<1>3. FormatsKept /\ FormatKnown(s)
  BY <1>2 DEF FormatsKept, FormatKnown
<1>4. sink' \in [Encoded -> Seq(Frames)]
  <2> SUFFICES ASSUME NEW o \in Encoded
               PROVE  sink[o] \o Passed(GraphOf[o], send_filter_eof(s, GraphOf[o]))
                        \in Seq(Frames)
    OBVIOUS
  <2>1. /\ Passed(GraphOf[o], send_filter_eof(s, GraphOf[o])) \in Seq(Frames)
        /\ sink[o] \in Seq(Frames)
    BY <1>1, <1>2, Sets DEF Flow
  <2> QED BY <2>1, ConcatProperties
<1>5. Flow'
  <2>1. Frames' = Frames /\ \A g : GraphType(g)' = GraphType(g)
    BY SameTypes
  <2>2. graph' = [g \in Graphs |-> graph'[g]]
    OBVIOUS
  <2> QED BY <1>1, <1>2, <1>4, <2>1, <2>2 DEF Flow
<1>6. TellsEnd(s)
  <2>1. ost' = [o \in Outs |-> ost'[o]]
    BY DEF EndCopies
  <2>2. ASSUME NEW o \in Outs
        PROVE  /\ Grows(o, ost'[o])
               /\ HasEnd(ost'[o].out) => HasEnd(ost[o].out) \/ (o \in Copies /\ Source[o] = s)
               /\ o \in Copies /\ Source[o] = s /\ OutFile[o] \notin muxer_ended
                    => HasEnd(ost'[o].out)
    <3>1. Quiet(o, ost[o])
      BY <1>1, SameIsQuiet
    <3> QED BY <1>1, <3>1, EndCopiesGrows
  <2> QED BY <2>1, <2>2, Sets DEF TellsEnd, OstGrows
<1> QED BY <1>3, <1>5, <1>6

-----------------------------------------------------------------------------
(* A graph that can give a frame gives the oldest of those it holds.       *)
LEMMA OldestIs ==
  ASSUME content \in Contents, NEW g \in Graphs, NEW gr \in GraphType(g),
         CanGive(g, gr)
  PROVE  /\ Oldest(g, gr) \in Inputs[g] /\ gr.held[Oldest(g, gr)] # <<>>
         /\ \A t \in Inputs[g] : gr.held[t] # <<>> =>
              gr.held[Oldest(g, gr)][1].pts < gr.held[t][1].pts
                \/ gr.held[Oldest(g, gr)][1].pts = gr.held[t][1].pts
<1> DEFINE H == {s \in Inputs[g] : gr.held[s] # <<>>}
           pts(s) == gr.held[s][1].pts
           T == {pts(s) : s \in H}
<1>1. H # {} /\ H \subseteq Inputs[g] /\ Inputs[g] \subseteq Nat
  BY Sets DEF CanGive
<1>2. ASSUME NEW s \in H PROVE pts(s) \in Nat
  <2>1. gr.held[s] \in Seq(Frames) /\ gr.held[s] # <<>>
    BY <1>1 DEF GraphType
  <2>2. 1 \in 1 .. Len(gr.held[s])
    BY <2>1, EmptySeq, LenProperties
  <2>3. gr.held[s][1] \in Frames
    BY <2>1, <2>2, ElementOfSeq
  <2> QED BY <2>3, FramesAre
<1>3. T \subseteq Nat /\ T # {}
  BY <1>1, <1>2
<1>4. PICK m \in T : \A n \in T : m <= n
  BY <1>3, Least
<1> DEFINE U == {s \in H : pts(s) = m}
<1>5. U \subseteq Nat /\ U # {}
  BY <1>1, <1>4
<1>6. PICK s \in U : \A t \in U : s <= t
  <2> HIDE DEF U
  <2> QED BY <1>5, Least
<1>7. /\ s \in Inputs[g] /\ gr.held[s] # <<>>
      /\ \A t \in Inputs[g] : gr.held[t] # <<>> =>
           pts(s) < pts(t) \/ (pts(s) = pts(t) /\ s <= t)
  <2> SUFFICES ASSUME NEW t \in Inputs[g], gr.held[t] # <<>>
               PROVE  pts(s) < pts(t) \/ (pts(s) = pts(t) /\ s <= t)
    BY <1>6
  <2>1. t \in H /\ s \in H /\ pts(s) = m
    BY <1>6
  <2>2. m <= pts(t) /\ m \in Nat /\ pts(t) \in Nat
    BY <1>2, <1>3, <1>4, <2>1
  <2>3. CASE pts(t) = m
    <3>1. t \in U
      BY <2>1, <2>3
    <3>2. s <= t
      BY <1>6, <3>1
    <3> QED BY <2>1, <2>3, <3>2
  <2>4. CASE pts(t) # m
    <3> HIDE DEF pts
    <3> QED BY <2>1, <2>2, <2>4
  <2> QED BY <2>3, <2>4
<1> QED BY <1>7 DEF Oldest

(* A graph gives a frame to its outputs.                                   *)
LEMMA GivesFlow ==
  ASSUME IInv, RequestGives
  PROVE  Flow' /\ FormatsKept
<1> DEFINE g == GraphOf[chosen]
           gr == graph[g]
           s == Oldest(g, gr)
<1>1. TypeOK /\ PlaceInv /\ Flow
  BY FlowTypes DEF IInv
<1>2. /\ pc = "request" /\ CanGive(g, gr) /\ content' = content /\ dec' = dec
      /\ graph' = [graph EXCEPT ![g].held[s] = Tail(@)]
      /\ sink' = [o \in Encoded |-> IF o \in OutsOf(g)
           THEN Append(sink[o], Head(gr.held[s])) ELSE sink[o]]
  BY DEF RequestGives, inVars
<1>3. g \in Graphs /\ gr \in GraphType(g)
  BY <1>1, <1>2, Sets DEF PlaceInv, Flow
<1>4. s \in Inputs[g] /\ gr.held[s] # <<>>
  BY <1>1, <1>2, <1>3, OldestIs DEF TypeOK
<1> HIDE DEF g, s
<1>5. gr.held[s] \in Seq(Frames)
  BY <1>3, <1>4 DEF GraphType
<1>6. Tail(gr.held[s]) \in Seq(Frames) /\ Head(gr.held[s]) \in Frames
  BY <1>4, <1>5, HeadTailProperties
<1> DEFINE q == [gr EXCEPT !.held[s] = Tail(@)]
<1>7. q \in GraphType(g) /\ q.fmt = gr.fmt
  BY <1>3, <1>4, <1>6 DEF GraphType
<1>8. graph' = [graph EXCEPT ![g] = q]
  BY <1>2
<1> HIDE DEF q, gr
<1>9. \A h \in Graphs : graph'[h] = IF h = g THEN q ELSE graph[h]
  BY <1>1, <1>8 DEF Flow
<1>10. graph' = [h \in Graphs |-> graph'[h]]
  BY <1>1, <1>8 DEF Flow
<1>11. \A h \in Graphs : graph'[h] \in GraphType(h) /\ graph'[h].fmt = graph[h].fmt
  BY <1>1, <1>7, <1>9 DEF Flow, gr
<1>12. sink' \in [Encoded -> Seq(Frames)]
  <2>1. \A o \in Encoded : Append(sink[o], Head(gr.held[s])) \in Seq(Frames)
    BY <1>1, <1>6, AppendProperties DEF Flow
  <2> QED BY <1>1, <1>2, <2>1 DEF Flow
<1>13. Flow'
  <2>1. Frames' = Frames /\ \A h : GraphType(h)' = GraphType(h)
    BY <1>2, SameTypes
  <2> QED BY <1>1, <1>2, <1>10, <1>11, <1>12, <2>1 DEF Flow
<1> QED BY <1>11, <1>13 DEF FormatsKept

(* A graph is configured when it can be, and what is queued passes.        *)
LEMMA StepFlow ==
  ASSUME IInv, StepGraph
  PROVE  Flow' /\ FormatsKept
<1> DEFINE g == GraphOf[choose_output]
           gr == IF ~graph[g].up /\ ifilter_has_all_input_formats(g, graph[g])
                 THEN configure_filtergraph(g, graph[g]) ELSE graph[g]
<1>1. Flow
  BY FlowTypes DEF IInv
<1>2. /\ choose_output \in Encoded /\ content' = content /\ dec' = dec
      /\ graph' = [graph EXCEPT ![g] = Kept(g, gr)]
      /\ sink' = [p \in Encoded |-> IF GraphOf[p] = g
                                    THEN sink[p] \o Passed(g, gr) ELSE sink[p]]
  BY DEF StepGraph, inVars
<1>3. g \in Graphs
  BY <1>2, Sets
<1> HIDE DEF g
<1>4. gr \in GraphType(g) /\ gr.fmt = graph[g].fmt
  BY <1>1, <1>3, ConfiguredIs DEF Flow
<1> HIDE DEF gr
<1>5. /\ Passed(g, gr) \in Seq(Frames) /\ Kept(g, gr) \in GraphType(g)
      /\ Kept(g, gr).fmt = graph[g].fmt
  BY <1>3, <1>4, KeptIs
<1>6. /\ graph' = [h \in Graphs |-> graph'[h]]
      /\ \A h \in Graphs : graph'[h] = IF h = g THEN Kept(g, gr) ELSE graph[h]
  BY <1>1, <1>2 DEF Flow
<1>7. \A h \in Graphs : graph'[h] \in GraphType(h) /\ graph'[h].fmt = graph[h].fmt
  BY <1>1, <1>5, <1>6 DEF Flow
<1>8. sink' \in [Encoded -> Seq(Frames)]
  <2>1. \A p \in Encoded : sink[p] \o Passed(g, gr) \in Seq(Frames)
    BY <1>1, <1>5, ConcatProperties DEF Flow
  <2> QED BY <1>1, <1>2, <2>1 DEF Flow
<1>9. Flow'
  <2>1. Frames' = Frames /\ \A h : GraphType(h)' = GraphType(h)
    BY <1>2, SameTypes
  <2> QED BY <1>1, <1>2, <1>6, <1>7, <1>8, <2>1 DEF Flow
<1> QED BY <1>7, <1>9 DEF FormatsKept

(* What leaves the graphs alone.                                           *)
LEMMA SameGraphs ==
  ASSUME IInv, content' = content, graph' = graph, dec' = dec,
         sink' \in [Encoded -> Seq(Frames)]
  PROVE  Flow' /\ FormatsKept
<1>1. Flow
  BY FlowTypes
<1>2. Frames' = Frames /\ \A g : GraphType(g)' = GraphType(g)
  BY SameTypes
<1> QED BY <1>1, <1>2 DEF Flow, FormatsKept

(* The packet that was read is given to its decoder.                       *)
LEMMA PacketFlow ==
  ASSUME IInv, InputPacket
  PROVE  /\ Flow' /\ FormatsKept
         /\ Message(cur) \in Frames /\ FileOf[Message(cur).ist] = cur
         /\ \A s \in Ists : Len(dec'[s]) <= DecDelay \/ (pc' = "decode" /\ s = cur')
         /\ \A s \in Ists : Len(dec'[s]) <= DecDelay + 1
<1> DEFINE p == Message(cur)
<1>1. TypeOK /\ PlaceInv /\ Flow
  BY FlowTypes DEF IInv
<1>2. /\ pc = "input" /\ content' = content /\ graph' = graph /\ sink' = sink
      /\ read[cur] < Len(content[cur]) /\ p # Mark /\ cur' = p.ist
      /\ dec' = IF p.ist \in Needed
                THEN [dec EXCEPT ![p.ist] = Append(@, p)] ELSE dec
      /\ pc' = IF p.ist \in Needed THEN "decode" ELSE "reap"
  BY DEF InputPacket
<1>3. p \in Frames /\ FileOf[p.ist] = cur
  <2>1. cur \in InFiles
    BY <1>1, <1>2 DEF PlaceInv
  <2>2. content \in Contents /\ read[cur] \in Nat
    BY <1>1, <2>1 DEF TypeOK
  <2> QED BY <1>2, <2>1, <2>2, MessageIs
<1> HIDE DEF p
<1>4. p.ist \in Ists
  BY <1>1, <1>3, FramesAre DEF TypeOK
<1>5. ASSUME NEW s \in Ists
      PROVE  dec[s] \in Seq(Frames) /\ Len(dec[s]) \in Nat /\ Len(dec[s]) <= DecDelay
  BY <1>1, <1>2, LenProperties DEF Flow, PlaceInv
<1>6. /\ Append(dec[p.ist], p) \in Seq(Frames)
      /\ Len(Append(dec[p.ist], p)) = Len(dec[p.ist]) + 1
      /\ \A i \in DOMAIN Append(dec[p.ist], p) : Append(dec[p.ist], p)[i].ist = p.ist
  <2>1. dec[p.ist] \in Seq(Frames) /\ \A i \in DOMAIN dec[p.ist] : dec[p.ist][i].ist = p.ist
    BY <1>1, <1>4 DEF Flow
  <2>2. /\ Append(dec[p.ist], p) \in Seq(Frames)
        /\ Len(Append(dec[p.ist], p)) = Len(dec[p.ist]) + 1
        /\ \A i \in 1 .. Len(dec[p.ist]) : Append(dec[p.ist], p)[i] = dec[p.ist][i]
        /\ Append(dec[p.ist], p)[Len(dec[p.ist]) + 1] = p
    BY <1>3, <2>1, AppendProperties
  <2>3. /\ DOMAIN Append(dec[p.ist], p) = 1 .. Len(dec[p.ist]) + 1
        /\ DOMAIN dec[p.ist] = 1 .. Len(dec[p.ist]) /\ Len(dec[p.ist]) \in Nat
    BY <2>1, <2>2, LenProperties
  <2>4. \A i \in 1 .. Len(dec[p.ist]) + 1 :
          i \in 1 .. Len(dec[p.ist]) \/ i = Len(dec[p.ist]) + 1
    BY <2>3
  <2> QED BY <2>1, <2>2, <2>3, <2>4
<1>7. /\ dec' \in [Ists -> Seq(Frames)]
      /\ \A s \in Ists : dec'[s] = IF p.ist \in Needed /\ s = p.ist
                                   THEN Append(dec[s], p) ELSE dec[s]
  BY <1>1, <1>2, <1>4, <1>6 DEF Flow
<1>8. \A s \in Ists : \A i \in DOMAIN dec'[s] : dec'[s][i].ist = s
  <2>1. \A s \in Ists : \A i \in DOMAIN dec[s] : dec[s][i].ist = s
    BY <1>1 DEF Flow
  <2> QED BY <1>6, <1>7, <2>1, Zenon
<1>9. Flow' /\ FormatsKept
  <2>1. Frames' = Frames /\ \A g : GraphType(g)' = GraphType(g)
    BY <1>2, SameTypes
  <2> QED BY <1>1, <1>2, <1>7, <1>8, <2>1 DEF Flow, FormatsKept
<1>10. ASSUME NEW s \in Ists
       PROVE  /\ Len(dec'[s]) <= DecDelay \/ (pc' = "decode" /\ s = cur')
              /\ Len(dec'[s]) <= DecDelay + 1
  <2>1. DecDelay \in Nat
    BY GraphAssumption
  <2>2. CASE p.ist \in Needed /\ s = p.ist
    <3>1. Len(dec'[s]) = Len(dec[s]) + 1
      BY <1>6, <1>7, <2>2
    <3> QED BY <1>2, <1>5, <2>1, <2>2, <3>1
  <2>3. CASE ~(p.ist \in Needed /\ s = p.ist)
    <3>1. dec'[s] = dec[s]
      BY <1>7, <2>3
    <3> QED BY <1>5, <2>1, <3>1
  <2> QED BY <2>2, <2>3
<1> QED BY <1>3, <1>9, <1>10 DEF p

(* The least stream of those still to be told their end.                   *)
LEMMA NextIs ==
  ASSUME IInv, todo # {}
  PROVE  Min(todo) \in todo /\ Min(todo) \in Ists
<1>1. todo \subseteq Ists /\ todo \subseteq Nat
  BY Sets DEF IInv, TypeOK
<1> QED BY <1>1, MinIs

(* Every step keeps the types of the buffers, and the formats that the     *)
(* graphs know.                                                            *)
LEMMA FlowSteps ==
  ASSUME IInv, [Next]_vars
  PROVE  Flow' /\ FormatsKept
<1> DEFINE Goal == Flow' /\ FormatsKept
<1>0. sink \in [Encoded -> Seq(Frames)] /\ EmptySinks \in [Encoded -> Seq(Frames)]
  BY FlowTypes, EmptySeq DEF Flow, EmptySinks
<1>1. CASE UNCHANGED <<content, graph, dec, sink>>
  BY <1>0, <1>1, SameGraphs
<1>2. CASE RequestEnds \/ Reap
  BY <1>0, <1>2, SameGraphs DEF RequestEnds, Reap, inVars
<1>3. CASE RequestGives
  BY <1>3, GivesFlow
<1>4. CASE StepGraph
  BY <1>4, StepFlow
<1>5. CASE InputPacket
  BY <1>5, PacketFlow
<1>6. CASE Decode
  <2>1. PICK s \in Needed : TakeFrame(s)
    BY <1>6 DEF Decode
  <2>2. s \in Ists /\ content' = content
    BY <1>6, GraphAssumption DEF Needed, Decode, inVars
  <2> QED BY <2>1, <2>2, TakesFrame
<1>7. CASE StreamGives
  <2>1. TakeFrame(Min(todo)) /\ content' = content /\ Min(todo) \in Ists
    BY <1>7, NextIs DEF StreamGives, inVars
  <2> QED BY <2>1, TakesFrame
<1>8. CASE StreamEnds
  <2> DEFINE s == Min(todo)
  <2>1. s \in Ists /\ pc # "done"
    BY <1>8, NextIs DEF StreamEnds
  <2>2. /\ content' = content /\ UNCHANGED dec
        /\ graph' = [g \in Graphs |-> Kept(g, send_filter_eof(s, g))]
        /\ sink' = [o \in Encoded |->
                      sink[o] \o Passed(GraphOf[o], send_filter_eof(s, GraphOf[o]))]
        /\ ost' = EndCopies(s, ost)
    BY <1>8, Sets DEF StreamEnds, inVars
  <2> HIDE DEF s
  <2> QED BY <2>1, <2>2, StreamIsEnded
<1>9. \/ UNCHANGED <<content, graph, dec, sink>>
      \/ RequestEnds \/ Reap \/ RequestGives \/ StepGraph \/ InputPacket
      \/ Decode \/ StreamGives \/ StreamEnds
  <2>1. CASE UNCHANGED vars
    BY <2>1 DEF vars, inVars
  <2>2. CASE Next
    <3>1. CASE MainStep
      BY <3>1 DEF MainStep, LeaveLoop, NoneAvailable, StepCopy, StepFails,
         RequestWaits, InputAgain, InputLooped, InputEof, Decoded, EofReached,
         ExitProgram, flush_encoders, inVars
    <3>2. CASE \E f \in InFiles : Arrive(f)
      BY <3>2 DEF Arrive
    <3>3. CASE \E of \in OutFiles : MuxerEnds(of)
      BY <3>3 DEF MuxerEnds, inVars
    <3>4. CASE ReceiveSigterm \/ Over
      BY <3>4 DEF ReceiveSigterm, Over, vars, inVars
    <3> QED BY <2>2, <3>1, <3>2, <3>3, <3>4 DEF Next
  <2> QED BY <2>1, <2>2
<1> QED BY <1>1, <1>2, <1>3, <1>4, <1>5, <1>6, <1>7, <1>8, <1>9

-----------------------------------------------------------------------------
(* More that can be done to an output stream without telling it an end:    *)
(* it is initialized, and what is initialized may be finished.             *)
LEMMA InitIsQuiet ==
  ASSUME NEW o \in Outs, NEW r, Quiet(o, r)
  PROVE  /\ \A b \in BOOLEAN : (r.initialized => b) =>
              Quiet(o, [r EXCEPT !.initialized = b])
         /\ r.initialized => Quiet(o, [r EXCEPT !.finished = @ \cup {"enc"}])
<1>1. r \in OstType
  BY DEF Quiet, Grows, Good
<1>2. ASSUME NEW b \in BOOLEAN, r.initialized => b
      PROVE  Quiet(o, [r EXCEPT !.initialized = b])
  <2> DEFINE q == [r EXCEPT !.initialized = b]
  <2>1. /\ q \in OstType /\ q.initialized = b /\ q.finished = r.finished
        /\ q.enc = r.enc /\ q.out = r.out
    BY <1>1, <1>2 DEF OstType
  <2> HIDE DEF q
  <2>2. Quiet(o, q)
    BY <1>2, <2>1 DEF Quiet, Grows, Good
  <2> QED BY <2>2 DEF q
<1>3. ASSUME r.initialized
      PROVE  Quiet(o, [r EXCEPT !.finished = @ \cup {"enc"}])
  <2> DEFINE q == [r EXCEPT !.finished = @ \cup {"enc"}]
  <2>1. /\ q \in OstType /\ q.initialized = r.initialized
        /\ q.finished = r.finished \cup {"enc"}
        /\ q.enc = r.enc /\ q.out = r.out
    BY <1>1 DEF OstType
  <2>2. "mux" \in q.finished => "mux" \in r.finished
    BY <2>1
  <2> HIDE DEF q
  <2>3. Quiet(o, q)
    BY <1>3, <2>1, <2>2 DEF Quiet, Grows, Good
  <2> QED BY <2>3 DEF q
<1> QED BY <1>2, <1>3

(* A step that leaves the streams alone, ...                               *)
LEMMA SameStreams ==
  ASSUME IInv, ost' = ost
  PROVE  OstQuiet
<1>1. ost = [o \in Outs |-> ost[o]] /\ OstInv
  BY DEF IInv, TypeOK
<1> QED BY <1>1, SameIsQuiet DEF OstQuiet, OstGrows, Quiet

(* ... or changes one.                                                     *)
LEMMA OneStream ==
  ASSUME IInv, NEW x, NEW r, x \in Outs => Quiet(x, r), ost' = [ost EXCEPT ![x] = r]
  PROVE  OstQuiet
<1>1. ost \in [Outs -> OstType] /\ OstInv
  BY DEF IInv, TypeOK
<1>2. ost' = [o \in Outs |-> IF o = x THEN r ELSE ost[o]]
  BY <1>1
<1>3. ost' = [o \in Outs |-> ost'[o]]
  BY <1>2
<1>4. ASSUME NEW o \in Outs PROVE Quiet(o, ost'[o])
  <2>1. ost'[o] = IF o = x THEN r ELSE ost[o]
    BY <1>2
  <2> QED BY <1>1, <2>1, SameIsQuiet
<1> QED BY <1>3, <1>4 DEF OstQuiet, OstGrows, Quiet

(* A flag of a stream is set.                                              *)
LEMMA FlagStep ==
  ASSUME IInv, NEW x, NEW b,
         x \in Outs => b \in BOOLEAN,
         \/ ost' = [ost EXCEPT ![x].unavailable = b]
         \/ ost' = [ost EXCEPT ![x].inputs_done = b]
         \/ ost' = [ost EXCEPT ![x].initialized = b] /\ (x \in Outs => (ost[x].initialized => b))
  PROVE  OstQuiet
<1>1. OstInv
  BY DEF IInv
<1>2. x \in Outs =>
        /\ Quiet(x, [ost[x] EXCEPT !.unavailable = b])
        /\ Quiet(x, [ost[x] EXCEPT !.inputs_done = b])
        /\ (ost[x].initialized => b) => Quiet(x, [ost[x] EXCEPT !.initialized = b])
  BY <1>1, SameIsQuiet, FlagsAreQuiet, InitIsQuiet
<1>3. CASE ost' = [ost EXCEPT ![x].unavailable = b]
  <2>1. ost' = [ost EXCEPT ![x] = [ost[x] EXCEPT !.unavailable = b]]
    BY <1>3
  <2> QED BY <1>2, <2>1, OneStream
<1>4. CASE ost' = [ost EXCEPT ![x].inputs_done = b]
  <2>1. ost' = [ost EXCEPT ![x] = [ost[x] EXCEPT !.inputs_done = b]]
    BY <1>4
  <2> QED BY <1>2, <2>1, OneStream
<1>5. CASE /\ ost' = [ost EXCEPT ![x].initialized = b]
           /\ x \in Outs => (ost[x].initialized => b)
  <2>1. ost' = [ost EXCEPT ![x] = [ost[x] EXCEPT !.initialized = b]]
    BY <1>5
  <2> QED BY <1>2, <1>5, <2>1, OneStream
<1> QED BY <1>3, <1>4, <1>5

(* The outputs of a graph that has ended are reaped and closed.            *)
LEMMA EndsQuiet ==
  ASSUME IInv, RequestEnds
  PROVE  OstQuiet
<1> DEFINE g == GraphOf[chosen]
<1>1. TypeOK /\ OstInv /\ PlaceInv /\ EndInv
  BY DEF IInv
<1>2. /\ pc = "request" /\ Drained(g)
      /\ ost' = [o \in Outs |-> IF o \in OutsOf(g)
                   THEN [Reaped(o, TRUE) EXCEPT !.finished = @ \cup {"enc"}]
                   ELSE Reaped(o, TRUE)]
  BY DEF RequestEnds, reap_filters
<1>3. ost' = [o \in Outs |-> ost'[o]]
  BY <1>2
<1>4. graph[g].up
  BY <1>1, <1>2 DEF PlaceInv
<1> HIDE DEF g
<1>5. ASSUME NEW o \in Outs
      PROVE  Quiet(o, ost'[o])
  <2>1. ost'[o] = IF o \in OutsOf(g)
                  THEN [Reaped(o, TRUE) EXCEPT !.finished = @ \cup {"enc"}]
                  ELSE Reaped(o, TRUE)
    BY <1>2
  <2>2. o \in Encoded => ~HasEnd(ost[o].out)
    BY <1>1, <1>2 DEF EndInv
  <2>3. Quiet(o, Reaped(o, TRUE))
    BY <1>1, <2>2, ReapedIsQuiet
  <2>4. CASE o \in OutsOf(g)
    <3>1. o \in Encoded /\ GraphOf[o] = g
      BY <2>4 DEF OutsOf
    <3>2. Reaped(o, TRUE).initialized
      BY <1>1, <1>2, <1>4, <2>2, <3>1, ReapedIsQuiet
    <3> QED BY <2>1, <2>3, <2>4, <3>2, InitIsQuiet
  <2>5. CASE o \notin OutsOf(g)
    BY <2>1, <2>3, <2>5
  <2> QED BY <2>4, <2>5
<1> QED BY <1>3, <1>5 DEF OstQuiet, OstGrows, Quiet

(* The packet that was read is copied.  The end of a copy comes after the  *)
(* last packet of its file, so this one has none.                          *)
LEMMA PacketQuiet ==
  ASSUME IInv, InputPacket
  PROVE  OstQuiet
<1> DEFINE p == Message(cur)
           C(o) == IF o \in Copies /\ Source[o] = p.ist
                   THEN do_streamcopy(o, ost[o], p) ELSE ost[o]
<1>1. TypeOK /\ OstInv /\ EndInv
  BY DEF IInv
<1>2. /\ pc = "input" /\ read[cur] < Len(content[cur])
      /\ ost' = Available([o \in Outs |-> C(o)])
  BY DEF InputPacket
<1>3. p \in Frames /\ FileOf[p.ist] = cur
  BY PacketFlow
<1> HIDE DEF p
<1>4. cur \in InFiles /\ read[cur] \in Nat
  BY <1>1, <1>2 DEF IInv, PlaceInv, TypeOK
<1>5. ASSUME NEW o \in Outs
      PROVE  Quiet(o, C(o))
  <2>1. CASE o \in Copies /\ Source[o] = p.ist
    <3>1. read[FileOf[Source[o]]] # Len(content[FileOf[Source[o]]])
      BY <1>2, <1>3, <1>4, <2>1
    <3>2. ~HasEnd(ost[o].out)
      BY <1>1, <1>2, <2>1, <3>1 DEF EndInv
    <3>3. Quiet(o, do_streamcopy(o, ost[o], p))
      BY <1>1, <1>3, <2>1, <3>2, CopyIsQuiet DEF TypeOK
    <3> QED BY <2>1, <3>3
  <2>2. CASE ~(o \in Copies /\ Source[o] = p.ist)
    BY <1>1, <2>2, SameIsQuiet
  <2> QED BY <2>1, <2>2
<1>6. ost' = [o \in Outs |-> [C(o) EXCEPT !.unavailable = FALSE]]
  BY <1>2 DEF Available
<1>7. ost' = [o \in Outs |-> ost'[o]]
  BY <1>6
<1> HIDE DEF C
<1>8. \A o \in Outs : Quiet(o, ost'[o])
  <2> SUFFICES ASSUME NEW o \in Outs PROVE Quiet(o, [C(o) EXCEPT !.unavailable = FALSE])
    BY <1>6
  <2> QED BY <1>5, FlagsAreQuiet
<1> QED BY <1>7, <1>8 DEF OstQuiet, OstGrows, Quiet

(* Only the end of a file, the draining and the flush tell an end.         *)
LEMMA QuietSteps ==
  ASSUME IInv, [Next]_vars, ~StreamGives, ~StreamEnds, ~flush_encoders
  PROVE  OstQuiet
<1>1. TypeOK /\ OstInv /\ PlaceInv /\ EndInv
  BY DEF IInv
<1>2. CASE ost' = ost
  BY <1>2, SameStreams
<1>3. CASE NoneAvailable \/ RequestWaits
  <2>1. ASSUME NEW o \in Outs, NEW b \in BOOLEAN
        PROVE  Quiet(o, [ost[o] EXCEPT !.unavailable = b])
    BY <1>1, SameIsQuiet, FlagsAreQuiet
  <2>2. CASE NoneAvailable
    <3>1. ost' = [o \in Outs |-> [ost[o] EXCEPT !.unavailable = FALSE]]
      BY <2>2 DEF NoneAvailable, Available
    <3>2. ost' = [o \in Outs |-> ost'[o]]
      BY <3>1
    <3>3. \A o \in Outs : Quiet(o, ost'[o])
      BY <2>1, <3>1
    <3> QED BY <3>2, <3>3 DEF OstQuiet, OstGrows, Quiet
  <2>3. CASE RequestWaits /\ ost' # ost
    <3> DEFINE b(o) == ost[o].unavailable \/ o \in OutsOf(GraphOf[chosen])
    <3>1. ost' = [o \in Outs |-> [ost[o] EXCEPT !.unavailable = b(o)]]
      BY <2>3 DEF RequestWaits
    <3>2. ost' = [o \in Outs |-> ost'[o]]
      BY <3>1
    <3>3. \A o \in Outs : b(o) \in BOOLEAN
      BY <1>1 DEF TypeOK, OstType
    <3> HIDE DEF b
    <3>4. \A o \in Outs : Quiet(o, ost'[o])
      BY <2>1, <3>1, <3>3
    <3> QED BY <3>2, <3>4 DEF OstQuiet, OstGrows, Quiet
  <2> QED BY <1>2, <1>3, <2>2, <2>3
<1>4. CASE StepGraph
  <2> DEFINE o == choose_output
             b == ost[o].initialized \/ o \in Audio
  <2>1. o \in Outs => b \in BOOLEAN
    BY <1>1 DEF TypeOK, OstType
  <2>2. \/ ost' = [ost EXCEPT ![o].initialized = b]
        \/ ost' = ost
        \/ ost' = [ost EXCEPT ![o].inputs_done = TRUE]
    <3> HIDE DEF o
    <3> QED BY <1>4 DEF StepGraph, o
  <2>3. ost[o].initialized => b
    OBVIOUS
  <2> HIDE DEF b, o
  <2>4. CASE ost' = [ost EXCEPT ![o].initialized = b]
    BY <2>1, <2>3, <2>4, FlagStep
  <2>5. CASE ost' = [ost EXCEPT ![o].inputs_done = TRUE]
    BY <2>5, FlagStep
  <2> QED BY <1>2, <2>2, <2>4, <2>5
<1>5. CASE InputAgain
  <2>1. ost' = [ost EXCEPT ![chosen].unavailable = TRUE]
    BY <1>5 DEF InputAgain
  <2> QED BY <2>1, FlagStep
<1>6. CASE Decoded \/ EofReached
  <2>1. PICK x \in BOOLEAN :
          ost' = [ost EXCEPT ![chosen].unavailable = ost[chosen].unavailable \/ x]
    <3>1. CASE Decoded
      <4> DEFINE x == pc = "flush" /\ cur \in eagain
      <4>1. ost' = [ost EXCEPT ![chosen].unavailable = ost[chosen].unavailable \/ x]
        BY <3>1 DEF Decoded
      <4>2. x \in BOOLEAN
        OBVIOUS
      <4> HIDE DEF x
      <4> QED BY <4>1, <4>2
    <3>2. CASE EofReached
      <4> DEFINE x == cur \in eagain
      <4>1. ost' = [ost EXCEPT ![chosen].unavailable = ost[chosen].unavailable \/ x]
        BY <3>2 DEF EofReached
      <4>2. x \in BOOLEAN
        OBVIOUS
      <4> HIDE DEF x
      <4> QED BY <4>1, <4>2
    <3> QED BY <1>6, <3>1, <3>2
  <2>2. chosen \in Outs => (ost[chosen].unavailable \/ x) \in BOOLEAN
    BY <1>1 DEF TypeOK, OstType
  <2> DEFINE b == ost[chosen].unavailable \/ x
  <2> HIDE DEF b
  <2> QED BY <2>1, <2>2, FlagStep DEF b
<1>7. CASE RequestEnds
  BY <1>7, EndsQuiet
<1>8. CASE InputPacket
  BY <1>8, PacketQuiet
<1>9. CASE Decode
  <2>1. PICK s \in Needed : TakeFrame(s)
    BY <1>9 DEF Decode
  <2>2. s \in Ists /\ content' = content /\ pc \in {"decode", "flush"}
    BY <1>9, GraphAssumption DEF Needed, Decode, inVars
  <2> QED BY <2>1, <2>2, TakesFrame
<1>10. CASE Reap
  <2>1. pc = "reap" /\ ost' = [o \in Outs |-> Reaped(o, FALSE)]
    BY <1>10 DEF Reap, reap_filters
  <2>2. ost' = [o \in Outs |-> ost'[o]]
    BY <2>1
  <2>3. ASSUME NEW o \in Outs PROVE Quiet(o, ost'[o])
    <3>1. o \in Encoded => ~HasEnd(ost[o].out)
      BY <1>1, <2>1 DEF EndInv
    <3>2. Quiet(o, Reaped(o, FALSE))
      BY <1>1, <3>1, ReapedIsQuiet
    <3> QED BY <2>1, <3>2
  <2> QED BY <2>2, <2>3 DEF OstQuiet, OstGrows, Quiet
<1>11. \/ ost' = ost
       \/ NoneAvailable \/ RequestWaits \/ StepGraph \/ InputAgain
       \/ Decoded \/ EofReached \/ RequestEnds \/ InputPacket \/ Decode \/ Reap
  <2>1. CASE UNCHANGED vars
    BY <2>1 DEF vars
  <2>2. CASE Next
    <3>1. CASE MainStep
      BY <3>1 DEF MainStep, LeaveLoop, StepCopy, StepFails, RequestGives,
         InputLooped, InputEof, ExitProgram
    <3>2. CASE \E f \in InFiles : Arrive(f)
      BY <3>2 DEF Arrive
    <3>3. CASE \E of \in OutFiles : MuxerEnds(of)
      BY <3>3 DEF MuxerEnds
    <3>4. CASE ReceiveSigterm \/ Over
      BY <3>4 DEF ReceiveSigterm, Over, vars
    <3> QED BY <2>2, <3>1, <3>2, <3>3, <3>4 DEF Next
  <2> QED BY <2>1, <2>2
<1> QED BY <1>2, <1>3, <1>4, <1>5, <1>6, <1>7, <1>8, <1>9, <1>10, <1>11

(* The steps that tell an end: decoding and ending at the end of a file,   *)
(* or when all is drained; ...                                             *)
LEMMA StreamSteps ==
  ASSUME IInv, StreamGives \/ StreamEnds
  PROVE  TellsEnd(Min(todo)) /\ FormatKnown(Min(todo))
<1>1. Min(todo) \in Ists /\ content' = content /\ pc \in {"eof", "drain"}
  BY NextIs DEF StreamGives, StreamEnds, inVars
<1>2. CASE StreamGives
  <2>1. TakeFrame(Min(todo))
    BY <1>2 DEF StreamGives
  <2> QED BY <1>1, <2>1, TakesFrame
<1>3. CASE StreamEnds
  <2> DEFINE s == Min(todo)
  <2>1. /\ UNCHANGED dec
        /\ graph' = [g \in Graphs |-> Kept(g, send_filter_eof(s, g))]
        /\ sink' = [o \in Encoded |->
                      sink[o] \o Passed(GraphOf[o], send_filter_eof(s, GraphOf[o]))]
        /\ ost' = EndCopies(s, ost)
    BY <1>3, Sets DEF StreamEnds, inVars
  <2>2. s \in Ists /\ content' = content /\ pc # "done"
    BY <1>1
  <2> HIDE DEF s
  <2>3. TellsEnd(s) /\ FormatKnown(s)
    BY <2>1, <2>2, StreamIsEnded
  <2> QED BY <2>3 DEF s
<1> QED BY <1>2, <1>3

(* ... and the flush of the encoders, when every stream was told its end.  *)
LEMMA FlushSteps ==
  ASSUME IInv, flush_encoders
  PROVE  /\ OstGrows
         /\ \A o \in Outs : OutFile[o] \notin muxer_ended => HasEnd(ost'[o].out)
<1>1. TypeOK /\ OstInv /\ EndInv
  BY DEF IInv
<1>2. /\ pc = "drain" /\ todo = {}
      /\ ost' = [o \in Outs |-> IF o \in Encoded THEN Flushed(o) ELSE ost[o]]
  BY DEF flush_encoders
<1>3. \A s \in Ists : Ended(s)
  BY <1>1, <1>2 DEF EndInv
<1>4. ASSUME NEW o \in Outs
      PROVE  /\ Grows(o, ost'[o])
             /\ OutFile[o] \notin muxer_ended => HasEnd(ost'[o].out)
  <2>1. CASE o \in Encoded
    <3>1. \A s \in Inputs[GraphOf[o]] : graph[GraphOf[o]].fmt[s] # NoFormat
      BY <1>3, <2>1, Sets DEF Ended
    <3>2. ~HasEnd(ost[o].out) /\ content \in Contents
      BY <1>1, <1>2, <2>1 DEF EndInv, TypeOK
    <3>3. ost'[o] = Flushed(o)
      BY <1>2, <2>1
    <3> QED BY <1>1, <2>1, <3>1, <3>2, <3>3, FlushedEnds
  <2>2. CASE o \notin Encoded
    <3>1. ost'[o] = ost[o] /\ o \in Copies /\ Source[o] \in Ists
      BY <1>2, <2>2, Sets, OutputAssumption
    <3>2. Ended(Source[o])
      BY <1>3, <3>1
    <3> QED BY <1>1, <3>1, <3>2, SameIsQuiet DEF Quiet, Ended
  <2> QED BY <2>1, <2>2
<1>5. ost' = [o \in Outs |-> ost'[o]]
  BY <1>2
<1> QED BY <1>4, <1>5 DEF OstGrows

(* What is good stays good, and no end is taken back.                      *)
LEMMA OstSteps ==
  ASSUME IInv, [Next]_vars
  PROVE  OstGrows
<1>1. CASE StreamGives \/ StreamEnds
  BY <1>1, StreamSteps DEF TellsEnd
<1>2. CASE flush_encoders
  BY <1>2, FlushSteps
<1>3. CASE ~StreamGives /\ ~StreamEnds /\ ~flush_encoders
  BY <1>3, QuietSteps DEF OstQuiet
<1> QED BY <1>1, <1>2, <1>3

-----------------------------------------------------------------------------
(* What the files hold and the limits stay; muxers only end.               *)
LEMMA Constant ==
  ASSUME [Next]_vars
  PROVE  /\ content' = content /\ drops' = drops
         /\ recording_time' = recording_time /\ muxer_ended \subseteq muxer_ended'
<1>1. CASE UNCHANGED vars
  BY <1>1 DEF vars, inVars, flagVars
<1>2. CASE MainStep
  BY <1>2 DEF MainStep, LeaveLoop, NoneAvailable, StepCopy, StepGraph, StepFails,
     RequestGives, RequestEnds, RequestWaits, InputAgain, InputPacket, InputLooped,
     InputEof, Decode, Decoded, StreamGives, StreamEnds, EofReached, Reap,
     ExitProgram, flush_encoders, inVars, flagVars
<1>3. CASE \E f \in InFiles : Arrive(f)
  BY <1>3 DEF Arrive, flagVars
<1>4. CASE \E of \in OutFiles : MuxerEnds(of)
  BY <1>4 DEF MuxerEnds, inVars
<1>5. CASE ReceiveSigterm \/ Over
  BY <1>5 DEF ReceiveSigterm, Over, vars, inVars, flagVars
<1> QED BY <1>1, <1>2, <1>3, <1>4, <1>5 DEF Next

(* How much of the files was read: more of one that had more.              *)
LEMMA Reads ==
  ASSUME IInv, [Next]_vars
  PROVE  \/ read' = read
         \/ /\ pc = "input" /\ pc' \in {"decode", "reap", "flush"}
            /\ cur \in InFiles /\ read[cur] < Len(content[cur])
            /\ read' = [read EXCEPT ![cur] = @ + 1]
<1>1. CASE UNCHANGED vars
  BY <1>1 DEF vars, inVars
<1>2. CASE MainStep
  <2>1. pc = "input" => cur \in InFiles
    BY DEF IInv, PlaceInv
  <2>2. CASE InputPacket \/ InputLooped
    BY <2>1, <2>2 DEF InputPacket, InputLooped
  <2>3. CASE ~InputPacket /\ ~InputLooped
    BY <1>2, <2>3 DEF MainStep, LeaveLoop, NoneAvailable, StepCopy, StepGraph,
       StepFails, RequestGives, RequestEnds, RequestWaits, InputAgain, InputEof,
       Decode, Decoded, StreamGives, StreamEnds, EofReached, Reap, ExitProgram,
       flush_encoders, inVars
  <2> QED BY <2>2, <2>3
<1>3. CASE \E f \in InFiles : Arrive(f)
  BY <1>3 DEF Arrive
<1>4. CASE \E of \in OutFiles : MuxerEnds(of)
  BY <1>4 DEF MuxerEnds, inVars
<1>5. CASE ReceiveSigterm \/ Over
  BY <1>5 DEF ReceiveSigterm, Over, vars, inVars
<1> QED BY <1>1, <1>2, <1>3, <1>4, <1>5 DEF Next

(* What is known of the output streams.                                    *)
LEMMA OstInvKept ==
  ASSUME IInv, [Next]_vars
  PROVE  OstInv'
<1>1. OstGrows /\ OstInv
  BY OstSteps DEF IInv
<1>2. content' = content /\ muxer_ended \subseteq muxer_ended'
  BY Constant
<1>3. OstType' = OstType
  BY <1>2, SameTypes
<1>4. ASSUME NEW o \in Outs
      PROVE  Good(o, ost[o])'
  <2> DEFINE r == ost'[o]
  <2>1. Good(o, r)
    BY <1>1 DEF OstGrows, Grows
  <2> SUFFICES /\ r \in OstType' /\ Len(r.enc) <= EncDelay
               /\ r.finished # {} => r.initialized
               /\ ~r.initialized => r.enc = <<>>
               /\ o \in Copies => r.initialized
               /\ EndIsLast(r.out)
               /\ "mux" \in r.finished /\ OutFile[o] \notin muxer_ended' => HasEnd(r.out)
    BY DEF Good, EndIsLast, HasEnd
  <2> HIDE DEF r
  <2> QED BY <1>2, <1>3, <2>1 DEF Good
<1>5. ASSUME NEW of \in muxer_ended'
      PROVE  Started(of)
  <2>1. of \in muxer_ended \/ MuxerEnds(of)
    <3>1. CASE UNCHANGED vars
      BY <3>1 DEF vars, flagVars
    <3>2. CASE MainStep
      BY <3>2 DEF MainStep, LeaveLoop, NoneAvailable, StepCopy, StepGraph, StepFails,
         RequestGives, RequestEnds, RequestWaits, InputAgain, InputPacket, InputLooped,
         InputEof, Decode, Decoded, StreamGives, StreamEnds, EofReached, Reap,
         ExitProgram, flush_encoders, flagVars
    <3>3. CASE \E f \in InFiles : Arrive(f)
      BY <3>3 DEF Arrive, flagVars
    <3>4. CASE \E x \in OutFiles : MuxerEnds(x)
      <4>1. PICK x \in OutFiles : MuxerEnds(x)
        BY <3>4
      <4>2. muxer_ended' = muxer_ended \cup {x}
        BY <4>1 DEF MuxerEnds
      <4> QED BY <4>1, <4>2
    <3>5. CASE ReceiveSigterm \/ Over
      BY <3>5 DEF ReceiveSigterm, Over, vars, flagVars
    <3> QED BY <3>1, <3>2, <3>3, <3>4, <3>5 DEF Next
  <2> QED BY <1>1, <2>1 DEF OstInv, MuxerEnds
<1>6. \A of \in muxer_ended' : Started(of)'
  BY <1>1, <1>5 DEF Started, OstGrows, Grows
<1> QED BY <1>4, <1>6 DEF OstInv

-----------------------------------------------------------------------------
(* Decoding goes on until the decoder wants more.                          *)
LEMMA FromDecode ==
  ASSUME [Next]_vars, pc \in {"decode", "exit"}
  PROVE  \/ pc = "decode" /\ Decoded
         \/ pc' \in {"decode", "exit"} /\ cur' = cur
<1>1. CASE UNCHANGED vars
  BY <1>1 DEF vars, stepVars
<1>2. CASE MainStep
  BY <1>2 DEF MainStep, LeaveLoop, NoneAvailable, StepCopy, StepGraph, StepFails,
     RequestGives, RequestEnds, RequestWaits, InputAgain, InputPacket, InputLooped,
     InputEof, Decode, Decoded, StreamGives, StreamEnds, EofReached, Reap,
     ExitProgram, flush_encoders, Looping, stepVars
<1>3. CASE \E f \in InFiles : Arrive(f)
  BY <1>3 DEF Arrive, stepVars
<1>4. CASE \E of \in OutFiles : MuxerEnds(of)
  BY <1>4 DEF MuxerEnds, stepVars
<1>5. CASE ReceiveSigterm \/ Over
  BY <1>5 DEF ReceiveSigterm, Over, vars, stepVars
<1> QED BY <1>1, <1>2, <1>3, <1>4, <1>5 DEF Next

(* The decoders hold no more than they may, but for the packet that is     *)
(* being decoded.                                                          *)
LEMMA DecodersBounded ==
  ASSUME IInv, [Next]_vars
  PROVE  /\ \A s \in Ists : Len(dec'[s]) <= DecDelay + 1
         /\ \A s \in Ists : Len(dec'[s]) <= DecDelay
                              \/ (pc' \in {"decode", "exit"} /\ s = cur')
<1>1. TypeOK /\ PlaceInv /\ Flow
  BY FlowTypes DEF IInv
<1>2. /\ DecDelay \in Nat
      /\ \A s \in Ists : Len(dec[s]) \in Nat /\ Len(dec[s]) <= DecDelay + 1
      /\ \A s \in Ists : Len(dec'[s]) \in Nat
  <2>1. dec' \in [Ists -> Seq(Frames')]
    BY FlowSteps DEF Flow
  <2> QED BY <1>1, <2>1, GraphAssumption, LenProperties DEF TypeOK, Flow
<1>3. CASE InputPacket
  BY <1>3, PacketFlow
<1>4. CASE ~InputPacket
  <2>1. \A t \in Ists : Len(dec'[t]) <= Len(dec[t])
    <3>1. CASE Decode
      <4>1. PICK s \in Needed : TakeFrame(s)
        BY <3>1 DEF Decode
      <4>2. s \in Ists /\ content' = content
        BY Constant, GraphAssumption DEF Needed
      <4> QED BY <4>1, <4>2, TakesFrame
    <3>2. CASE StreamGives
      <4>1. TakeFrame(Min(todo)) /\ content' = content /\ Min(todo) \in Ists
        BY <3>2, NextIs, Constant DEF StreamGives
      <4> QED BY <4>1, TakesFrame
    <3>3. CASE dec' = dec
      BY <1>2, <3>3
    <3>4. Decode \/ StreamGives \/ dec' = dec
      <4>1. CASE UNCHANGED vars
        BY <4>1 DEF vars
      <4>2. CASE MainStep
        BY <1>4, <4>2 DEF MainStep, LeaveLoop, NoneAvailable, StepCopy, StepGraph,
           StepFails, RequestGives, RequestEnds, RequestWaits, InputAgain,
           InputLooped, InputEof, Decoded, StreamEnds, EofReached, Reap,
           ExitProgram, flush_encoders
      <4>3. CASE \E f \in InFiles : Arrive(f)
        BY <4>3 DEF Arrive
      <4>4. CASE \E of \in OutFiles : MuxerEnds(of)
        BY <4>4 DEF MuxerEnds
      <4>5. CASE ReceiveSigterm \/ Over
        BY <4>5 DEF ReceiveSigterm, Over, vars
      <4> QED BY <4>1, <4>2, <4>3, <4>4, <4>5 DEF Next
    <3> QED BY <3>1, <3>2, <3>3, <3>4
  <2>2. ASSUME NEW s \in Ists
        PROVE  Len(dec'[s]) <= DecDelay \/ (pc' \in {"decode", "exit"} /\ s = cur')
    <3>1. CASE Len(dec[s]) <= DecDelay
      BY <1>2, <2>1, <3>1
    <3>2. CASE ~(Len(dec[s]) <= DecDelay)
      <4>1. pc \in {"decode", "exit"} /\ s = cur
        BY <1>1, <3>2 DEF PlaceInv
      <4>2. ~(pc = "decode" /\ Decoded)
        BY <1>1, <1>2, <3>2, <4>1 DEF Decoded, HasFrame, PlaceInv
      <4> QED BY <4>1, <4>2, FromDecode
    <3> QED BY <3>1, <3>2
  <2> QED BY <1>2, <2>1, <2>2
<1> QED BY <1>3, <1>4

(* What the function that runs knows: that it was called for.              *)
Called ==
  /\ pc \in {"input", "eof", "flush"} => cur \in InFiles
  /\ pc = "decode" => cur \in Needed
  /\ cur \in InFiles \cup Ists \cup {0}
  /\ pc = "request" => chosen \in Encoded /\ graph[GraphOf[chosen]].up
  /\ chosen \in Outs \cup {0}

(* A stream is chosen, and its graph asked, or a file that it needs.       *)
LEMMA GraphCalls ==
  ASSUME IInv, StepGraph
  PROVE  Called'
<1> DEFINE o == choose_output
           g == GraphOf[o]
           gr == IF ~graph[g].up /\ ifilter_has_all_input_formats(g, graph[g])
                 THEN configure_filtergraph(g, graph[g]) ELSE graph[g]
           waiting == {s \in Inputs[g] : s \notin got_output
                                           /\ FileOf[s] \notin eof_reached}
<1>1. TypeOK /\ Flow
  BY FlowTypes DEF IInv
<1>2. /\ o \in Encoded /\ chosen' = o /\ pc = "loop"
      /\ graph' = [graph EXCEPT ![g] = Kept(g, gr)]
      /\ \/ gr.up /\ pc' = "request" /\ cur' = cur
         \/ ~gr.up /\ waiting # {} /\ pc' = "input" /\ cur' = FileOf[Min(waiting)]
         \/ ~gr.up /\ pc' = pc /\ cur' = cur
  BY DEF StepGraph, Looping
<1>3. g \in Graphs /\ waiting \subseteq Nat /\ waiting \subseteq Ists
  BY <1>2, Sets
<1> HIDE DEF waiting, o
<1>4. gr \in GraphType(g)
  BY <1>1, <1>3, ConfiguredIs DEF Flow
<1> HIDE DEF gr
<1>5. graph'[g] = Kept(g, gr) /\ Kept(g, gr).up = gr.up
  BY <1>1, <1>2, <1>3, <1>4, KeptIs DEF Flow
<1>6. cur \in InFiles \cup Ists \cup {0}
  BY <1>1 DEF TypeOK
<1>7. waiting # {} => FileOf[Min(waiting)] \in InFiles
  BY <1>3, MinIs, Sets
<1> QED BY <1>2, <1>5, <1>6, <1>7, Sets DEF Called

(* So does every other step.                                               *)
LEMMA StepsCall ==
  ASSUME IInv, [Next]_vars
  PROVE  Called'
<1>1. Called /\ TypeOK
  BY DEF IInv, TypeOK, PlaceInv, Called
<1>2. CASE StepGraph
  BY <1>2, GraphCalls
<1>3. CASE StepCopy
  <2>1. FileOf[Source[choose_output]] \in InFiles
    BY <1>3, Sets, OutputAssumption DEF StepCopy
  <2>2. /\ choose_output \in Outs /\ chosen' = choose_output
        /\ pc' = "input" /\ cur' = FileOf[Source[choose_output]]
    BY <1>3, Sets DEF StepCopy
  <2> QED BY <2>1, <2>2 DEF Called
<1>4. CASE RequestWaits
  <2>1. \/ pc' = "loop" /\ cur' = cur
        \/ pc' = "input" /\ \E s \in Starving(GraphOf[chosen]) : cur' = FileOf[s]
    BY <1>4 DEF RequestWaits
  <2>2. \A s \in Starving(GraphOf[chosen]) : FileOf[s] \in InFiles
    <3>1. GraphOf[chosen] \in Graphs
      BY <1>1, <1>4, Sets DEF RequestWaits, Called
    <3> QED BY <3>1, Sets DEF Starving
  <2>3. chosen' = chosen
    BY <1>4 DEF RequestWaits
  <2> QED BY <1>1, <2>1, <2>2, <2>3 DEF Called
<1>5. CASE InputPacket
  <2>1. Message(cur).ist \in Ists
    BY <1>1, <1>5, PacketFlow, FramesAre DEF TypeOK
  <2>2. /\ cur' = Message(cur).ist /\ chosen' = chosen
        /\ pc' = IF Message(cur).ist \in Needed THEN "decode" ELSE "reap"
    BY <1>5 DEF InputPacket
  <2> QED BY <1>1, <2>1, <2>2 DEF Called
<1>6. CASE LeaveLoop \/ StepFails
  BY <1>1, <1>6 DEF LeaveLoop, StepFails, Called
<1>7. CASE \/ RequestGives \/ RequestEnds \/ InputAgain \/ Decoded \/ EofReached
           \/ Reap \/ flush_encoders \/ ExitProgram
  <2>1. cur' = cur /\ chosen' = chosen /\ pc' \in {"loop", "reap", "done", "exit"}
    BY <1>7 DEF RequestGives, RequestEnds, InputAgain, Decoded, EofReached, Reap,
       flush_encoders, ExitProgram
  <2> QED BY <1>1, <2>1 DEF Called
<1>8. CASE InputLooped \/ InputEof
  <2>1. cur' = cur /\ chosen' = chosen /\ pc = "input" /\ pc' \in {"flush", "eof"}
    BY <1>8 DEF InputLooped, InputEof
  <2> QED BY <1>1, <2>1 DEF Called
<1>9. CASE Decode \/ StreamGives \/ StreamEnds
  <2>1. /\ cur' = cur /\ chosen' = chosen /\ pc \in {"decode", "flush", "eof", "drain"}
        /\ pc' = pc \/ pc' = "reap"
    BY <1>9 DEF Decode, StreamGives, StreamEnds, stepVars
  <2> QED BY <1>1, <2>1 DEF Called
<1>10. CASE graph' = graph /\ UNCHANGED stepVars
  BY <1>1, <1>10 DEF Called, stepVars
<1>11. \/ graph' = graph /\ UNCHANGED stepVars
       \/ MainStep /\ ~NoneAvailable
  <2>1. CASE UNCHANGED vars
    BY <2>1 DEF vars
  <2>2. CASE NoneAvailable
    BY <2>2 DEF NoneAvailable
  <2>3. CASE \E f \in InFiles : Arrive(f)
    BY <2>3 DEF Arrive
  <2>4. CASE \E of \in OutFiles : MuxerEnds(of)
    BY <2>4 DEF MuxerEnds
  <2>5. CASE ReceiveSigterm \/ Over
    BY <2>5 DEF ReceiveSigterm, Over, vars
  <2> QED BY <2>1, <2>2, <2>3, <2>4, <2>5 DEF Next
<1> QED BY <1>2, <1>3, <1>4, <1>5, <1>6, <1>7, <1>8, <1>9, <1>10, <1>11 DEF MainStep

(* The end of a file stays reached while its streams are told of it.       *)
LEMMA AtEof ==
  ASSUME IInv, [Next]_vars, pc' = "eof"
  PROVE  /\ read' = read /\ cur' = cur /\ read[cur] = Len(content[cur])
         /\ \/ InputEof
            \/ pc = "eof" /\ todo' \subseteq todo /\ (todo' = todo \/ StreamEnds)
<1>1. read' = read
  BY Reads
<1>2. pc = "eof" => read[cur] = Len(content[cur])
  BY DEF IInv, PlaceInv
<1>3. CASE UNCHANGED stepVars
  BY <1>1, <1>2, <1>3 DEF stepVars
<1>4. CASE InputEof \/ StreamEnds
  BY <1>1, <1>2, <1>4 DEF InputEof, StreamEnds
<1>5. UNCHANGED stepVars \/ InputEof \/ StreamEnds
  <2>1. CASE UNCHANGED vars
    BY <2>1 DEF vars
  <2>2. CASE MainStep
    BY <2>2 DEF MainStep, LeaveLoop, NoneAvailable, StepCopy, StepGraph, StepFails,
       RequestGives, RequestEnds, RequestWaits, InputAgain, InputPacket, InputLooped,
       Decode, Decoded, StreamGives, EofReached, Reap,
       ExitProgram, flush_encoders, Looping
  <2>3. CASE \E f \in InFiles : Arrive(f)
    BY <2>3 DEF Arrive
  <2>4. CASE \E of \in OutFiles : MuxerEnds(of)
    BY <2>4 DEF MuxerEnds
  <2>5. CASE ReceiveSigterm \/ Over
    BY <2>5 DEF ReceiveSigterm, Over, vars
  <2> QED BY <2>1, <2>2, <2>3, <2>4, <2>5 DEF Next
<1> QED BY <1>3, <1>4, <1>5

(* The invariant's conjunct about the place.                               *)
LEMMA PlaceKept ==
  ASSUME IInv, [Next]_vars
  PROVE  PlaceInv'
<1>1. Called' /\ Flow' /\ content' = content
  BY StepsCall, FlowSteps, Constant
<1>2. pc' = "eof" => /\ read'[cur'] = Len(content'[cur'])
                     /\ \A s \in todo' : FileOf[s] = cur'
  <2> SUFFICES ASSUME pc' = "eof"
               PROVE  read'[cur'] = Len(content'[cur']) /\ \A s \in todo' : FileOf[s] = cur'
    OBVIOUS
  <2>1. /\ read'[cur'] = Len(content'[cur'])
        /\ cur' = cur
        /\ InputEof \/ (pc = "eof" /\ todo' \subseteq todo)
    BY <1>1, AtEof
  <2>2. CASE InputEof
    BY <2>1, <2>2 DEF InputEof
  <2>3. CASE pc = "eof" /\ todo' \subseteq todo
    BY <2>1, <2>3 DEF IInv, PlaceInv
  <2> QED BY <2>1, <2>2, <2>3
<1> QED BY <1>1, <1>2, DecodersBounded DEF PlaceInv, Called, Flow

(* The types of what is set and counted.                                   *)
Counted ==
  /\ arrived \cup eagain \cup eof_reached \subseteq InFiles
  /\ muxer_ended \subseteq OutFiles /\ received_sigterm \in BOOLEAN
  /\ pc \in {"loop", "request", "input", "decode", "flush", "eof", "reap",
             "drain", "done", "exit"}
  /\ todo \subseteq Ists /\ failed \in BOOLEAN
  /\ got_output \subseteq Ists /\ drops \subseteq lossy /\ lossy \subseteq Graphs

(* Every step keeps them, ...                                              *)
LEMMA CountedKept ==
  ASSUME IInv, [Next]_vars
  PROVE  Counted'
<1>1. Counted
  BY DEF IInv, TypeOK, Counted
<1>2. CASE UNCHANGED vars
  BY <1>1, <1>2 DEF Counted, vars, inVars, flagVars, stepVars
<1>3. CASE \E f \in InFiles : Arrive(f)
  BY <1>1, <1>3 DEF Counted, Arrive, flagVars, stepVars
<1>4. CASE \E of \in OutFiles : MuxerEnds(of)
  BY <1>1, <1>4 DEF Counted, MuxerEnds, inVars, stepVars
<1>5. CASE ReceiveSigterm \/ Over
  BY <1>1, <1>5 DEF Counted, ReceiveSigterm, Over, vars, inVars, flagVars, stepVars
<1>6. CASE LeaveLoop \/ NoneAvailable \/ StepCopy \/ StepFails
  BY <1>1, <1>6 DEF Counted, LeaveLoop, NoneAvailable, StepCopy, StepFails,
     inVars, flagVars, stepVars
<1>7. CASE StepGraph \/ RequestGives \/ RequestEnds \/ RequestWaits
  <2>1. /\ UNCHANGED <<inVars, got_output, flagVars, todo, lossy, failed>>
        /\ pc' \in {pc, "request", "input", "reap", "loop"}
    BY <1>7 DEF StepGraph, RequestGives, RequestEnds, RequestWaits
  <2> QED BY <1>1, <2>1 DEF Counted, inVars, flagVars
<1>8. CASE InputAgain \/ InputPacket \/ InputLooped \/ InputEof \/ EofReached
  <2>1. pc \in {"input", "eof"} /\ cur \in InFiles
    BY <1>8 DEF InputAgain, InputPacket, InputLooped, InputEof, EofReached,
       IInv, PlaceInv
  <2>2. /\ UNCHANGED <<got_output, flagVars, lossy, failed>>
        /\ arrived' \subseteq arrived /\ eagain' \subseteq eagain \cup {cur}
        /\ eof_reached' \subseteq eof_reached \cup {cur}
        /\ todo' = todo \/ todo' = {s \in Ists : FileOf[s] = cur}
        /\ pc' \in {"loop", "decode", "reap", "flush", "eof"}
    BY <1>8 DEF InputAgain, InputPacket, InputLooped, InputEof, EofReached, inVars
  <2> QED BY <1>1, <2>1, <2>2 DEF Counted, flagVars
<1>9. CASE Decode
  <2>1. PICK s \in Needed : TakeFrame(s)
    BY <1>9 DEF Decode
  <2>2. s \in Ists /\ content' = content
    BY Constant, GraphAssumption DEF Needed
  <2>3. got_output' \subseteq Ists /\ lossy \subseteq lossy' /\ lossy' \subseteq Graphs
    BY <2>1, <2>2, TakesFrame
  <2> QED BY <1>1, <1>9, <2>3 DEF Counted, Decode, inVars, flagVars, stepVars
<1>10. CASE StreamGives
  <2>1. TakeFrame(Min(todo)) /\ content' = content /\ Min(todo) \in Ists
    BY <1>10, NextIs, Constant DEF StreamGives
  <2>2. got_output' \subseteq Ists /\ lossy \subseteq lossy' /\ lossy' \subseteq Graphs
    BY <2>1, TakesFrame
  <2> QED BY <1>1, <1>10, <2>2 DEF Counted, StreamGives, inVars, flagVars
<1>11. CASE Decoded \/ StreamEnds \/ Reap \/ ExitProgram \/ flush_encoders
  <2>1. /\ UNCHANGED <<inVars, got_output, flagVars, lossy, failed>>
        /\ todo' \subseteq todo
        /\ pc' \in {pc, "reap", "loop", "exit", "done"}
    BY <1>11 DEF Decoded, StreamEnds, Reap, ExitProgram, flush_encoders
  <2> QED BY <1>1, <2>1 DEF Counted, inVars, flagVars
<1> QED BY <1>2, <1>3, <1>4, <1>5, <1>6, <1>7, <1>8, <1>9, <1>10, <1>11 DEF Next, MainStep

(* ... and the type of every variable.                                     *)
LEMMA TypesKept ==
  ASSUME IInv, [Next]_vars
  PROVE  TypeOK'
<1>1. TypeOK
  BY DEF IInv
<1>2. content' = content /\ recording_time' = recording_time
  BY Constant
<1>3. read' \in [InFiles -> Nat] /\ \A f \in InFiles : read'[f] <= Len(content[f])
  <2>1. CASE read' = read
    BY <1>1, <2>1 DEF TypeOK
  <2>2. CASE /\ cur \in InFiles /\ read[cur] < Len(content[cur])
             /\ read' = [read EXCEPT ![cur] = @ + 1]
    <3>1. \A f \in InFiles : Len(content[f]) \in Nat
      <4> SUFFICES ASSUME NEW f \in InFiles PROVE Len(content[f]) \in Nat
        OBVIOUS
      <4> DEFINE M == {Mark} \cup [ist : {s \in Ists : FileOf[s] = f}, pts : Nat,
                                   fmt : Nat \ {NoFormat}, key : BOOLEAN]
      <4>1. content[f] \in Seq(M)
        BY <1>1, ContentAssumption DEF TypeOK
      <4> HIDE DEF M
      <4> QED BY <4>1, LenProperties
    <3>2. \A f \in InFiles : read'[f] = IF f = cur THEN read[f] + 1 ELSE read[f]
      BY <1>1, <2>2 DEF TypeOK
    <3> QED BY <1>1, <2>2, <3>1, <3>2 DEF TypeOK
  <2> QED BY <2>1, <2>2, Reads
<1>4. ost' \in [Outs -> OstType'] /\ \A o \in Outs : Len(ost'[o].enc) <= EncDelay
  <2>1. ost' = [o \in Outs |-> ost'[o]]
    BY OstSteps DEF OstGrows
  <2>2. \A o \in Outs : ost'[o] \in OstType' /\ Len(ost'[o].enc) <= EncDelay
    BY OstInvKept DEF OstInv, Good
  <2> QED BY <2>1, <2>2
<1>5. Flow' /\ Called' /\ Counted'
  BY FlowSteps, StepsCall, CountedKept
<1>6. \A s \in Ists : Len(dec'[s]) <= DecDelay + 1
  BY DecodersBounded
<1>7. /\ dec' \in [Ists -> Seq(Frames')] /\ sink' \in [Encoded -> Seq(Frames')]
      /\ graph' = [g \in Graphs |-> graph'[g]]
      /\ \A g \in Graphs : graph'[g] \in GraphType(g)'
  BY <1>5 DEF Flow
<1> QED BY <1>1, <1>2, <1>3, <1>4, <1>5, <1>6, <1>7 DEF TypeOK, Called, Counted

-----------------------------------------------------------------------------
(* Who was told the end was told it for good.                              *)
LEMMA EndedStays ==
  ASSUME IInv, [Next]_vars, NEW s \in Ists,
         \/ Ended(s)
         \/ (StreamGives \/ StreamEnds) /\ s = Min(todo)
  PROVE  Ended(s)'
<1>1. FormatsKept /\ OstGrows /\ muxer_ended \subseteq muxer_ended'
  BY FlowSteps, OstSteps, Constant
<1>2. CASE Ended(s)
  <2>1. \A g \in Graphs : s \in Inputs[g] => graph'[g].fmt[s] # NoFormat
    BY <1>1, <1>2 DEF Ended, FormatsKept
  <2>2. \A o \in Copies :
          Source[o] = s /\ OutFile[o] \notin muxer_ended' => HasEnd(ost'[o].out)
    BY <1>1, <1>2, Sets DEF Ended, OstGrows, Grows
  <2> QED BY <2>1, <2>2 DEF Ended, HasEnd
<1>3. CASE (StreamGives \/ StreamEnds) /\ s = Min(todo)
  <2>1. TellsEnd(s) /\ FormatKnown(s)
    BY <1>3, StreamSteps
  <2> QED BY <1>1, <2>1 DEF Ended, TellsEnd, FormatKnown, HasEnd
<1> QED BY <1>2, <1>3

(* The loop is not entered again once it was left.                         *)
LEMMA LoopLeft ==
  ASSUME [Next]_vars
  PROVE  /\ pc \in {"drain", "done", "exit"} => pc' \in {"drain", "done", "exit"}
         /\ pc = "done" => pc' = "done"
         /\ flush_encoders => pc = "drain" /\ pc' = "done"
         /\ StreamGives \/ StreamEnds => pc \in {"eof", "drain"}
         /\ pc' = "drain" =>
              \/ LeaveLoop \/ StepFails
              \/ /\ pc = "drain"
                 /\ \/ todo' = todo
                    \/ (StreamGives \/ StreamEnds) /\ todo' = todo \ {Min(todo)}
         /\ pc' = "done" => pc = "done" \/ flush_encoders
         /\ \/ eof_reached' = eof_reached
            \/ EofReached
<1>0. /\ StreamGives \/ StreamEnds => pc \in {"eof", "drain"}
      /\ flush_encoders => pc = "drain" /\ pc' = "done"
  BY DEF StreamGives, StreamEnds, flush_encoders
<1>1. CASE UNCHANGED stepVars /\ eof_reached' = eof_reached
  BY <1>0, <1>1 DEF stepVars
<1>2. CASE MainStep
  <2>1. CASE LeaveLoop \/ StepFails
    <3>1. pc \in {"loop", "request"} /\ pc' = "drain" /\ eof_reached' = eof_reached
      BY <2>1 DEF LeaveLoop, StepFails, Looping, inVars
    <3> QED BY <1>0, <2>1, <3>1
  <2>2. CASE StreamGives \/ StreamEnds
    <3>1. /\ pc \in {"eof", "drain"} /\ pc' \in {pc, "reap"} /\ eof_reached' = eof_reached
          /\ pc = "drain" => pc' = pc
          /\ todo' = todo \ {Min(todo)}
      BY <2>2 DEF StreamGives, StreamEnds, inVars
    <3> QED BY <1>0, <2>2, <3>1
  <2>3. CASE flush_encoders \/ ExitProgram
    <3>1. /\ pc = "done" => pc' = "done"
          /\ pc' = "exit" \/ flush_encoders
          /\ eof_reached' = eof_reached
      BY <2>3 DEF flush_encoders, ExitProgram, HasFrame, inVars
    <3> QED BY <1>0, <3>1
  <2>4. CASE \/ NoneAvailable \/ StepCopy \/ StepGraph \/ RequestGives \/ RequestEnds
             \/ RequestWaits \/ InputAgain \/ InputPacket \/ InputLooped \/ InputEof
             \/ Decode \/ Decoded \/ EofReached \/ Reap
    <3>1. /\ pc \notin {"drain", "done", "exit"} /\ pc' \notin {"drain", "done", "exit"}
          /\ eof_reached' = eof_reached \/ EofReached
      BY <2>4 DEF NoneAvailable, StepCopy, StepGraph, RequestGives, RequestEnds,
         RequestWaits, InputAgain, InputPacket, InputLooped, InputEof, Decode,
         Decoded, Reap, EofReached, Looping, inVars, stepVars
    <3> QED BY <1>0, <3>1
  <2> QED BY <1>2, <2>1, <2>2, <2>3, <2>4 DEF MainStep
<1>3. (UNCHANGED stepVars /\ eof_reached' = eof_reached) \/ MainStep
  <2>1. CASE UNCHANGED vars
    BY <2>1 DEF vars, inVars
  <2>2. CASE \E f \in InFiles : Arrive(f)
    BY <2>2 DEF Arrive
  <2>3. CASE \E of \in OutFiles : MuxerEnds(of)
    BY <2>3 DEF MuxerEnds, inVars
  <2>4. CASE ReceiveSigterm \/ Over
    BY <2>4 DEF ReceiveSigterm, Over, vars, inVars
  <2> QED BY <2>1, <2>2, <2>3, <2>4 DEF Next
<1> QED BY <1>1, <1>2, <1>3

(* Ends are told when they should be.                                      *)
LEMMA EndKept ==
  ASSUME IInv, [Next]_vars
  PROVE  EndInv'
<1>1. TypeOK /\ PlaceInv /\ EndInv /\ OstGrows /\ content' = content
  BY OstSteps, Constant DEF IInv
<1> DEFINE Told(o) == /\ StreamGives \/ StreamEnds
                      /\ o \in Copies /\ Source[o] = Min(todo)
<1>2. ASSUME NEW o \in Outs, HasEnd(ost'[o].out)
      PROVE  HasEnd(ost[o].out) \/ Told(o) \/ flush_encoders
  <2>1. CASE StreamGives \/ StreamEnds
    BY <1>2, <2>1, StreamSteps DEF TellsEnd
  <2>2. CASE ~StreamGives /\ ~StreamEnds /\ ~flush_encoders
    BY <1>2, <2>2, QuietSteps DEF OstQuiet, Quiet
  <2> QED BY <2>1, <2>2
<1>3. ASSUME NEW o \in Encoded, HasEnd(ost'[o].out)
      PROVE  pc' = "done"
  <2>1. HasEnd(ost[o].out) \/ flush_encoders
    BY <1>2, <1>3, Sets
  <2>2. HasEnd(ost[o].out) => pc = "done"
    BY <1>1 DEF EndInv
  <2> QED BY <2>1, <2>2, LoopLeft
<1>4. ASSUME NEW o \in Copies, HasEnd(ost'[o].out)
      PROVE  \/ pc' \in {"drain", "done", "exit"}
             \/ read'[FileOf[Source[o]]] = Len(content'[FileOf[Source[o]]])
  <2> DEFINE f == FileOf[Source[o]]
  <2>1. \/ pc \in {"drain", "done", "exit"}
        \/ read[f] = Len(content[f])
    <3>1. CASE HasEnd(ost[o].out)
      BY <1>1, <3>1 DEF EndInv
    <3>2. CASE Told(o)
      <4>1. /\ todo # {} /\ pc \in {"eof", "drain"}
        BY <3>2 DEF StreamGives, StreamEnds
      <4>2. Min(todo) \in todo
        BY <4>1, NextIs
      <4> QED BY <1>1, <3>2, <4>1, <4>2 DEF PlaceInv
    <3>3. CASE flush_encoders
      BY <3>3 DEF flush_encoders
    <3> QED BY <1>2, <1>4, <3>1, <3>2, <3>3, Sets
  <2>2. CASE pc \in {"drain", "done", "exit"}
    BY <2>2, LoopLeft
  <2>3. CASE read[f] = Len(content[f])
    <3>1. f \in InFiles /\ read \in [InFiles -> Nat]
      BY <1>1, Sets, OutputAssumption DEF TypeOK
    <3>2. read'[f] = read[f]
      <4> HIDE DEF f
      <4>1. CASE read' = read
        BY <4>1
      <4>2. CASE read[cur] < Len(content[cur]) /\ read' = [read EXCEPT ![cur] = @ + 1]
                   /\ cur \in InFiles
        <5>1. f # cur
          BY <2>3, <3>1, <4>2
        <5> QED BY <3>1, <4>2, <5>1
      <4> QED BY <4>1, <4>2, Reads
    <3> QED BY <1>1, <2>3, <3>2
  <2> QED BY <2>1, <2>2, <2>3
<1>5. ASSUME pc' = "eof", NEW s \in Ists \ todo', FileOf[s] = cur'
      PROVE  Ended(s)'
  <2>1. ~InputEof
    BY <1>5, AtEof DEF InputEof
  <2>2. pc = "eof" /\ cur' = cur /\ (todo' = todo \/ StreamEnds)
    BY <1>5, <2>1, AtEof
  <2>3. s \notin todo \/ (StreamEnds /\ s = Min(todo))
    BY <2>2 DEF StreamEnds
  <2>4. s \notin todo => Ended(s)
    BY <1>1, <1>5, <2>2 DEF EndInv
  <2> QED BY <2>3, <2>4, EndedStays
<1>6. ASSUME pc' = "drain", NEW s \in Ists \ todo'
      PROVE  Ended(s)'
  <2>1. CASE LeaveLoop \/ StepFails
    <3>1. FileOf[s] \in eof_reached
      BY <1>6, <2>1 DEF LeaveLoop, StepFails
    <3> QED BY <1>1, <3>1, EndedStays DEF EndInv
  <2>2. CASE /\ pc = "drain"
             /\ \/ todo' = todo
                \/ (StreamGives \/ StreamEnds) /\ todo' = todo \ {Min(todo)}
    <3>1. s \notin todo \/ ((StreamGives \/ StreamEnds) /\ s = Min(todo))
      BY <2>2
    <3>2. s \notin todo => Ended(s)
      BY <1>1, <2>2 DEF EndInv
    <3> QED BY <3>1, <3>2, EndedStays
  <2> QED BY <1>6, <2>1, <2>2, LoopLeft
<1>7. ASSUME NEW s \in Ists, FileOf[s] \in eof_reached'
      PROVE  Ended(s)'
  <2>1. CASE FileOf[s] \in eof_reached
    BY <1>1, <2>1, EndedStays DEF EndInv
  <2>2. CASE FileOf[s] \notin eof_reached
    <3>1. EofReached
      BY <1>7, <2>2, LoopLeft
    <3>2. pc = "eof" /\ todo = {} /\ FileOf[s] = cur
      BY <1>7, <2>2, <3>1 DEF EofReached
    <3> QED BY <1>1, <3>2, EndedStays DEF EndInv
  <2> QED BY <2>1, <2>2
<1>8. ASSUME pc' = "done", NEW o \in Outs, OutFile[o] \notin muxer_ended'
      PROVE  HasEnd(ost'[o].out)
  <2>1. OutFile[o] \notin muxer_ended
    BY <1>8, Constant
  <2>2. CASE flush_encoders
    BY <2>1, <2>2, FlushSteps
  <2>3. CASE pc = "done"
    BY <1>1, <2>1, <2>3 DEF EndInv, OstGrows, Grows
  <2> QED BY <1>8, <2>2, <2>3, LoopLeft
<1> HIDE DEF Told
<1>9. /\ \A o \in Encoded : HasEnd(ost'[o].out) => pc' = "done"
      /\ \A o \in Copies : HasEnd(ost'[o].out) =>
           \/ pc' \in {"drain", "done", "exit"}
           \/ read'[FileOf[Source[o]]] = Len(content'[FileOf[Source[o]]])
      /\ pc' = "eof" => \A s \in Ists \ todo' : FileOf[s] = cur' => Ended(s)'
      /\ pc' = "drain" => \A s \in Ists \ todo' : Ended(s)'
      /\ \A s \in Ists : FileOf[s] \in eof_reached' => Ended(s)'
      /\ pc' = "done" =>
           \A o \in Outs : OutFile[o] \notin muxer_ended' => HasEnd(ost'[o].out)
  BY <1>3, <1>4, <1>5, <1>6, <1>7, <1>8
<1> QED BY <1>9 DEF EndInv, HasEnd

-----------------------------------------------------------------------------
(* At the start all queues are empty, only copies are initialized, and no  *)
(* output has an end.                                                      *)
LEMMA Starts ==
  ASSUME Init
  PROVE  IInv
<1>1. \A f \in InFiles : Len(content[f]) \in Nat
  <2> SUFFICES ASSUME NEW f \in InFiles PROVE Len(content[f]) \in Nat
    OBVIOUS
  <2> DEFINE M == {Mark} \cup [ist : {s \in Ists : FileOf[s] = f}, pts : Nat,
                               fmt : Nat \ {NoFormat}, key : BOOLEAN]
  <2>1. content[f] \in Seq(M)
    BY ContentAssumption DEF Init
  <2> HIDE DEF M
  <2> QED BY <2>1, LenProperties
<1>2. /\ <<>> \in Seq(Frames) /\ <<>> \in Seq(Frames \cup {End}) /\ Len(<<>>) = 0
      /\ ~HasEnd(<<>>) /\ EndIsLast(<<>>)
  BY EmptySeq DEF HasEnd, EndIsLast
<1>3. \A g \in Graphs : graph[g] \in GraphType(g)
  <2> SUFFICES ASSUME NEW g \in Graphs PROVE graph[g] \in GraphType(g)
    OBVIOUS
  <2>1. graph[g] =
          [up |-> FALSE, fmt |-> [s \in Inputs[g] |-> NoFormat],
           frame_queue |-> [s \in Inputs[g] |-> <<>>],
           held |-> [s \in Inputs[g] |-> <<>>], eof |-> {}]
    BY DEF Init
  <2>2. /\ [s \in Inputs[g] |-> NoFormat] \in [Inputs[g] -> Nat]
        /\ [s \in Inputs[g] |-> <<>>] \in [Inputs[g] -> Seq(Frames)]
    BY <1>2 DEF NoFormat
  <2> QED BY <2>1, <2>2 DEF GraphType
<1>4. ASSUME NEW o \in Outs
      PROVE  /\ ost[o] \in OstType /\ ost[o].enc = <<>> /\ ost[o].out = <<>>
             /\ ost[o].finished = {} /\ (o \in Copies => ost[o].initialized)
  <2>1. ost[o] =
          [initialized |-> o \in Copies, inputs_done |-> FALSE, finished |-> {},
           unavailable |-> FALSE, last |-> NoPts, enc |-> <<>>, out |-> <<>>]
    BY DEF Init
  <2> DEFINE b == o \in Copies
  <2>2. b \in BOOLEAN /\ (o \in Copies => b = TRUE)
    OBVIOUS
  <2> HIDE DEF b
  <2>3. ost[o] =
          [initialized |-> b, inputs_done |-> FALSE, finished |-> {},
           unavailable |-> FALSE, last |-> NoPts, enc |-> <<>>, out |-> <<>>]
    BY <2>1 DEF b
  <2>4. ost[o] \in OstType
    BY <1>2, <2>2, <2>3 DEF OstType
  <2> QED BY <2>2, <2>3, <2>4
<1>5. ASSUME NEW o \in Outs PROVE Good(o, ost[o])
  <2>1. /\ ost[o] \in OstType /\ ost[o].enc = <<>> /\ ost[o].out = <<>>
        /\ ost[o].finished = {} /\ (o \in Copies => ost[o].initialized)
    BY <1>4
  <2>2. Len(ost[o].enc) <= EncDelay
    BY <1>2, <2>1, GraphAssumption
  <2>3. ~("mux" \in ost[o].finished)
    BY <2>1
  <2> QED BY <1>2, <2>1, <2>2, <2>3, Zenon DEF Good
<1>6. OstInv
  BY <1>5 DEF OstInv, Init
<1>7. TypeOK
  <2>1. /\ content \in Contents /\ read \in [InFiles -> Nat]
        /\ \A f \in InFiles : read[f] <= Len(content[f])
        /\ arrived \cup eagain \cup eof_reached \subseteq InFiles
    BY <1>1 DEF Init
  <2>2. dec \in [Ists -> Seq(Frames)] /\ \A s \in Ists : Len(dec[s]) <= DecDelay + 1
    BY <1>2, GraphAssumption DEF Init
  <2>3. graph = [g \in Graphs |-> graph[g]] /\ sink \in [Encoded -> Seq(Frames)]
    BY <1>2 DEF Init
  <2>4. ost \in [Outs -> OstType] /\ \A o \in Outs : Len(ost[o].enc) <= EncDelay
    <3>1. ost = [o \in Outs |-> ost[o]]
      BY DEF Init
    <3> QED BY <1>2, <1>4, <3>1, GraphAssumption
  <2>5. /\ got_output \subseteq Ists /\ recording_time \in Limits
        /\ muxer_ended \subseteq OutFiles /\ received_sigterm \in BOOLEAN
        /\ pc = "loop" /\ chosen = 0 /\ cur = 0 /\ todo \subseteq Ists
        /\ drops \subseteq lossy /\ lossy \subseteq Graphs /\ failed \in BOOLEAN
    BY DEF Init
  <2> QED BY <1>3, <2>1, <2>2, <2>3, <2>4, <2>5 DEF TypeOK
<1>8. PlaceInv
  BY <1>2, GraphAssumption DEF PlaceInv, Init
<1>9. EndInv
  BY <1>2, <1>4, Sets DEF EndInv, Init
<1> QED BY <1>6, <1>7, <1>8, <1>9 DEF IInv

(* The invariant is inductive.                                             *)
LEMMA IInvKept ==
  ASSUME IInv, [Next]_vars
  PROVE  IInv'
BY TypesKept, OstInvKept, PlaceKept, EndKept DEF IInv

(* Always.                                                                 *)
LEMMA Invariant == Spec => []IInv
<1>1. Init => IInv
  BY Starts
<1>2. IInv /\ [Next]_vars => IInv'
  BY IInvKept
<1> QED BY <1>1, <1>2, PTL DEF Spec

(* Every variable keeps its type, whatever the files hold and the graphs   *)
(* are: no decoder or encoder holds more than its delay, and no end or     *)
(* mark of a file ever gets into a decoder, a filter graph or an encoder.  *)
THEOREM TypeCorrect == Spec => []TypeOK
<1>1. IInv => TypeOK
  BY DEF IInv
<1> QED BY <1>1, Invariant, PTL

(* What is finished is initialized: transcode_from_filter closes only      *)
(* outputs of a configured graph that has ended, which the flush of        *)
(* reap_filters has initialized just before, and do_streamcopy and the     *)
(* encoders run for initialized streams, so choose_output cannot return a  *)
(* stream for ever that has nothing more to give.                          *)
THEOREM FinishedWasInitialized == Spec => []FinishedIsInitialized
<1>1. IInv => FinishedIsInitialized
  BY DEF IInv, OstInv, Good, FinishedIsInitialized
<1> QED BY <1>1, Invariant, PTL

(* Every output whose muxer lives gets its end before the program leaves   *)
(* transcode(), whichever way the loop was left, and nothing comes behind  *)
(* it: copies when their file has ended or is drained, encoded streams in  *)
(* flush_encoders, which finds the formats of all their inputs known.      *)
THEOREM EveryOutputEnds == Spec => []OutputsEnd
<1>1. IInv => OutputsEnd
  <2> SUFFICES ASSUME IInv, NEW o \in Outs
               PROVE  /\ EndIsLast(ost[o].out)
                      /\ pc = "done" /\ OutFile[o] \notin muxer_ended => HasEnd(ost[o].out)
    BY DEF OutputsEnd, EndIsLast, HasEnd
  <2> QED BY DEF IInv, OstInv, Good, EndInv
<1> QED BY <1>1, Invariant, PTL
-----------------------------------------------------------------------------
(* The function that Only is computed by.                                 *)
Selects(K, q, F) ==
  F = [n \in 0 .. Len(q) |->
         IF n = 0 THEN <<>>
         ELSE IF q[n] \in K THEN Append(F[n - 1], q[n]) ELSE F[n - 1]]

(* There is one, ...                                                       *)
LEMMA SelectsExists ==
  ASSUME NEW K, NEW q, Len(q) \in Nat
  PROVE  \E F : Selects(K, q, F)
<1> DEFINE Step(F, n) == IF n = 0 THEN <<>>
                         ELSE IF q[n] \in K THEN Append(F[n - 1], q[n])
                         ELSE F[n - 1]
           Upto(F, m) == F = [n \in 0 .. m |-> Step(F, n)]
           T == {m \in Nat : ~ \E F : Upto(F, m)}
<1>1. SUFFICES T = {}
  <2>1. PICK F : Upto(F, Len(q))
    BY <1>1
  <2>2. Selects(K, q, F)
    BY <2>1 DEF Selects
  <2> QED BY <2>2
<1>2. SUFFICES ASSUME T # {} PROVE FALSE
  OBVIOUS
<1>3. PICK m \in T : \A k \in T : m <= k
  <2>1. T \subseteq Nat
    OBVIOUS
  <2> HIDE DEF T
  <2> QED BY <1>2, <2>1, Least
<1>4. CASE m = 0
  <2> DEFINE F == [n \in 0 .. 0 |-> <<>>]
  <2>1. Upto(F, 0)
    OBVIOUS
  <2> QED BY <1>3, <1>4, <2>1
<1>5. CASE m # 0
  <2>1. m \in Nat /\ m - 1 \in Nat /\ m - 1 \notin T
    <3>1. m \in Nat
      OBVIOUS
    <3> HIDE DEF T
    <3>2. m - 1 \in Nat /\ ~(m <= m - 1)
      BY <1>5, <3>1
    <3> QED BY <1>3, <3>1, <3>2
  <2>2. PICK F : Upto(F, m - 1)
    BY <2>1
  <2> DEFINE G == [n \in 0 .. m |-> IF n = m THEN Step(F, n) ELSE F[n]]
  <2>3. ASSUME NEW n \in 0 .. m PROVE G[n] = Step(G, n)
    <3>1. n = 0 \/ (n - 1 \in 0 .. m /\ n - 1 # m /\ n # 0)
      BY <2>1
    <3>2. n = 0 \/ G[n - 1] = F[n - 1]
      BY <3>1
    <3>3. Step(G, n) = Step(F, n)
      <4> HIDE DEF G
      <4> QED BY <3>1, <3>2
    <3>4. n = m \/ n \in 0 .. m - 1
      BY <2>1
    <3>5. n = m \/ F[n] = Step(F, n)
      <4> HIDE DEF Step
      <4> QED BY <2>2, <3>4
    <3>6. G[n] = Step(F, n)
      <4> HIDE DEF Step
      <4> QED BY <3>5
    <3> QED BY <3>3, <3>6
  <2>4. Upto(G, m)
    <3> HIDE DEF Step
    <3>1. G = [n \in 0 .. m |-> G[n]]
      OBVIOUS
    <3> HIDE DEF G
    <3> QED BY <2>3, <3>1
  <2> HIDE DEF Upto, G
  <2> QED BY <1>3, <2>4
<1> QED BY <1>4, <1>5

(* ... and its values depend on the prefix only.                           *)
LEMMA SelectsAgree ==
  ASSUME NEW K, NEW q, NEW r, NEW F, NEW G, NEW m \in Nat,
         Len(q) \in Nat, Len(r) \in Nat, m <= Len(q), m <= Len(r),
         Selects(K, q, F), Selects(K, r, G), \A i \in 1 .. m : q[i] = r[i]
  PROVE  F[m] = G[m]
<1> DEFINE T == {n \in 0 .. m : F[n] # G[n]}
<1>1. SUFFICES ASSUME T # {} PROVE FALSE
  OBVIOUS
<1>2. PICK n \in T : \A k \in T : n <= k
  <2>1. T \subseteq Nat
    OBVIOUS
  <2> HIDE DEF T
  <2> QED BY <1>1, <2>1, Least
<1>3. n \in 0 .. Len(q) /\ n \in 0 .. Len(r) /\ n \in Nat
  BY <1>2
<1>4. /\ F[n] = IF n = 0 THEN <<>>
              ELSE IF q[n] \in K THEN Append(F[n - 1], q[n]) ELSE F[n - 1]
      /\ G[n] = IF n = 0 THEN <<>>
              ELSE IF r[n] \in K THEN Append(G[n - 1], r[n]) ELSE G[n - 1]
  BY <1>3 DEF Selects
<1>5. n # 0
  BY <1>2, <1>4
<1>6. n \in 1 .. m /\ q[n] = r[n]
  BY <1>2, <1>5
<1>7. n - 1 \in 0 .. m /\ ~(n <= n - 1)
  BY <1>2, <1>5
<1>8. F[n - 1] = G[n - 1]
  BY <1>2, <1>7
<1>9. F[n] = G[n]
  BY <1>4, <1>5, <1>6, <1>8
<1> QED BY <1>2, <1>9

(* What Only is.                                                          *)
LEMMA OnlyIs ==
  ASSUME NEW K, NEW q, Len(q) \in Nat
  PROVE  \E F : Selects(K, q, F) /\ Only(K, q) = F[Len(q)]
<1> DEFINE F == CHOOSE F : Selects(K, q, F)
<1>1. Selects(K, q, F)
  BY SelectsExists
<1>2. Only(K, q) = F[Len(q)]
  BY DEF Only, Selects
<1> HIDE DEF F
<1> QED BY <1>1, <1>2

(* Appending behind a concatenation.                                       *)
LEMMA ConcatAppend ==
  ASSUME NEW S, NEW a \in Seq(S), NEW b \in Seq(S), NEW x \in S
  PROVE  a \o Append(b, x) = Append(a \o b, x)
<1>1. /\ Append(b, x) = b \o <<x>> /\ a \o b \in Seq(S)
      /\ Append(a \o b, x) = (a \o b) \o <<x>> /\ <<x>> \in Seq(S)
  BY AppendIsConcat, ConcatProperties
<1>2. (a \o b) \o <<x>> = a \o (b \o <<x>>)
  BY <1>1, ConcatAssociative
<1> QED BY <1>1, <1>2

(* One element more.                                                       *)
LEMMA OnlyAppend ==
  ASSUME NEW S, NEW q \in Seq(S), NEW x \in S, NEW K
  PROVE  Only(K, Append(q, x))
           = IF x \in K THEN Append(Only(K, q), x) ELSE Only(K, q)
<1> DEFINE r == Append(q, x)
           m == Len(q)
<1>1. /\ m \in Nat /\ Len(r) = m + 1 /\ r[m + 1] = x
      /\ \A i \in 1 .. m : q[i] = r[i]
  BY AppendProperties, LenProperties
<1> HIDE DEF r
<1>2. PICK F : Selects(K, q, F) /\ Only(K, q) = F[m]
  BY <1>1, OnlyIs
<1>3. PICK G : Selects(K, r, G) /\ Only(K, r) = G[m + 1]
  <2>1. Len(r) \in Nat
    BY <1>1
  <2> QED BY <1>1, <2>1, OnlyIs
<1> HIDE DEF m
<1>4. F[m] = G[m]
  <2>1. m <= Len(q) /\ m <= Len(r) /\ Len(q) \in Nat /\ Len(r) \in Nat /\ m \in Nat
    BY <1>1 DEF m
  <2>2. \A i \in 1 .. m : q[i] = r[i]
    BY <1>1
  <2>3. Selects(K, q, F) /\ Selects(K, r, G)
    BY <1>2, <1>3
  <2>4. \A k \in Nat : /\ k <= Len(q) /\ k <= Len(r)
                       /\ \A i \in 1 .. k : q[i] = r[i]
                       => F[k] = G[k]
    BY <2>1, <2>3, SelectsAgree
  <2> QED BY <2>1, <2>2, <2>4
<1>5. m + 1 \in 0 .. Len(r) /\ m + 1 # 0 /\ (m + 1) - 1 = m
  BY <1>1
<1>6. G[m + 1] = IF r[m + 1] \in K THEN Append(G[(m + 1) - 1], r[m + 1])
                 ELSE G[(m + 1) - 1]
  BY <1>3, <1>5 DEF Selects
<1>7. G[m + 1] = IF x \in K THEN Append(G[m], x) ELSE G[m]
  BY <1>1, <1>5, <1>6
<1> QED BY <1>2, <1>3, <1>4, <1>7 DEF r, m

(* No element at all.                                                      *)
LEMMA OnlyEmpty ==
  ASSUME NEW K
  PROVE  Only(K, <<>>) = <<>>
<1>1. Len(<<>>) = 0
  OBVIOUS
<1>2. PICK F : Selects(K, <<>>, F) /\ Only(K, <<>>) = F[0]
  BY <1>1, OnlyIs
<1>3. 0 \in 0 .. Len(<<>>)
  BY <1>1
<1>4. F[0] = <<>>
  BY <1>2, <1>3 DEF Selects
<1> QED BY <1>2, <1>4

(* What is taken out is a sequence of the wanted.                          *)
LEMMA OnlyType ==
  ASSUME NEW S, NEW q \in Seq(S), NEW K
  PROVE  /\ Only(K, q) \in Seq(S)
         /\ \A i \in DOMAIN Only(K, q) : Only(K, q)[i] \in K
<1> DEFINE Fine(r) == /\ Only(K, r) \in Seq(S)
                      /\ \A i \in DOMAIN Only(K, r) : Only(K, r)[i] \in K
           T == {n \in Nat : \E r \in Seq(S) : Len(r) = n /\ ~Fine(r)}
<1>1. SUFFICES T = {}
  BY <1>1, LenProperties
<1>2. SUFFICES ASSUME T # {} PROVE FALSE
  OBVIOUS
<1>3. PICK n \in T : \A k \in T : n <= k
  <2>1. T \subseteq Nat
    OBVIOUS
  <2> HIDE DEF T
  <2> QED BY <1>2, <2>1, Least
<1>4. PICK r \in Seq(S) : Len(r) = n /\ ~Fine(r)
  BY <1>3
<1>5. r # <<>>
  <2>0. <<>> \in Seq(S) /\ DOMAIN <<>> = {} /\ Only(K, <<>>) = <<>>
    BY OnlyEmpty, EmptySeq
  <2>1. Fine(<<>>)
    BY <2>0
  <2> HIDE DEF Fine
  <2> QED BY <1>4, <2>1
<1>6. PICK a \in Seq(S), x \in S : r = Append(a, x)
  BY <1>5, SequenceEmptyOrAppend
<1>7. Len(a) \in Nat /\ Len(r) = Len(a) + 1
  BY <1>6, AppendProperties, LenProperties
<1>8. Fine(a)
  <2>1. ~(n <= Len(a))
    BY <1>4, <1>7
  <2> HIDE DEF Fine
  <2>2. Len(a) \notin T
    <3> HIDE DEF T
    <3> QED BY <1>3, <2>1
  <2> QED BY <1>7, <2>2
<1>9. Only(K, r) = IF x \in K THEN Append(Only(K, a), x) ELSE Only(K, a)
  BY <1>6, OnlyAppend
<1>10. CASE x \in K
  <2> DEFINE b == Only(K, a)
  <2>1. Only(K, r) = Append(b, x) /\ b \in Seq(S)
    BY <1>8, <1>9, <1>10
  <2>2. \A i \in DOMAIN b : b[i] \in K
    BY <1>8
  <2> HIDE DEF b
  <2>3. /\ Append(b, x) \in Seq(S) /\ Len(b) \in Nat /\ DOMAIN b = 1 .. Len(b)
        /\ DOMAIN Append(b, x) = 1 .. Len(b) + 1
        /\ \A i \in 1 .. Len(b) : Append(b, x)[i] = b[i]
        /\ Append(b, x)[Len(b) + 1] = x
    BY <2>1, AppendProperties, LenProperties
  <2>4. \A i \in 1 .. Len(b) + 1 : i \in 1 .. Len(b) \/ i = Len(b) + 1
    BY <2>3
  <2>5. \A i \in DOMAIN Append(b, x) : Append(b, x)[i] \in K
    BY <1>10, <2>2, <2>3, <2>4
  <2>6. Fine(r)
    BY <2>1, <2>3, <2>5
  <2> QED BY <1>4, <2>6
<1>11. CASE x \notin K
  <2>1. Only(K, r) = Only(K, a)
    BY <1>9, <1>11
  <2>2. Fine(r)
    BY <1>8, <2>1
  <2> QED BY <1>4, <2>2
<1> QED BY <1>10, <1>11

(* Two sequences one after the other.                                      *)
LEMMA OnlyConcat ==
  ASSUME NEW S, NEW q \in Seq(S), NEW t \in Seq(S), NEW K
  PROVE  Only(K, q \o t) = Only(K, q) \o Only(K, t)
<1> DEFINE Fine(r) == Only(K, q \o r) = Only(K, q) \o Only(K, r)
           T == {n \in Nat : \E r \in Seq(S) : Len(r) = n /\ ~Fine(r)}
<1>1. SUFFICES T = {}
  BY <1>1, LenProperties
<1>2. SUFFICES ASSUME T # {} PROVE FALSE
  OBVIOUS
<1>3. PICK n \in T : \A k \in T : n <= k
  <2>1. T \subseteq Nat
    OBVIOUS
  <2> HIDE DEF T
  <2> QED BY <1>2, <2>1, Least
<1>4. PICK r \in Seq(S) : Len(r) = n /\ ~Fine(r)
  BY <1>3
<1>0. Only(K, q) \in Seq(S)
  BY OnlyType
<1>5. r # <<>>
  <2>1. q \o <<>> = q /\ Only(K, q) \o <<>> = Only(K, q)
    BY <1>0, ConcatEmptySeq
  <2>2. Fine(<<>>)
    BY <2>1, OnlyEmpty
  <2> HIDE DEF Fine
  <2> QED BY <1>4, <2>2
<1>6. PICK a \in Seq(S), x \in S : r = Append(a, x)
  BY <1>5, SequenceEmptyOrAppend
<1>7. Len(a) \in Nat /\ Len(r) = Len(a) + 1
  BY <1>6, AppendProperties, LenProperties
<1>8. Fine(a)
  <2>1. ~(n <= Len(a))
    BY <1>4, <1>7
  <2> HIDE DEF Fine
  <2>2. Len(a) \notin T
    <3> HIDE DEF T
    <3> QED BY <1>3, <2>1
  <2> QED BY <1>7, <2>2
<1>9. /\ Only(K, r) = IF x \in K THEN Append(Only(K, a), x) ELSE Only(K, a)
      /\ Only(K, a) \in Seq(S)
  BY <1>6, OnlyAppend, OnlyType
<1>10. q \o r = Append(q \o a, x) /\ q \o a \in Seq(S)
  BY <1>6, ConcatAppend, ConcatProperties
<1>11. Only(K, q \o r)
         = IF x \in K THEN Append(Only(K, q \o a), x) ELSE Only(K, q \o a)
  <2> DEFINE b == q \o a
  <2>1. b \in Seq(S) /\ q \o r = Append(b, x)
    BY <1>10
  <2> HIDE DEF b
  <2>2. Only(K, Append(b, x)) = IF x \in K THEN Append(Only(K, b), x) ELSE Only(K, b)
    BY <2>1, OnlyAppend
  <2> QED BY <2>1, <2>2 DEF b
<1>12. x \in K => Append(Only(K, q) \o Only(K, a), x)
                      = Only(K, q) \o Append(Only(K, a), x)
  <2> DEFINE b == Only(K, q)
             c == Only(K, a)
  <2>1. b \in Seq(S) /\ c \in Seq(S)
    BY <1>0, <1>9
  <2> HIDE DEF b, c
  <2>2. b \o Append(c, x) = Append(b \o c, x)
    BY <2>1, ConcatAppend, SMTT(60)
  <2> QED BY <2>2 DEF b, c
<1>13. Fine(r)
  BY <1>8, <1>9, <1>11, <1>12
<1> QED BY <1>4, <1>13

(* A sequence of nothing else.                                             *)
LEMMA OnlyAll ==
  ASSUME NEW S, NEW q \in Seq(S), NEW K, \A i \in DOMAIN q : q[i] \in K
  PROVE  Only(K, q) = q
<1> DEFINE Pure(r) == \A i \in DOMAIN r : r[i] \in K
           Fine(r) == Only(K, r) = r
           T == {n \in Nat : \E r \in Seq(S) : Len(r) = n /\ Pure(r) /\ ~Fine(r)}
<1>1. SUFFICES T = {}
  BY <1>1, LenProperties
<1>2. SUFFICES ASSUME T # {} PROVE FALSE
  OBVIOUS
<1>3. PICK n \in T : \A k \in T : n <= k
  <2>1. T \subseteq Nat
    OBVIOUS
  <2> HIDE DEF T
  <2> QED BY <1>2, <2>1, Least
<1>4. PICK r \in Seq(S) : Len(r) = n /\ Pure(r) /\ ~Fine(r)
  BY <1>3
<1>5. r # <<>>
  BY <1>4, OnlyEmpty
<1>6. PICK a \in Seq(S), x \in S : r = Append(a, x)
  BY <1>5, SequenceEmptyOrAppend
<1>7. /\ Len(a) \in Nat /\ Len(r) = Len(a) + 1 /\ DOMAIN a = 1 .. Len(a)
      /\ DOMAIN r = 1 .. Len(a) + 1 /\ r[Len(a) + 1] = x
      /\ \A i \in 1 .. Len(a) : r[i] = a[i]
  BY <1>6, AppendProperties, LenProperties
<1>8. Pure(a) /\ x \in K
  <2>1. \A i \in 1 .. Len(a) : i \in 1 .. Len(a) + 1
    BY <1>7
  <2>2. Len(a) + 1 \in 1 .. Len(a) + 1
    BY <1>7
  <2> QED BY <1>4, <1>7, <2>1, <2>2
<1>9. Fine(a)
  <2>1. ~(n <= Len(a))
    BY <1>4, <1>7
  <2> HIDE DEF Fine, Pure
  <2>2. Len(a) \notin T
    <3> HIDE DEF T
    <3> QED BY <1>3, <2>1
  <2> QED BY <1>7, <1>8, <2>2
<1>10. Only(K, r) = Append(Only(K, a), x)
  BY <1>6, <1>8, OnlyAppend
<1>11. Fine(r)
  BY <1>6, <1>9, <1>10
<1> QED BY <1>4, <1>11

(* A sequence of what is not wanted.                                       *)
LEMMA OnlyNone ==
  ASSUME NEW S, NEW q \in Seq(S), NEW K, \A i \in DOMAIN q : q[i] \notin K
  PROVE  Only(K, q) = <<>>
<1> DEFINE Pure(r) == \A i \in DOMAIN r : r[i] \notin K
           Fine(r) == Only(K, r) = <<>>
           T == {n \in Nat : \E r \in Seq(S) : Len(r) = n /\ Pure(r) /\ ~Fine(r)}
<1>1. SUFFICES T = {}
  BY <1>1, LenProperties
<1>2. SUFFICES ASSUME T # {} PROVE FALSE
  OBVIOUS
<1>3. PICK n \in T : \A k \in T : n <= k
  <2>1. T \subseteq Nat
    OBVIOUS
  <2> HIDE DEF T
  <2> QED BY <1>2, <2>1, Least
<1>4. PICK r \in Seq(S) : Len(r) = n /\ Pure(r) /\ ~Fine(r)
  BY <1>3
<1>5. r # <<>>
  BY <1>4, OnlyEmpty
<1>6. PICK a \in Seq(S), x \in S : r = Append(a, x)
  BY <1>5, SequenceEmptyOrAppend
<1>7. /\ Len(a) \in Nat /\ Len(r) = Len(a) + 1 /\ DOMAIN a = 1 .. Len(a)
      /\ DOMAIN r = 1 .. Len(a) + 1 /\ r[Len(a) + 1] = x
      /\ \A i \in 1 .. Len(a) : r[i] = a[i]
  BY <1>6, AppendProperties, LenProperties
<1>8. Pure(a) /\ x \notin K
  <2>1. \A i \in 1 .. Len(a) : i \in 1 .. Len(a) + 1
    BY <1>7
  <2>2. Len(a) + 1 \in 1 .. Len(a) + 1
    BY <1>7
  <2> QED BY <1>4, <1>7, <2>1, <2>2
<1>9. Fine(a)
  <2>1. ~(n <= Len(a))
    BY <1>4, <1>7
  <2> HIDE DEF Fine, Pure
  <2>2. Len(a) \notin T
    <3> HIDE DEF T
    <3> QED BY <1>3, <2>1
  <2> QED BY <1>7, <1>8, <2>2
<1>10. Only(K, r) = Only(K, a)
  BY <1>6, <1>8, OnlyAppend
<1>11. Fine(r)
  BY <1>9, <1>10
<1> QED BY <1>4, <1>11

-----------------------------------------------------------------------------
(* What graph g is known to be like: one that is configured knows all      *)
(* formats and has nothing queued, one that is not holds nothing; and its  *)
(* buffers keep the streams apart.                                         *)
Queued(g, gr) ==
  /\ gr.up => \A s \in Inputs[g] : gr.frame_queue[s] = <<>> /\ gr.fmt[s] # NoFormat
  /\ ~gr.up => \A s \in Inputs[g] : gr.held[s] = <<>>
  /\ \A s \in Inputs[g] :
       /\ \A i \in DOMAIN gr.held[s] : gr.held[s][i].ist = s
       /\ \A i \in DOMAIN gr.frame_queue[s] : gr.frame_queue[s][i].ist = s

(* The loop was left.                                                      *)
Leaving(p) == p \in {"drain", "done", "exit"}

(* While the loop runs, an input whose end graph g was told has nothing to *)
(* come.                                                                   *)
EofInv(g) ==
  \A s \in graph[g].eof : ~Leaving(pc) =>
    read[FileOf[s]] = Len(content[FileOf[s]]) /\ dec[s] = <<>>

(* What is known of the graphs; one that is not configured has given       *)
(* nothing.                                                                *)
GraphInv ==
  \A g \in Graphs :
    /\ Queued(g, graph[g]) /\ EofInv(g)
    /\ ~graph[g].up => \A o \in OutsOf(g) : sink[o] = <<>>

(* What output o has been given.                                           *)
Coded(o) == ost[o].out \o ost[o].enc

(* What is still to be read of stream s.                                   *)
Unread(s) == OfIst(s, SubSeq(content[FileOf[s]], read[FileOf[s]] + 1,
                             Len(content[FileOf[s]])))

(* What is still ahead of the outputs of graph g, of its input s.          *)
Ahead(g, s) ==
  graph[g].held[s] \o (graph[g].frame_queue[s] \o (dec[s] \o Unread(s)))

(* What output o has been given, what waits for it at the sink and what is *)
(* ahead of its graph are what the files of its inputs hold.               *)
Chain(o) == \A s \in Inputs[GraphOf[o]] :
  OfIst(s, Coded(o) \o sink[o]) \o Ahead(GraphOf[o], s) = Holds(s)

(* No packet of a is later than one of b; those of a are in order.         *)
NoLater(a, b) == \A i \in DOMAIN a, j \in DOMAIN b : a[i].pts <= b[j].pts
Rising(a) == \A i \in DOMAIN a, j \in DOMAIN a : i <= j => a[i].pts <= a[j].pts

(* The sink is in order, and nothing ahead comes before it.                *)
Order(o) == /\ Rising(sink[o])
            /\ \A s \in Inputs[GraphOf[o]] : NoLater(sink[o], Ahead(GraphOf[o], s))

(* All packets are before the recording time.                              *)
AllInTime(o, seq) == \A i \in DOMAIN seq : InTime(o, seq[i])

(* seq is all that output o may get.                                       *)
GivesAll(o, seq) == \A s \in Inputs[GraphOf[o]] : OfIst(s, seq) = Expected(o, s)

(* Time does not run backwards in the inputs.                              *)
Ordered(o) == \A s \in Inputs[GraphOf[o]] : InOrder(s)

(* An output that is not finished was given all that is not ahead.         *)
RunsOn(o) ==
  ost[o].finished = {} /\ GraphOf[o] \notin lossy /\ pc \notin {"done", "exit"} =>
    /\ Chain(o) /\ AllInTime(o, Coded(o))
    /\ Ordered(o) => Order(o)

(* A finished one was given, or has output, all that it may get.           *)
HasAll(o) ==
  /\ ost[o].finished # {} /\ OutFile[o] \notin muxer_ended
  /\ GraphOf[o] \notin lossy /\ Ordered(o)
  => /\ pc \notin {"done", "exit"} => GivesAll(o, Coded(o))
     /\ pc = "done" /\ ~received_sigterm /\ ~failed => GivesAll(o, ost[o].out)

(* What is known of the outputs of the graphs.                             *)
FlowInv == \A o \in Encoded : RunsOn(o) /\ HasAll(o)

(* The loop ends by itself when all outputs are finished only.             *)
LeftInv ==
  pc \in {"drain", "done"} /\ ~received_sigterm /\ ~failed => Unfinished = {}

(* Frames are packets.                                                     *)
LEMMA FramesPackets ==
  ASSUME content \in Contents
  PROVE  /\ Frames \subseteq Packet
         /\ End \notin Packet /\ Mark \notin Packet
<1>1. ASSUME NEW p \in Frames PROVE p \in Packet
  <2>1. PICK f \in InFiles : p \in {content[f][i] : i \in DOMAIN content[f]}
    BY DEF Frames, Packets
  <2>2. PICK i \in DOMAIN content[f] : p = content[f][i]
    BY <2>1
  <2> DEFINE Data_ == [ist : {s \in Ists : FileOf[s] = f}, pts : Nat,
                       fmt : Nat \ {NoFormat}, key : BOOLEAN]
  <2>3. content[f] \in Seq({Mark} \cup Data_)
    BY ContentAssumption
  <2>4. p \in {Mark} \cup Data_
    <3> HIDE DEF Data_
    <3>1. i \in 1 .. Len(content[f])
      BY <2>3, LenProperties
    <3> QED BY <2>2, <2>3, <3>1, ElementOfSeq
  <2>5. p # Mark
    BY FramesAre
  <2>6. p \in Data_
    BY <2>4, <2>5
  <2> QED BY <2>6 DEF Packet
<1>2. \A p \in Packet : p.ist \in Nat \ {0}
  BY InputAssumption DEF Packet
<1>3. End \notin Packet /\ Mark \notin Packet
  <2>1. End.ist = 0 /\ Mark.ist = -1
    BY DEF End, Mark
  <2> QED BY <1>2, <2>1
<1> QED BY <1>1, <1>3

(* The packets of one stream.                                              *)
OfStream(s) == {p \in Packet : p.ist = s}

(* OfIst, without the detail.                                              *)
LEMMA OfIstConcat ==
  ASSUME NEW S, NEW q \in Seq(S), NEW t \in Seq(S), NEW s
  PROVE  OfIst(s, q \o t) = OfIst(s, q) \o OfIst(s, t)
<1> DEFINE K == {p \in Packet : p.ist = s}
<1>1. Only(K, q \o t) = Only(K, q) \o Only(K, t)
  BY OnlyConcat
<1> QED BY <1>1 DEF OfIst

(* The frames of a stream.                                                 *)
LEMMA OfIstType ==
  ASSUME NEW S, NEW q \in Seq(S), NEW s
  PROVE  /\ OfIst(s, q) \in Seq(S)
         /\ \A i \in DOMAIN OfIst(s, q) :
              OfIst(s, q)[i] \in Packet /\ OfIst(s, q)[i].ist = s
<1> DEFINE K == {p \in Packet : p.ist = s}
<1>1. Only(K, q) \in Seq(S) /\ \A i \in DOMAIN Only(K, q) : Only(K, q)[i] \in K
  BY OnlyType
<1> QED BY <1>1 DEF OfIst

(* Of a sequence of that stream everything, of another one nothing.        *)
LEMMA OfIstPure ==
  ASSUME content \in Contents, NEW q \in Seq(Frames), NEW s
  PROVE  /\ (\A i \in DOMAIN q : q[i].ist = s) => OfIst(s, q) = q
         /\ (\A i \in DOMAIN q : q[i].ist # s) => OfIst(s, q) = <<>>
<1> DEFINE K == {p \in Packet : p.ist = s}
<1>1. \A i \in DOMAIN q : q[i] \in Packet
  <2>1. \A i \in DOMAIN q : q[i] \in Frames
    BY LenProperties, ElementOfSeq
  <2> QED BY <2>1, FramesPackets
<1>2. (\A i \in DOMAIN q : q[i].ist = s) => \A i \in DOMAIN q : q[i] \in K
  BY <1>1
<1>3. (\A i \in DOMAIN q : q[i].ist # s) => \A i \in DOMAIN q : q[i] \notin K
  OBVIOUS
<1> HIDE DEF K
<1>4. (\A i \in DOMAIN q : q[i].ist = s) => Only(K, q) = q
  BY <1>2, OnlyAll
<1>5. (\A i \in DOMAIN q : q[i].ist # s) => Only(K, q) = <<>>
  BY <1>3, OnlyNone
<1> QED BY <1>4, <1>5 DEF OfIst, K

(* Of nothing.                                                             *)
LEMMA OfIstEmpty ==
  ASSUME NEW s
  PROVE  OfIst(s, <<>>) = <<>>
BY OnlyEmpty DEF OfIst

(* What a file holds.                                                      *)
LEMMA ContentIs ==
  ASSUME content \in Contents, NEW f \in InFiles
  PROVE  /\ content[f] \in Seq(Frames \cup {Mark}) /\ Len(content[f]) \in Nat
         /\ DOMAIN content[f] = 1 .. Len(content[f])
<1> DEFINE Data_ == [ist : {s \in Ists : FileOf[s] = f}, pts : Nat,
                     fmt : Nat \ {NoFormat}, key : BOOLEAN]
           c == content[f]
<1>1. c \in Seq({Mark} \cup Data_)
  BY ContentAssumption
<1>2. Len(c) \in Nat /\ DOMAIN c = 1 .. Len(c)
  <2> HIDE DEF Data_
  <2> QED BY <1>1, LenProperties
<1>3. ASSUME NEW i \in DOMAIN c PROVE c[i] \in Frames \cup {Mark}
  <2>1. c[i] \in {Mark} \cup Data_
    <3> HIDE DEF Data_
    <3> QED BY <1>1, <1>2, ElementOfSeq
  <2>2. CASE c[i] \in Data_
    <3>1. c[i].ist \in Ists
      BY <2>2
    <3>2. c[i].ist > 0
      <4>1. PICK k \in Ists : k = c[i].ist
        BY <3>1
      <4> HIDE DEF c
      <4>2. k \in Nat \ {0}
        BY InputAssumption
      <4>3. k > 0
        BY <4>2
      <4> QED BY <4>1, <4>3
    <3>3. c[i] \in Packets
      BY DEF Packets
    <3> QED BY <3>2, <3>3 DEF Frames, IsData
  <2> QED BY <2>1, <2>2
<1>4. c = [i \in 1 .. Len(c) |-> c[i]]
  <2> HIDE DEF Data_
  <2> QED BY <1>1, <1>2
<1>5. c \in Seq(Frames \cup {Mark})
  <2> HIDE DEF c
  <2> QED BY <1>2, <1>3, <1>4, SeqDef
<1> QED BY <1>2, <1>5

(* The unread part of a file: it shrinks by what is read, and with what    *)
(* was read it is all that the file holds.                                 *)
LEMMA UnreadIs ==
  ASSUME content \in Contents, NEW s \in Ists, NEW n \in Nat,
         n <= Len(content[FileOf[s]])
  PROVE  LET c == content[FileOf[s]]
             rest(k) == OfIst(s, SubSeq(c, k + 1, Len(c))) IN
         /\ rest(n) \in Seq(Frames) /\ OfIst(s, SubSeq(c, 1, n)) \in Seq(Frames)
         /\ Holds(s) \in Seq(Frames)
         /\ OfIst(s, SubSeq(c, 1, n)) \o rest(n) = Holds(s)
         /\ n = Len(c) => rest(n) = <<>>
         /\ n < Len(c) =>
              rest(n) = IF c[n + 1].ist = s THEN <<c[n + 1]>> \o rest(n + 1)
                        ELSE rest(n + 1)
<1> DEFINE c == content[FileOf[s]]
           S == Frames \cup {Mark}
           rest(k) == OfIst(s, SubSeq(c, k + 1, Len(c)))
<1>1. FileOf[s] \in InFiles
  BY Sets
<1>2. c \in Seq(S) /\ Len(c) \in Nat
  BY <1>1, ContentIs
<1> HIDE DEF c
<1>3. ASSUME NEW q \in Seq(S)
      PROVE  OfIst(s, q) \in Seq(Frames)
  <2> DEFINE r == OfIst(s, q)
  <2>1. r \in Seq(S) /\ \A i \in DOMAIN r : r[i] \in Packet
    BY OfIstType
  <2> HIDE DEF r
  <2>2. Len(r) \in Nat /\ DOMAIN r = 1 .. Len(r) /\ r = [i \in 1 .. Len(r) |-> r[i]]
    BY <2>1, LenProperties
  <2>3. \A i \in 1 .. Len(r) : r[i] \in Frames
    BY <2>1, <2>2, ElementOfSeq, FramesPackets
  <2>4. r \in Seq(Frames)
    BY <2>2, <2>3, SeqDef
  <2> QED BY <2>4 DEF r
<1>4. /\ SubSeq(c, 1, n) \in Seq(S) /\ SubSeq(c, n + 1, Len(c)) \in Seq(S)
      /\ SubSeq(c, 1, n) \o SubSeq(c, n + 1, Len(c)) = c
  <2>1. n \in 0 .. Len(c)
    BY <1>2 DEF c
  <2>2. SubSeq(c, 1, n) \in Seq(S) /\ SubSeq(c, n + 1, Len(c)) \in Seq(S)
    BY <1>2, <2>1, CutOff
  <2>3. 1 \in 1 .. Len(c) + 1 /\ n \in (1 - 1) .. Len(c) /\ Len(c) \in n .. Len(c)
    BY <1>2, <2>1
  <2>4. SubSeq(c, 1, n) \o SubSeq(c, n + 1, Len(c)) = SubSeq(c, 1, Len(c))
    BY <1>2, <2>3, ConcatAdjacentSubSeq
  <2> QED BY <1>2, <2>2, <2>4, SubSeqFull
<1>5. /\ OfIst(s, SubSeq(c, 1, n)) \in Seq(Frames) /\ rest(n) \in Seq(Frames)
      /\ OfIst(s, c) \in Seq(Frames)
  BY <1>2, <1>3, <1>4
<1>6. OfIst(s, SubSeq(c, 1, n)) \o rest(n) = OfIst(s, c)
  <2> DEFINE a == SubSeq(c, 1, n)
             b == SubSeq(c, n + 1, Len(c))
  <2>1. a \in Seq(S) /\ b \in Seq(S) /\ a \o b = c
    BY <1>4
  <2> HIDE DEF a, b
  <2>2. OfIst(s, a \o b) = OfIst(s, a) \o OfIst(s, b)
    BY <2>1, OfIstConcat
  <2> QED BY <2>1, <2>2 DEF a, b
<1>7. n = Len(c) => rest(n) = <<>>
  <2> SUFFICES ASSUME n = Len(c) PROVE rest(n) = <<>>
    OBVIOUS
  <2>1. SubSeq(c, n + 1, Len(c)) = <<>>
    BY <1>2, SubSeqEmpty
  <2> QED BY <2>1, OfIstEmpty
<1>8. ASSUME n < Len(c)
      PROVE  rest(n) = IF c[n + 1].ist = s THEN <<c[n + 1]>> \o rest(n + 1)
                       ELSE rest(n + 1)
  <2> DEFINE b == SubSeq(c, n + 2, Len(c))
             x == c[n + 1]
  <2>1. n + 1 \in 1 .. Len(c) /\ Len(c) \in n + 1 .. Len(c) /\ (n + 1) + 1 = n + 2
        /\ n + 1 \in 0 .. Len(c)
    BY <1>2, <1>8
  <2>2. SubSeq(c, n + 1, Len(c)) = <<x>> \o b
    BY <1>2, <2>1, SubSeqRecursiveFirst
  <2>3. x \in S /\ b \in Seq(S)
    <3>1. x \in S
      BY <1>2, <2>1, ElementOfSeq
    <3>2. SubSeq(c, (n + 1) + 1, Len(c)) \in Seq(S)
      BY <1>2, <2>1, CutOff
    <3> QED BY <2>1, <3>1, <3>2
  <2>4. rest(n + 1) = OfIst(s, b)
    BY <2>1
  <2> HIDE DEF b, x
  <2>5. <<x>> \in Seq(S) /\ DOMAIN <<x>> = {1} /\ <<x>>[1] = x
    BY <2>3
  <2>6. OfIst(s, <<x>> \o b) = OfIst(s, <<x>>) \o OfIst(s, b)
    BY <2>3, <2>5, OfIstConcat
  <2>7. rest(n) = OfIst(s, <<x>>) \o OfIst(s, b)
    BY <2>2, <2>6
  <2>8. OfIst(s, b) \in Seq(Frames)
    BY <1>3, <2>3
  <2>9. CASE x \in Frames
    <3>1. <<x>> \in Seq(Frames)
      BY <2>9
    <3>2. OfIst(s, <<x>>) = IF x.ist = s THEN <<x>> ELSE <<>>
      BY <2>5, <3>1, OfIstPure
    <3>3. <<>> \o OfIst(s, b) = OfIst(s, b)
      BY <2>8, ConcatEmptySeq
    <3> QED BY <2>4, <2>7, <3>2, <3>3 DEF x
  <2>10. CASE x = Mark
    <3>1. OfIst(s, <<x>>) \in Seq(Frames)
      BY <1>3, <2>5
    <3>2. x \notin OfStream(s)
      BY <2>10, FramesPackets DEF OfStream
    <3>3. Only(OfStream(s), <<x>>) = <<>>
      BY <2>5, <3>2, OnlyNone
    <3>4. OfIst(s, <<x>>) = <<>>
      BY <3>3 DEF OfIst, OfStream
    <3>5. x.ist # s
      <4>1. PICK k \in Nat : k = s
        BY Sets
      <4>2. k # -1
        BY <4>1
      <4> QED BY <2>10, <4>1, <4>2 DEF Mark
    <3>6. <<>> \o OfIst(s, b) = OfIst(s, b)
      BY <2>8, ConcatEmptySeq
    <3> QED BY <2>4, <2>7, <3>4, <3>5, <3>6 DEF x
  <2> QED BY <2>3, <2>9, <2>10
<1>9. Holds(s) = OfIst(s, c)
  BY DEF Holds, c
<1> QED BY <1>5, <1>6, <1>7, <1>8, <1>9 DEF c

(* Concatenations, regrouped.                                              *)
LEMMA Regroup ==
  ASSUME NEW S, NEW a \in Seq(S), NEW b \in Seq(S), NEW c \in Seq(S)
  PROVE  /\ (a \o b) \o c = a \o (b \o c)
         /\ a \o b \in Seq(S) /\ b \o c \in Seq(S) /\ a \o (b \o c) \in Seq(S)
<1>1. (a \o b) \o c = a \o (b \o c)
  BY ConcatAssociative
<1>2. a \o b \in Seq(S) /\ b \o c \in Seq(S)
  BY ConcatProperties
<1>3. a \o (b \o c) \in Seq(S)
  BY <1>2, ConcatProperties
<1> QED BY <1>1, <1>2, <1>3

(* Both for the sequences of this module.                                  *)
LEMMA Regrouped ==
  /\ \A a, b, c \in Seq(Frames \cup {End}) : (a \o b) \o c = a \o (b \o c)
  /\ \A a, b, c \in Seq(Frames) : (a \o b) \o c = a \o (b \o c)
<1>1. \A a, b, c \in Seq(Frames \cup {End}) : (a \o b) \o c = a \o (b \o c)
  BY ConcatAssociative
<1>2. \A a, b, c \in Seq(Frames) : (a \o b) \o c = a \o (b \o c)
  BY ConcatAssociative
<1> QED BY <1>1, <1>2

-----------------------------------------------------------------------------
(* The elements of a prefix.                                               *)
LEMMA Prefix ==
  ASSUME NEW S, NEW q \in Seq(S), NEW n \in 0 .. Len(q)
  PROVE  \A i \in 1 .. n : SubSeq(q, 1, n)[i] = q[i]
<1>1. Len(q) \in Nat /\ n \in Nat
  BY LenProperties
<1>2. \A i \in 1 .. n : i \in 1 .. Len(q)
  BY <1>1
<1>3. \A i \in 1 .. n : q[i] \in S
  BY <1>2, ElementOfSeq
<1>4. \A i \in 1 .. n - 1 + 1 : SubSeq(q, 1, n)[i] = q[1 + i - 1]
  BY <1>1, <1>3, SubSeqProperties
<1> QED BY <1>1, <1>4

(* The encoder gets the frames of the sink up to the first that is late,   *)
(* which finishes the stream.                                              *)
EncodesUpTo(o, before, frames, q) ==
  \/ /\ q.finished = {} /\ AllInTime(o, frames)
     /\ q.out \o q.enc = before \o frames
  \/ /\ q.finished # {}
     /\ \E k \in 1 .. Len(frames) :
          /\ ~InTime(o, frames[k]) /\ AllInTime(o, SubSeq(frames, 1, k - 1))
          /\ q.out \o q.enc = before \o SubSeq(frames, 1, k - 1)

(* encode_frames does so, unless the muxer refuses what comes out.         *)
LEMMA EncodesAll ==
  ASSUME content \in Contents, NEW o \in Outs, NEW r \in OstType, r.finished = {},
         NEW frames \in Seq(Frames),
         LET q == encode_frames(o, r, frames) IN
           OutFile[o] \notin muxer_ended \/ q.finished = {}
  PROVE  EncodesUpTo(o, r.out \o r.enc, frames, encode_frames(o, r, frames))
<1> DEFINE late == {i \in DOMAIN frames : ~InTime(o, frames[i])}
           upto == IF late = {} THEN Len(frames) ELSE Min(late) - 1
           all == r.enc \o SubSeq(frames, 1, upto)
           n == IF Len(all) > EncDelay THEN Len(all) - EncDelay ELSE 0
           given == SubSeq(all, 1, n)
           kept == SubSeq(all, n + 1, Len(all))
           r1 == of_output_packet(o, r, given)
           last == IF late # {} THEN frames[upto + 1].pts
                   ELSE IF frames # <<>> THEN Last(frames).pts ELSE r1.last
           fin == IF late # {} THEN r1.finished \cup {"enc"} ELSE r1.finished
           q == encode_frames(o, r, frames)
           U == Frames \cup {End}
<1>1. /\ r.enc \in Seq(Frames) /\ r.out \in Seq(U) /\ EncDelay \in Nat
      /\ Len(frames) \in Nat /\ DOMAIN frames = 1 .. Len(frames)
  BY GraphAssumption, LenProperties DEF OstType
<1>2. /\ upto \in 0 .. Len(frames)
      /\ late = {} => upto = Len(frames)
      /\ late # {} => /\ upto + 1 \in 1 .. Len(frames)
                      /\ ~InTime(o, frames[upto + 1])
      /\ \A i \in 1 .. upto : InTime(o, frames[i])
  <2>1. CASE late = {}
    BY <1>1, <2>1
  <2>2. CASE late # {}
    <3>1. late \subseteq Nat /\ late \subseteq 1 .. Len(frames)
      BY <1>1
    <3>2. Min(late) \in late /\ \A y \in late : Min(late) <= y
      <4> HIDE DEF late
      <4> QED BY <2>2, <3>1, MinIs
    <3>3. PICK m \in 1 .. Len(frames) : m = Min(late) /\ m \in late
      <4> HIDE DEF late
      <4> QED BY <3>1, <3>2
    <3>4. upto = m - 1 /\ upto + 1 = m /\ m \in Nat
      BY <1>1, <2>2, <3>3
    <3>5. ASSUME NEW i \in 1 .. upto PROVE InTime(o, frames[i])
      <4>1. i \in DOMAIN frames /\ ~(m <= i)
        <5> HIDE DEF late, upto
        <5> QED BY <1>1, <3>4
      <4>2. i \notin late
        <5> HIDE DEF late
        <5> QED BY <3>2, <3>3, <4>1
      <4> QED BY <4>1, <4>2
    <3>6. ~InTime(o, frames[m])
      BY <3>3
    <3> HIDE DEF late, upto
    <3> QED BY <1>1, <2>2, <3>4, <3>5, <3>6
  <2> QED BY <2>1, <2>2
<1>3. q = [r1 EXCEPT !.enc = kept, !.last = last, !.finished = fin]
  BY DEF encode_frames
<1> HIDE DEF last, late
<1> DEFINE part == SubSeq(frames, 1, upto)
<1>4. /\ part \in Seq(Frames) /\ AllInTime(o, part)
      /\ late = {} => part = frames
  <2>1. part \in Seq(Frames) /\ Len(part) = upto
    <3> HIDE DEF upto
    <3> QED BY <1>2, CutOff
  <2>2. \A i \in 1 .. upto : part[i] = frames[i]
    <3> HIDE DEF upto
    <3> QED BY <1>2, Prefix
  <2>3. DOMAIN part = 1 .. upto
    <3> HIDE DEF part, upto
    <3> QED BY <2>1, LenProperties
  <2>4. AllInTime(o, part)
    <3> HIDE DEF part, upto
    <3> QED BY <1>2, <2>2, <2>3 DEF AllInTime
  <2>5. late = {} => part = frames
    <3>1. late = {} => part = SubSeq(frames, 1, Len(frames))
      BY <1>2
    <3> QED BY <3>1, SubSeqFull
  <2> QED BY <2>1, <2>4, <2>5
<1> HIDE DEF upto
<1>5. all = r.enc \o part
  OBVIOUS
<1> HIDE DEF part
<1>6. all \in Seq(Frames) /\ Len(all) \in Nat
  <2>1. all \in Seq(Frames)
    BY <1>1, <1>4, <1>5, ConcatProperties
  <2> HIDE DEF all
  <2> QED BY <2>1, LenProperties
<1> HIDE DEF all
<1>7. n \in 0 .. Len(all)
  BY <1>1, <1>6
<1> HIDE DEF n
<1>8. given \in Seq(Frames) /\ kept \in Seq(Frames) /\ given \o kept = all
  <2>1. given \in Seq(Frames) /\ kept \in Seq(Frames)
    BY <1>6, <1>7, CutOff
  <2>2. 1 \in 1 .. Len(all) + 1 /\ n \in (1 - 1) .. Len(all) /\ Len(all) \in n .. Len(all)
    BY <1>6, <1>7
  <2>3. given \o kept = SubSeq(all, 1, Len(all))
    BY <1>6, <2>2, ConcatAdjacentSubSeq
  <2> QED BY <1>6, <2>1, <2>3, SubSeqFull
<1> HIDE DEF given, kept
<1>9. ~HasEnd(given) /\ given \in Seq(U)
  BY <1>8, FramesNoEnd, Wider
<1> DEFINE refused == OutFile[o] \in muxer_ended /\ given # <<>>
<1>10. ~refused
  <2> SUFFICES ASSUME refused PROVE FALSE
    OBVIOUS
  <2>1. r1 = [r EXCEPT !.finished = @ \cup {"mux"}]
    BY DEF of_output_packet, OstType
  <2>2. r1.finished # {}
    BY <2>1 DEF OstType
  <2>3. q.finished = fin
    <3>1. r1 \in OstType
      BY <2>1 DEF OstType
    <3> HIDE DEF r1, fin, q
    <3> QED BY <1>3, <3>1 DEF OstType
  <2>4. fin # {}
    <3> HIDE DEF r1
    <3> QED BY <2>2
  <2> QED BY <2>3, <2>4
<1>11. r1 = [r EXCEPT !.out = @ \o given]
  <2>1. ~(End \in {given[i] : i \in DOMAIN given})
    BY <1>9 DEF HasEnd
  <2>2. r1 = [r EXCEPT !.out = @ \o given, !.finished = @]
    BY <1>10, <2>1 DEF of_output_packet
  <2> QED BY <2>2 DEF OstType
<1>12. /\ r1 \in OstType /\ r1.finished = {} /\ r1.out = r.out \o given
  <2>1. r.out \o given \in Seq(U)
    BY <1>1, <1>9, ConcatProperties
  <2> QED BY <1>11, <2>1 DEF OstType
<1>13. q.out = r.out \o given /\ q.enc = kept
       /\ q.finished = IF late # {} THEN {"enc"} ELSE {}
  <2>1. fin = IF late # {} THEN {"enc"} ELSE {}
    BY <1>12
  <2> HIDE DEF r1, fin, q
  <2> QED BY <1>3, <1>12, <2>1 DEF OstType
<1>14. q.out \o q.enc = (r.out \o r.enc) \o part
  <2>1. /\ given \in Seq(U) /\ kept \in Seq(U)
        /\ r.enc \in Seq(U) /\ part \in Seq(U)
    BY <1>1, <1>4, <1>8, Wider
  <2> DEFINE ro == r.out
             re == r.enc
  <2>4. ro \in Seq(U) /\ re \in Seq(U)
    BY <1>1, <2>1
  <2> HIDE DEF q, ro, re, U, refused, r1, fin
  <2>5. \A x, y, z \in Seq(U) : (x \o y) \o z = x \o (y \o z)
    BY Regrouped, Zenon DEF U
  <2>2. (ro \o given) \o kept = ro \o (given \o kept)
    BY <2>1, <2>4, <2>5, ZenonT(60)
  <2>3. (ro \o re) \o part = ro \o (re \o part)
    BY <2>1, <2>4, <2>5, SMTT(60)
  <2> USE DEF ro, re
  <2> QED BY <1>5, <1>8, <1>13, <2>2, <2>3
<1>15. CASE late = {}
  <2> HIDE DEF q
  <2>1. q.finished = {} /\ part = frames
    BY <1>4, <1>13, <1>15
  <2>2. EncodesUpTo(o, r.out \o r.enc, frames, q)
    BY <1>4, <1>14, <2>1 DEF EncodesUpTo
  <2> QED BY <2>2 DEF q
<1>16. CASE late # {}
  <2> DEFINE k == upto + 1
  <2>1. /\ k \in 1 .. Len(frames) /\ ~InTime(o, frames[k])
        /\ part = SubSeq(frames, 1, k - 1)
    <3>1. upto + 1 - 1 = upto
      BY <1>2, <1>16
    <3> QED BY <1>2, <1>16, <3>1 DEF part
  <2> HIDE DEF q, k
  <2>2. q.finished # {}
    BY <1>13, <1>16
  <2>3. EncodesUpTo(o, r.out \o r.enc, frames, q)
    BY <1>4, <1>14, <2>1, <2>2 DEF EncodesUpTo
  <2> QED BY <2>3 DEF q
<1> QED BY <1>15, <1>16

-----------------------------------------------------------------------------
(* Where the elements of a concatenation come from.                        *)
LEMMA ConcatElements ==
  ASSUME NEW S, NEW a \in Seq(S), NEW b \in Seq(S)
  PROVE  /\ a \o b \in Seq(S) /\ Len(a) \in Nat /\ Len(b) \in Nat
         /\ DOMAIN (a \o b) = 1 .. Len(a) + Len(b)
         /\ DOMAIN a = 1 .. Len(a) /\ DOMAIN b = 1 .. Len(b)
         /\ \A i \in 1 .. Len(a) : i \in DOMAIN (a \o b) /\ (a \o b)[i] = a[i]
         /\ \A j \in 1 .. Len(b) : Len(a) + j \in DOMAIN (a \o b)
                                     /\ (a \o b)[Len(a) + j] = b[j]
         /\ \A i \in DOMAIN (a \o b) :
              i \in 1 .. Len(a) \/ \E j \in 1 .. Len(b) : i = Len(a) + j
<1>1. /\ a \o b \in Seq(S) /\ Len(a) \in Nat /\ Len(b) \in Nat
      /\ DOMAIN a = 1 .. Len(a) /\ DOMAIN b = 1 .. Len(b)
      /\ Len(a \o b) = Len(a) + Len(b)
      /\ \A i \in 1 .. Len(a) + Len(b) :
           (a \o b)[i] = IF i <= Len(a) THEN a[i] ELSE b[i - Len(a)]
  BY LenProperties, ConcatProperties
<1> DEFINE m == Len(a)
           n == Len(b)
           c == a \o b
<1>2. DOMAIN c = 1 .. m + n
  <2>1. c \in Seq(S) /\ Len(c) = m + n
    BY <1>1
  <2> HIDE DEF c
  <2> QED BY <2>1, LenProperties
<1> HIDE DEF c
<1>3. m \in Nat /\ n \in Nat
  BY <1>1
<1>4. \A i \in 1 .. m + n : c[i] = IF i <= m THEN a[i] ELSE b[i - m]
  BY <1>1 DEF c
<1> HIDE DEF m, n
<1>5. \A i \in 1 .. m : i \in 1 .. m + n /\ c[i] = a[i]
  BY <1>3, <1>4
<1>6. \A j \in 1 .. n : m + j \in 1 .. m + n /\ c[m + j] = b[j]
  <2> SUFFICES ASSUME NEW j \in 1 .. n PROVE m + j \in 1 .. m + n /\ c[m + j] = b[j]
    OBVIOUS
  <2>1. PICK k : k = m + j
    OBVIOUS
  <2>2. k \in 1 .. m + n /\ ~(k <= m) /\ k - m = j
    BY <1>3, <2>1
  <2>3. c[k] = b[k - m]
    BY <1>4, <2>2
  <2> QED BY <2>1, <2>2, <2>3
<1>7. \A i \in 1 .. m + n : i \in 1 .. m \/ \E j \in 1 .. n : i = m + j
  <2> SUFFICES ASSUME NEW i \in 1 .. m + n, i \notin 1 .. m
               PROVE  \E j \in 1 .. n : i = m + j
    OBVIOUS
  <2>1. i - m \in 1 .. n /\ i = m + (i - m)
    BY <1>3
  <2> QED BY <2>1
<1> QED BY <1>1, <1>2, <1>5, <1>6, <1>7 DEF c, m, n

(* Order of concatenations: each part is in order, and the first is not    *)
(* later than the second.                                                  *)
LEMMA LaterParts ==
  ASSUME NEW S, NEW a \in Seq(S), NEW b \in Seq(S), NEW c \in Seq(S)
  PROVE  /\ NoLater(a \o b, c) <=> NoLater(a, c) /\ NoLater(b, c)
         /\ NoLater(c, a \o b) <=> NoLater(c, a) /\ NoLater(c, b)
<1> DEFINE ab == a \o b
           l == Len(a)
<1>1. /\ DOMAIN a = 1 .. l /\ DOMAIN b = 1 .. Len(b)
      /\ \A i \in 1 .. l : i \in DOMAIN ab /\ ab[i] = a[i]
      /\ \A j \in 1 .. Len(b) : l + j \in DOMAIN ab /\ ab[l + j] = b[j]
      /\ \A i \in DOMAIN ab : i \in 1 .. l \/ \E j \in 1 .. Len(b) : i = l + j
  BY ConcatElements
<1> HIDE DEF ab, l
<1>2. ASSUME NEW i \in DOMAIN ab
      PROVE  (\E j \in DOMAIN a : ab[i] = a[j]) \/ (\E j \in DOMAIN b : ab[i] = b[j])
  <2>1. CASE i \in 1 .. l
    BY <1>1, <2>1
  <2>2. CASE \E j \in 1 .. Len(b) : i = l + j
    <3>1. PICK j \in 1 .. Len(b) : i = l + j
      BY <2>2
    <3>2. ab[i] = b[j]
      BY <1>1, <3>1
    <3> QED BY <1>1, <3>2
  <2> QED BY <1>1, <2>1, <2>2
<1>3. /\ \A j \in DOMAIN a : \E i \in DOMAIN ab : ab[i] = a[j]
      /\ \A j \in DOMAIN b : \E i \in DOMAIN ab : ab[i] = b[j]
  <2>1. \A j \in DOMAIN b : \E i \in DOMAIN ab : ab[i] = b[j]
    <3> SUFFICES ASSUME NEW j \in DOMAIN b PROVE \E i \in DOMAIN ab : ab[i] = b[j]
      OBVIOUS
    <3>1. l + j \in DOMAIN ab /\ ab[l + j] = b[j]
      BY <1>1
    <3> QED BY <3>1
  <2> QED BY <1>1, <2>1
<1>4. NoLater(ab, c) <=> NoLater(a, c) /\ NoLater(b, c)
  BY <1>2, <1>3, Zenon DEF NoLater
<1>5. NoLater(c, ab) <=> NoLater(c, a) /\ NoLater(c, b)
  BY <1>2, <1>3, Zenon DEF NoLater
<1> QED BY <1>4, <1>5 DEF ab

(* A concatenation is in order if its parts are, one after the other.      *)
LEMMA RisingParts ==
  ASSUME NEW S, NEW a \in Seq(S), NEW b \in Seq(S)
  PROVE  Rising(a \o b) <=> Rising(a) /\ Rising(b) /\ NoLater(a, b)
<1> DEFINE ab == a \o b
           l == Len(a)
<1>1. /\ DOMAIN a = 1 .. l /\ DOMAIN b = 1 .. Len(b) /\ l \in Nat /\ Len(b) \in Nat
      /\ \A i \in 1 .. l : i \in DOMAIN ab /\ ab[i] = a[i]
      /\ \A j \in 1 .. Len(b) : l + j \in DOMAIN ab /\ ab[l + j] = b[j]
      /\ \A i \in DOMAIN ab : i \in 1 .. l \/ \E j \in 1 .. Len(b) : i = l + j
  BY ConcatElements
<1> HIDE DEF ab, l
<1>2. ASSUME Rising(ab) PROVE Rising(a) /\ Rising(b) /\ NoLater(a, b)
  <2>1. Rising(a)
    BY <1>1, <1>2 DEF Rising
  <2>2. Rising(b)
    <3> SUFFICES ASSUME NEW i \in 1 .. Len(b), NEW j \in 1 .. Len(b), i <= j
                 PROVE  b[i].pts <= b[j].pts
      BY <1>1 DEF Rising
    <3>1. l + i \in DOMAIN ab /\ l + j \in DOMAIN ab /\ ab[l + i] = b[i] /\ ab[l + j] = b[j]
      BY <1>1
    <3>2. l + i <= l + j
      BY <1>1
    <3>3. ab[l + i].pts <= ab[l + j].pts
      BY <1>2, <3>1, <3>2 DEF Rising
    <3> QED BY <3>1, <3>3
  <2>3. NoLater(a, b)
    <3> SUFFICES ASSUME NEW i \in 1 .. l, NEW j \in 1 .. Len(b)
                 PROVE  a[i].pts <= b[j].pts
      BY <1>1 DEF NoLater
    <3>1. i \in DOMAIN ab /\ l + j \in DOMAIN ab /\ ab[i] = a[i] /\ ab[l + j] = b[j]
      BY <1>1
    <3>2. i <= l + j
      BY <1>1
    <3>3. ab[i].pts <= ab[l + j].pts
      BY <1>2, <3>1, <3>2 DEF Rising
    <3> QED BY <3>1, <3>3
  <2> QED BY <2>1, <2>2, <2>3
<1>3. ASSUME Rising(a), Rising(b), NoLater(a, b) PROVE Rising(ab)
  <2> SUFFICES ASSUME NEW i \in DOMAIN ab, NEW j \in DOMAIN ab, i <= j
               PROVE  ab[i].pts <= ab[j].pts
    BY DEF Rising
  <2>1. CASE i \in 1 .. l /\ j \in 1 .. l
    <3>1. a[i].pts <= a[j].pts
      BY <1>1, <1>3, <2>1 DEF Rising
    <3> QED BY <1>1, <2>1, <3>1
  <2>2. CASE i \in 1 .. l /\ j \notin 1 .. l
    <3>1. PICK y \in 1 .. Len(b) : j = l + y
      BY <1>1, <2>2
    <3>2. a[i].pts <= b[y].pts
      BY <1>1, <1>3, <2>2 DEF NoLater
    <3>3. ab[i] = a[i] /\ ab[j] = b[y]
      BY <1>1, <2>2, <3>1
    <3> QED BY <3>2, <3>3
  <2>3. CASE i \notin 1 .. l
    <3>1. PICK x \in 1 .. Len(b) : i = l + x
      BY <1>1, <2>3
    <3>2. j \notin 1 .. l
      BY <1>1, <3>1
    <3>3. PICK y \in 1 .. Len(b) : j = l + y
      BY <1>1, <3>2
    <3>4. x <= y
      BY <1>1, <3>1, <3>3
    <3>5. b[x].pts <= b[y].pts
      BY <1>1, <1>3, <3>4 DEF Rising
    <3>6. ab[i] = b[x] /\ ab[j] = b[y]
      BY <1>1, <3>1, <3>3
    <3> QED BY <3>5, <3>6
  <2> QED BY <2>1, <2>2, <2>3
<1> QED BY <1>2, <1>3 DEF ab

(* Nothing comes before or behind nothing.                                 *)
LEMMA NothingRises ==
  ASSUME NEW a
  PROVE  Rising(<<>>) /\ NoLater(<<>>, a) /\ NoLater(a, <<>>)
<1>1. DOMAIN <<>> = {}
  OBVIOUS
<1> QED BY <1>1 DEF Rising, NoLater

(* A frame of stream s in a sequence is among its frames of that stream.   *)
LEMMA OfIstHas ==
  ASSUME content \in Contents, NEW m \in Seq(Frames), NEW i \in DOMAIN m
  PROVE  \E j \in DOMAIN OfIst(m[i].ist, m) : OfIst(m[i].ist, m)[j] = m[i]
<1> DEFINE n == Len(m)
           x == m[i]
           s == x.ist
           a == SubSeq(m, 1, i - 1)
           b == SubSeq(m, i + 1, n)
<1>1. n \in Nat /\ i \in 1 .. n /\ x \in Frames
  <2>1. n \in Nat /\ DOMAIN m = 1 .. n
    BY LenProperties
  <2> QED BY <2>1, ElementOfSeq
<1>2. /\ i - 1 \in 0 .. n /\ i \in 0 .. n /\ i - 1 + 1 = i
      /\ n \in i .. n /\ n \in (i - 1) .. n /\ 1 \in 1 .. n + 1
      /\ i - 1 \in (1 - 1) .. n
  BY <1>1
<1>3. a \in Seq(Frames) /\ b \in Seq(Frames)
  BY <1>2, CutOff
<1>4. SubSeq(m, i, n) = <<x>> \o b
  BY <1>1, <1>2, SubSeqRecursiveFirst
<1>5. a \o SubSeq(m, i - 1 + 1, n) = SubSeq(m, 1, n)
  BY <1>2, ConcatAdjacentSubSeq
<1>6. m = a \o (<<x>> \o b)
  BY <1>2, <1>4, <1>5, SubSeqFull
<1> HIDE DEF a, b, x, n
<1>7. /\ <<x>> \in Seq(Frames) /\ Len(<<x>>) = 1 /\ DOMAIN <<x>> = {1}
      /\ <<x>>[1] = x
  BY <1>1
<1>8. <<x>> \o b \in Seq(Frames)
  BY <1>3, <1>7, ConcatProperties
<1>9. OfIst(s, <<x>>) = <<x>>
  BY <1>7, OfIstPure
<1> DEFINE oa == OfIst(s, a)
           ob == OfIst(s, b)
<1>10. OfIst(s, m) = oa \o (<<x>> \o ob)
  <2>1. OfIst(s, <<x>> \o b) = <<x>> \o ob
    <3> DEFINE sx == <<x>>
    <3>1. sx \in Seq(Frames) /\ OfIst(s, sx) = <<x>>
      BY <1>7, <1>9
    <3> HIDE DEF sx, s
    <3>2. OfIst(s, sx \o b) = OfIst(s, sx) \o OfIst(s, b)
      BY <1>3, <3>1, OfIstConcat
    <3> QED BY <3>1, <3>2 DEF sx
  <2> DEFINE xb == <<x>> \o b
  <2>2. OfIst(s, xb) = <<x>> \o ob /\ xb \in Seq(Frames) /\ m = a \o xb
    BY <1>6, <1>8, <2>1
  <2> HIDE DEF xb
  <2>3. OfIst(s, a \o xb) = oa \o OfIst(s, xb)
    BY <1>3, <2>2, OfIstConcat
  <2> QED BY <2>2, <2>3
<1>11. oa \in Seq(Frames) /\ ob \in Seq(Frames)
  BY <1>3, OfIstType
<1> HIDE DEF oa, ob
<1> DEFINE y == <<x>> \o ob
           r == oa \o y
<1>12. y \in Seq(Frames) /\ 1 \in 1 .. Len(y) /\ y[1] = x
  <2>1. /\ y \in Seq(Frames) /\ Len(ob) \in Nat /\ Len(y) = Len(<<x>>) + Len(ob)
        /\ \A k \in 1 .. Len(<<x>>) + Len(ob) :
             y[k] = IF k <= Len(<<x>>) THEN <<x>>[k] ELSE ob[k - Len(<<x>>)]
    BY <1>7, <1>11, ConcatProperties, LenProperties
  <2>2. 1 \in 1 .. Len(<<x>>) + Len(ob) /\ 1 <= Len(<<x>>)
    BY <1>7, <2>1
  <2> QED BY <1>7, <2>1, <2>2
<1> HIDE DEF y
<1>13. Len(oa) + 1 \in DOMAIN r /\ r[Len(oa) + 1] = x
  BY <1>11, <1>12, ConcatElements
<1>14. OfIst(s, m) = r
  BY <1>10 DEF y
<1> HIDE DEF r
<1>15. \E j \in DOMAIN OfIst(s, m) : OfIst(s, m)[j] = x
  BY <1>13, <1>14
<1> QED BY <1>15 DEF x

-----------------------------------------------------------------------------
(* Frames m move from those ahead to those handed on.                      *)
Relinks(s, c, k, m, B) ==
  /\ OfIst(s, c \o (k \o m)) \o B = OfIst(s, c \o k) \o (OfIst(s, m) \o B)
  /\ OfIst(s, (c \o k) \o m) \o B = OfIst(s, c \o k) \o (OfIst(s, m) \o B)

(* Frames that move from ahead into the sink stay in the chain.            *)
LEMMA ChainAfter ==
  ASSUME content \in Contents, NEW s, NEW c \in Seq(Frames \cup {End}),
         NEW k \in Seq(Frames), NEW m \in Seq(Frames), NEW B \in Seq(Frames)
  PROVE  Relinks(s, c, k, m, B)
<1> DEFINE U == Frames \cup {End}
           x == c \o k
           ox == OfIst(s, x)
           om == OfIst(s, m)
<1>1. c \in Seq(U) /\ k \in Seq(U) /\ m \in Seq(U) /\ B \in Seq(U)
  BY Wider
<1>2. om \in Seq(Frames)
  BY OfIstType
<1> HIDE DEF U
<1>3. x \in Seq(U) /\ x \o m = c \o (k \o m)
  BY <1>1, Regroup
<1> HIDE DEF x
<1>4. OfIst(s, x \o m) = ox \o om /\ ox \in Seq(U)
  BY <1>1, <1>3, OfIstConcat, OfIstType
<1>5. om \in Seq(U)
  BY <1>2, Wider DEF U
<1> HIDE DEF ox, om
<1>6. (ox \o om) \o B = ox \o (om \o B)
  <2>1. \A p, q, r \in Seq(U) : (p \o q) \o r = p \o (q \o r)
    BY Regrouped, Zenon DEF U
  <2> QED BY <1>1, <1>4, <1>5, <2>1, Zenon
<1> QED BY <1>3, <1>4, <1>6 DEF Relinks, x, ox, om

(* The frames of the sink stay in order, and before those ahead.           *)
LEMMA OrderAfter ==
  ASSUME content \in Contents, NEW I, NEW k \in Seq(Frames), NEW m \in Seq(Frames),
         NEW A, NEW B, \A s \in I : A[s] \in Seq(Frames) /\ B[s] \in Seq(Frames),
         \A s \in I : OfIst(s, m) \o B[s] = A[s],
         \A i \in DOMAIN m : m[i].ist \in I,
         Rising(k), \A s \in I : NoLater(k, A[s]),
         Rising(m), \A s \in I : NoLater(m, B[s])
  PROVE  Rising(k \o m) /\ \A s \in I : NoLater(k \o m, B[s])
<1>1. ASSUME NEW s \in I
      PROVE  NoLater(k, OfIst(s, m)) /\ NoLater(k, B[s])
  <2> DEFINE om == OfIst(s, m)
             b == B[s]
  <2>1. om \in Seq(Frames) /\ b \in Seq(Frames) /\ NoLater(k, om \o b)
    BY OfIstType
  <2> HIDE DEF om, b
  <2>2. NoLater(k, om) /\ NoLater(k, b)
    BY <2>1, LaterParts
  <2> QED BY <2>2 DEF om, b
<1>2. NoLater(k, m)
  <2> SUFFICES ASSUME NEW i \in DOMAIN k, NEW j \in DOMAIN m
               PROVE  k[i].pts <= m[j].pts
    BY DEF NoLater
  <2>1. m[j].ist \in I
    OBVIOUS
  <2>2. PICK n \in DOMAIN OfIst(m[j].ist, m) : OfIst(m[j].ist, m)[n] = m[j]
    BY OfIstHas
  <2>3. k[i].pts <= OfIst(m[j].ist, m)[n].pts
    BY <1>1, <2>1, <2>2 DEF NoLater
  <2> QED BY <2>2, <2>3
<1>3. Rising(k \o m)
  BY <1>2, RisingParts
<1>4. ASSUME NEW s \in I PROVE NoLater(k \o m, B[s])
  <2> DEFINE b == B[s]
  <2>1. b \in Seq(Frames) /\ NoLater(k, b) /\ NoLater(m, b)
    BY <1>1
  <2> HIDE DEF b
  <2>2. NoLater(k \o m, b)
    BY <2>1, LaterParts
  <2> QED BY <2>2 DEF b
<1> QED BY <1>3, <1>4

(* What is in time of a sequence in front of frames that are late.         *)
LEMMA OnlyInTime ==
  ASSUME content \in Contents, NEW o, NEW x \in Seq(Frames), NEW y \in Seq(Frames),
         AllInTime(o, x), \A i \in DOMAIN y : ~InTime(o, y[i])
  PROVE  Only({p \in Packet : InTime(o, p)}, x \o y) = x
<1> DEFINE T == {p \in Packet : InTime(o, p)}
<1>1. \A i \in DOMAIN x : x[i] \in T
  <2>1. \A i \in DOMAIN x : x[i] \in Frames
    BY LenProperties, ElementOfSeq
  <2> QED BY <2>1, FramesPackets DEF AllInTime
<1>2. \A i \in DOMAIN y : y[i] \notin T
  OBVIOUS
<1> HIDE DEF T
<1>3. Only(T, x) = x /\ Only(T, y) = <<>>
  BY <1>1, <1>2, OnlyAll, OnlyNone
<1>4. Only(T, x \o y) = Only(T, x) \o Only(T, y)
  BY OnlyConcat
<1>5. x \o <<>> = x
  BY ConcatEmptySeq
<1> QED BY <1>3, <1>4, <1>5 DEF T

(* The frames of a stream in a sequence that is in time, or late.          *)
LEMMA OfIstTimes ==
  ASSUME content \in Contents, NEW o, NEW s, NEW q \in Seq(Frames \cup {End})
  PROVE  /\ OfIst(s, q) \in Seq(Frames)
         /\ AllInTime(o, q) => AllInTime(o, OfIst(s, q))
         /\ (\A i \in DOMAIN q : ~InTime(o, q[i])) =>
              \A i \in DOMAIN OfIst(s, q) : ~InTime(o, OfIst(s, q)[i])
<1> DEFINE U == Frames \cup {End}
           r == OfIst(s, q)
<1>0. /\ DOMAIN q = 1 .. Len(q) /\ Len(q) \in Nat /\ q = [i \in 1 .. Len(q) |-> q[i]]
      /\ \A i \in 1 .. Len(q) : q[i] \in U
  BY LenProperties, ElementOfSeq
<1>1. r \in Seq(U) /\ \A i \in DOMAIN r : r[i] \in Packet
  BY OfIstType
<1>2. r \in Seq(Frames)
  <2> HIDE DEF r
  <2>1. Len(r) \in Nat /\ DOMAIN r = 1 .. Len(r) /\ r = [i \in 1 .. Len(r) |-> r[i]]
    BY <1>1, LenProperties
  <2>2. \A i \in 1 .. Len(r) : r[i] \in Frames
    BY <1>1, <2>1, ElementOfSeq, FramesPackets
  <2> QED BY <2>1, <2>2, SeqDef
<1>3. ASSUME NEW V, \A i \in 1 .. Len(q) : q[i] \in V
      PROVE  \A i \in DOMAIN r : r[i] \in V
  <2>1. q \in Seq(V)
    BY <1>0, <1>3, SeqDef
  <2>2. r \in Seq(V)
    BY <2>1, OfIstType
  <2> HIDE DEF r
  <2> QED BY <2>2, LenProperties, ElementOfSeq
<1>4. ASSUME AllInTime(o, q) PROVE AllInTime(o, r)
  <2> DEFINE V == {p \in U : InTime(o, p)}
  <2>1. \A i \in 1 .. Len(q) : q[i] \in V
    BY <1>0, <1>4 DEF AllInTime
  <2> HIDE DEF r, V
  <2>2. \A i \in DOMAIN r : r[i] \in V
    BY <1>3, <2>1
  <2> QED BY <2>2 DEF AllInTime, V
<1>5. ASSUME \A i \in DOMAIN q : ~InTime(o, q[i])
      PROVE  \A i \in DOMAIN r : ~InTime(o, r[i])
  <2> DEFINE V == {p \in U : ~InTime(o, p)}
  <2>1. \A i \in 1 .. Len(q) : q[i] \in V
    BY <1>0, <1>5
  <2> HIDE DEF r, V
  <2>2. \A i \in DOMAIN r : r[i] \in V
    BY <1>3, <2>1
  <2> QED BY <2>2 DEF V
<1> QED BY <1>2, <1>4, <1>5

(* When the first frame that is late comes to the encoder, it was given    *)
(* all that is in time; and so it was when nothing is ahead any more.      *)
LEMMA AllEncoded ==
  ASSUME content \in Contents, recording_time \in Limits, NEW o \in Encoded, NEW s,
         NEW c \in Seq(Frames \cup {End}), AllInTime(o, c),
         NEW k \in Seq(Frames), NEW A \in Seq(Frames),
         OfIst(s, c \o k) \o A = Holds(s), Rising(k), NoLater(k, A),
         NEW n \in 1 .. Len(k), ~InTime(o, k[n]), AllInTime(o, SubSeq(k, 1, n - 1))
  PROVE  OfIst(s, c \o SubSeq(k, 1, n - 1)) = Expected(o, s)
<1> DEFINE U == Frames \cup {End}
           l == Len(k)
           a == SubSeq(k, 1, n - 1)
           b == SubSeq(k, n, l)
<1>1. l \in Nat /\ n \in Nat /\ DOMAIN k = 1 .. l /\ n - 1 \in 0 .. l /\ n - 1 + 1 = n
  BY LenProperties
<1>2. a \in Seq(Frames) /\ b \in Seq(Frames) /\ k = a \o b
  <2>1. a \in Seq(Frames) /\ SubSeq(k, n - 1 + 1, l) \in Seq(Frames)
    BY <1>1, CutOff
  <2>2. 1 \in 1 .. l + 1 /\ n - 1 \in (1 - 1) .. l /\ l \in (n - 1) .. l
    BY <1>1
  <2>3. a \o SubSeq(k, n - 1 + 1, l) = SubSeq(k, 1, l)
    BY <2>2, ConcatAdjacentSubSeq
  <2> QED BY <1>1, <2>1, <2>3, SubSeqFull
<1>3. \A p, q \in Frames : ~InTime(o, p) /\ p.pts <= q.pts => ~InTime(o, q)
  <2>1. recording_time[OutFile[o]] \in Nat
    BY LimitAssumption, OutputAssumption, Sets
  <2>2. PICK lim \in Nat : lim = recording_time[OutFile[o]]
    BY <2>1
  <2> SUFFICES ASSUME NEW p \in Frames, NEW q \in Frames, ~InTime(o, p), p.pts <= q.pts
               PROVE  ~InTime(o, q)
    OBVIOUS
  <2>3. p.pts \in Nat /\ q.pts \in Nat
    BY FramesAre
  <2> QED BY <2>2, <2>3 DEF InTime
<1>4. k[n] \in Frames
  BY <1>1, ElementOfSeq
<1>5. \A i \in DOMAIN A : ~InTime(o, A[i])
  <2> SUFFICES ASSUME NEW i \in DOMAIN A PROVE ~InTime(o, A[i])
    OBVIOUS
  <2>1. A[i] \in Frames
    BY LenProperties, ElementOfSeq
  <2>2. k[n].pts <= A[i].pts
    BY <1>1 DEF NoLater
  <2> QED BY <1>3, <1>4, <2>1, <2>2
<1>6. \A i \in DOMAIN b : ~InTime(o, b[i])
  <2>1. Len(b) \in Nat /\ DOMAIN b = 1 .. Len(b)
    BY <1>2, LenProperties
  <2>2. \A j \in n .. l : k[j] \in Frames /\ ~InTime(o, k[j])
    <3> SUFFICES ASSUME NEW j \in n .. l PROVE k[j] \in Frames /\ ~InTime(o, k[j])
      OBVIOUS
    <3>1. j \in 1 .. l /\ n \in 1 .. l /\ n <= j
      BY <1>1
    <3>2. k[j] \in Frames
      BY <3>1, ElementOfSeq
    <3>3. k[n].pts <= k[j].pts
      BY <1>1, <3>1 DEF Rising
    <3> QED BY <1>3, <1>4, <3>2, <3>3
  <2>3. Len(b) = l - n + 1 /\ \A i \in 1 .. l - n + 1 : b[i] = k[n + i - 1]
    <3>1. \A j \in n .. l : k[j] \in Frames
      BY <2>2
    <3>2. n <= l + 1 /\ l \in Int
      BY <1>1
    <3>3. /\ Len(SubSeq(k, n, l)) = IF n <= l THEN l - n + 1 ELSE 0
          /\ \A i \in 1 .. l - n + 1 : SubSeq(k, n, l)[i] = k[n + i - 1]
      BY <1>1, <3>1, SubSeqProperties
    <3>4. n <= l
      BY <1>1
    <3> QED BY <3>3, <3>4
  <2> HIDE DEF b
  <2> SUFFICES ASSUME NEW i \in 1 .. Len(b) PROVE ~InTime(o, b[i])
    BY <2>1
  <2>4. PICK j : j = n + i - 1
    OBVIOUS
  <2>5. j \in n .. l /\ i \in 1 .. l - n + 1
    BY <1>1, <2>1, <2>3, <2>4
  <2>6. b[i] = k[j]
    BY <2>3, <2>4, <2>5
  <2> QED BY <2>2, <2>5, <2>6
<1> HIDE DEF a, b, l
<1> DEFINE x == c \o a
           ox == OfIst(s, x)
           ob == OfIst(s, b)
<1>7. a \in Seq(U) /\ b \in Seq(U) /\ c \in Seq(U)
  BY <1>2, Wider
<1>8. x \in Seq(U) /\ AllInTime(o, x)
  <2>1. x \in Seq(U)
    BY <1>7, ConcatProperties
  <2>2. DOMAIN x = 1 .. Len(c) + Len(a)
    /\ DOMAIN c = 1 .. Len(c) /\ DOMAIN a = 1 .. Len(a)
    /\ (\A i \in 1 .. Len(c) : x[i] = c[i])
    /\ (\A j \in 1 .. Len(a) : x[Len(c) + j] = a[j])
    /\ \A i \in DOMAIN x : i \in 1 .. Len(c) \/ \E j \in 1 .. Len(a) : i = Len(c) + j
    <3> HIDE DEF U
    <3> QED BY <1>7, ConcatElements
  <2>3. AllInTime(o, a)
    BY DEF a
  <2> HIDE DEF x
  <2>4. AllInTime(o, x)
    <3> SUFFICES ASSUME NEW i \in DOMAIN x PROVE InTime(o, x[i])
      BY DEF AllInTime
    <3>1. CASE i \in 1 .. Len(c)
      BY <2>2, <3>1 DEF AllInTime
    <3>2. CASE \E j \in 1 .. Len(a) : i = Len(c) + j
      <4>1. PICK j \in 1 .. Len(a) : i = Len(c) + j
        BY <3>2
      <4>2. x[i] = a[j] /\ j \in DOMAIN a
        BY <2>2, <4>1
      <4> QED BY <2>3, <4>2 DEF AllInTime
    <3> QED BY <2>2, <3>1, <3>2
  <2> QED BY <2>1, <2>4 DEF x
<1>9. c \o k = x \o b
  <2> HIDE DEF U
  <2>1. \A p, q, r \in Seq(U) : (p \o q) \o r = p \o (q \o r)
    BY Regrouped, Zenon DEF U
  <2>2. (c \o a) \o b = c \o (a \o b)
    BY <1>7, <2>1, Zenon
  <2> QED BY <1>2, <2>2
<1> HIDE DEF x
<1>10. /\ ox \in Seq(Frames) /\ AllInTime(o, ox)
       /\ ob \in Seq(Frames) /\ \A i \in DOMAIN ob : ~InTime(o, ob[i])
  BY <1>6, <1>7, <1>8, OfIstTimes
<1>11. OfIst(s, x \o b) = ox \o ob
  <2> HIDE DEF U
  <2> QED BY <1>7, <1>8, OfIstConcat
<1> HIDE DEF ox, ob
<1> DEFINE y == ob \o A
<1>12. Holds(s) = ox \o y /\ y \in Seq(Frames)
  <2>1. \A p, q, r \in Seq(Frames) : (p \o q) \o r = p \o (q \o r)
    BY Regrouped, Zenon
  <2>2. (ox \o ob) \o A = ox \o (ob \o A)
    BY <1>10, <2>1, Zenon
  <2>3. ob \o A \in Seq(Frames)
    BY <1>10, ConcatProperties
  <2> QED BY <1>9, <1>11, <2>2, <2>3
<1>13. \A i \in DOMAIN y : ~InTime(o, y[i])
  <2>1. /\ DOMAIN ob = 1 .. Len(ob) /\ DOMAIN A = 1 .. Len(A)
        /\ \A i \in 1 .. Len(ob) : y[i] = ob[i]
        /\ \A j \in 1 .. Len(A) : y[Len(ob) + j] = A[j]
        /\ \A i \in DOMAIN y : i \in 1 .. Len(ob) \/ \E j \in 1 .. Len(A) : i = Len(ob) + j
    BY <1>10, ConcatElements, SMTT(60)
  <2> HIDE DEF y
  <2> SUFFICES ASSUME NEW i \in DOMAIN y PROVE ~InTime(o, y[i])
    OBVIOUS
  <2>2. CASE i \in 1 .. Len(ob)
    BY <1>10, <2>1, <2>2
  <2>3. CASE \E j \in 1 .. Len(A) : i = Len(ob) + j
    <3>1. PICK j \in 1 .. Len(A) : i = Len(ob) + j
      BY <2>3
    <3>2. y[i] = A[j] /\ j \in DOMAIN A
      BY <2>1, <3>1
    <3> QED BY <1>5, <3>2
  <2> QED BY <2>1, <2>2, <2>3
<1> HIDE DEF y
<1>14. Only({p \in Packet : InTime(o, p)}, ox \o y) = ox
  BY <1>10, <1>12, <1>13, OnlyInTime
<1>15. Expected(o, s) = Only({p \in Packet : InTime(o, p)}, Holds(s))
  BY DEF Expected
<1> QED BY <1>12, <1>14, <1>15 DEF ox, x, a

(* Nothing is ahead of the output any more: it was given all.              *)
LEMMA AllDrained ==
  ASSUME content \in Contents, NEW o \in Encoded, NEW s,
         NEW c \in Seq(Frames \cup {End}), AllInTime(o, c),
         OfIst(s, c) = Holds(s)
  PROVE  OfIst(s, c) = Expected(o, s)
<1> DEFINE h == OfIst(s, c)
<1>1. h \in Seq(Frames) /\ AllInTime(o, h)
  BY OfIstTimes
<1> HIDE DEF h
<1>2. <<>> \in Seq(Frames) /\ DOMAIN <<>> = {} /\ h \o <<>> = h
  BY <1>1, ConcatEmptySeq
<1>3. Only({p \in Packet : InTime(o, p)}, h \o <<>>) = h
  BY <1>1, <1>2, OnlyInTime
<1> QED BY <1>2, <1>3 DEF Expected, h

(* A concatenation is in time if its parts are.                            *)
LEMMA ConcatInTime ==
  ASSUME NEW S, NEW o, NEW a \in Seq(S), NEW b \in Seq(S),
         AllInTime(o, a), AllInTime(o, b)
  PROVE  AllInTime(o, a \o b)
<1> DEFINE x == a \o b
<1>1. /\ DOMAIN a = 1 .. Len(a) /\ DOMAIN b = 1 .. Len(b)
      /\ \A i \in 1 .. Len(a) : x[i] = a[i]
      /\ \A j \in 1 .. Len(b) : x[Len(a) + j] = b[j]
      /\ \A i \in DOMAIN x : i \in 1 .. Len(a) \/ \E j \in 1 .. Len(b) : i = Len(a) + j
  BY ConcatElements
<1> HIDE DEF x
<1>2. ASSUME NEW i \in DOMAIN x PROVE InTime(o, x[i])
  <2>1. CASE i \in 1 .. Len(a)
    BY <1>1, <2>1 DEF AllInTime
  <2>2. CASE \E j \in 1 .. Len(b) : i = Len(a) + j
    <3>1. PICK j \in 1 .. Len(b) : i = Len(a) + j
      BY <2>2
    <3>2. x[i] = b[j] /\ j \in DOMAIN b
      BY <1>1, <3>1
    <3> QED BY <3>2 DEF AllInTime
  <2> QED BY <1>1, <2>1, <2>2
<1> QED BY <1>2 DEF AllInTime, x

(* The frames ahead.                                                       *)
LEMMA AheadIs ==
  ASSUME content \in Contents, NEW s \in Ists, NEW n \in Nat,
         n <= Len(content[FileOf[s]]),
         NEW h \in Seq(Frames), NEW f \in Seq(Frames), NEW d \in Seq(Frames)
  PROVE  LET c == content[FileOf[s]]
             u == OfIst(s, SubSeq(c, n + 1, Len(c))) IN
         u \in Seq(Frames) /\ h \o (f \o (d \o u)) \in Seq(Frames)
<1> DEFINE c == content[FileOf[s]]
           u == OfIst(s, SubSeq(c, n + 1, Len(c)))
<1>1. u \in Seq(Frames)
  BY UnreadIs
<1> HIDE DEF u
<1>2. d \o u \in Seq(Frames)
  BY <1>1, ConcatProperties
<1>3. f \o (d \o u) \in Seq(Frames)
  BY <1>2, ConcatProperties
<1>4. h \o (f \o (d \o u)) \in Seq(Frames)
  BY <1>3, ConcatProperties
<1> QED BY <1>1, <1>4 DEF u

(* The types of what is ahead, ...                                         *)
LEMMA AheadTypes ==
  ASSUME TypeOK, NEW g \in Graphs, NEW s \in Inputs[g]
  PROVE  Ahead(g, s) \in Seq(Frames) /\ Unread(s) \in Seq(Frames)
<1>1. /\ content \in Contents /\ s \in Ists /\ FileOf[s] \in InFiles
      /\ graph[g].held[s] \in Seq(Frames) /\ graph[g].frame_queue[s] \in Seq(Frames)
      /\ dec[s] \in Seq(Frames)
  BY Sets DEF TypeOK, GraphType
<1>2. read[FileOf[s]] \in Nat /\ read[FileOf[s]] <= Len(content[FileOf[s]])
  BY <1>1 DEF TypeOK
<1> QED BY <1>1, <1>2, AheadIs DEF Ahead, Unread

(* ... also after a step.                                                  *)
LEMMA AheadNext ==
  ASSUME TypeOK', content' = content, NEW g \in Graphs, NEW s \in Inputs[g]
  PROVE  /\ Ahead(g, s)' \in Seq(Frames) /\ Unread(s)' \in Seq(Frames)
         /\ dec'[s] \in Seq(Frames)
         /\ graph'[g].held[s] \in Seq(Frames) /\ graph'[g].frame_queue[s] \in Seq(Frames)
<1>1. Frames' = Frames /\ GraphType(g)' = GraphType(g)
  BY SameTypes
<1>2. /\ s \in Ists /\ FileOf[s] \in InFiles /\ content \in Contents
      /\ graph'[g].held[s] \in Seq(Frames) /\ graph'[g].frame_queue[s] \in Seq(Frames)
      /\ dec'[s] \in Seq(Frames)
  BY <1>1, Sets DEF TypeOK, GraphType
<1>3. read'[FileOf[s]] \in Nat /\ read'[FileOf[s]] <= Len(content[FileOf[s]])
  BY <1>2 DEF TypeOK
<1> DEFINE h == graph'[g].held[s]
           f == graph'[g].frame_queue[s]
           d == dec'[s]
           n == read'[FileOf[s]]
           u == OfIst(s, SubSeq(content[FileOf[s]], n + 1, Len(content[FileOf[s]])))
           b == h \o (f \o (d \o u))
<1>4. Ahead(g, s)' = b /\ Unread(s)' = u
  BY DEF Ahead, Unread
<1> HIDE DEF h, f, d, n
<1>5. u \in Seq(Frames) /\ b \in Seq(Frames)
  BY <1>2, <1>3, AheadIs DEF h, f, d, n
<1> QED BY <1>2, <1>4, <1>5

(* reap_filters gives the frames of the sink to the encoder, unless the    *)
(* stream is finished.                                                     *)
LEMMA ReapedEncodes ==
  ASSUME IInv, GraphInv, NEW o \in Encoded, NEW flush \in BOOLEAN
  PROVE  LET q == Reaped(o, flush) IN
         /\ ost[o].finished # {} =>
              /\ q.out = ost[o].out /\ q.enc = ost[o].enc
              /\ q.finished = ost[o].finished
         /\ /\ ost[o].finished = {}
            /\ OutFile[o] \notin muxer_ended \/ q.finished = {}
            => EncodesUpTo(o, Coded(o), sink[o], q)
<1>1. /\ TypeOK /\ o \in Outs /\ o \notin Copies /\ ost[o] \in OstType
      /\ GraphOf[o] \in Graphs /\ sink[o] \in Seq(Frames) /\ content \in Contents
  BY Sets DEF IInv, TypeOK
<1> DEFINE q == Reaped(o, flush)
<1>2. CASE ~graph[GraphOf[o]].up
  <2>1. q = ost[o]
    BY <1>2 DEF Reaped
  <2>2. sink[o] = <<>>
    BY <1>1, <1>2 DEF GraphInv, OutsOf
  <2>3. Coded(o) \o <<>> = Coded(o)
    <3>1. ost[o].out \in Seq(Frames \cup {End}) /\ ost[o].enc \in Seq(Frames \cup {End})
      BY <1>1, Wider DEF OstType
    <3>2. Coded(o) \in Seq(Frames \cup {End})
      BY <3>1, ConcatProperties DEF Coded
    <3> QED BY <3>2, ConcatEmptySeq
  <2>4. AllInTime(o, <<>>)
    <3>1. DOMAIN <<>> = {}
      OBVIOUS
    <3> QED BY <3>1 DEF AllInTime
  <2>5. q.out \o q.enc = Coded(o) \o <<>>
    BY <2>1, <2>3 DEF Coded
  <2> HIDE DEF q
  <2>6. ost[o].finished = {} => EncodesUpTo(o, Coded(o), sink[o], q)
    BY <2>1, <2>2, <2>4, <2>5 DEF EncodesUpTo
  <2> QED BY <2>1, <2>6 DEF q
<1>3. CASE graph[GraphOf[o]].up
  <2> DEFINE now == \/ ost[o].initialized \/ o \in Audio \/ sink[o] # <<>>
                    \/ (flush /\ Drained(GraphOf[o]))
             r == [ost[o] EXCEPT !.initialized = now]
  <2>1. q = IF r.finished # {} THEN r ELSE encode_frames(o, r, sink[o])
    BY <1>1, <1>3 DEF Reaped
  <2>2. now \in BOOLEAN
    BY <1>1 DEF OstType
  <2> HIDE DEF now
  <2>3. /\ r \in OstType /\ r.out = ost[o].out
        /\ r.enc = ost[o].enc /\ r.finished = ost[o].finished
    BY <1>1, <2>2 DEF OstType
  <2> HIDE DEF r, q
  <2>4. CASE r.finished # {}
    BY <2>1, <2>3, <2>4 DEF q
  <2>5. CASE r.finished = {}
    <3>1. q = encode_frames(o, r, sink[o])
      BY <2>1, <2>5
    <3>2. ASSUME OutFile[o] \notin muxer_ended \/ q.finished = {}
          PROVE  EncodesUpTo(o, r.out \o r.enc, sink[o], q)
      BY <1>1, <2>3, <2>5, <3>1, <3>2, EncodesAll
    <3> QED BY <2>3, <2>5, <3>2 DEF Coded, q
  <2> QED BY <2>4, <2>5
<1> QED BY <1>2, <1>3

-----------------------------------------------------------------------------
(* What a step does with graph g that gives frames m: they come from those *)
(* that were ahead, in order if these are.                                 *)
Moves(I, m, A, B) ==
  /\ \A s \in I : OfIst(s, m) \o B[s] = A[s]
  /\ \A i \in DOMAIN m : m[i].ist \in I
  /\ (\A s \in I : Rising(A[s])) => Rising(m) /\ \A s \in I : NoLater(m, B[s])

AllAhead(g) == [s \in Inputs[g] |-> Ahead(g, s)]

(* Graph g hands on frames m: it gives what was ahead of it.               *)
Hands(g, m) ==
  /\ m \in Seq(Frames)
  /\ Queued(g, graph'[g]) /\ (graph'[g].up \/ (~graph[g].up /\ m = <<>>))
  /\ g \notin lossy' => Moves(Inputs[g], m, AllAhead(g), AllAhead(g)')

(* What it does with output o of this graph: the frames are put behind     *)
(* those of the sink, or in place of those, which are encoded; when the    *)
(* graph has ended the output is finished.                                 *)
SameCoded(o) ==
  /\ ost'[o].out = ost[o].out /\ ost'[o].enc = ost[o].enc
  /\ ost'[o].finished = ost[o].finished

(* The frames of the sink of output o are encoded.                         *)
Encodes(o) ==
  \E flush \in BOOLEAN : LET r == Reaped(o, flush) IN
    /\ ost'[o].out = r.out /\ ost'[o].enc = r.enc
    /\ \/ ost'[o].finished = r.finished
       \/ /\ ost'[o].finished = r.finished \cup {"enc"}
          /\ \A s \in Inputs[GraphOf[o]] : Ahead(GraphOf[o], s) = <<>>

(* Output o is served with frames m.                                       *)
Served(o, m) ==
  \/ SameCoded(o) /\ sink'[o] = sink[o] \o m
  \/ Encodes(o) /\ sink'[o] = m

(* The frames of an output that is not finished after such a step.         *)
Linked(o, x, A) ==
  \A s \in Inputs[GraphOf[o]] : A[s] \in Seq(Frames) /\ OfIst(s, x) \o A[s] = Holds(s)
(* The frames k of a sink are in order, and before what is ahead.          *)
InLine(o, k, A) ==
  Ordered(o) => Rising(k) /\ \A s \in Inputs[GraphOf[o]] : NoLater(k, A[s])

(* Whether k was encoded or stays in the sink, m comes behind it.          *)
LEMMA StillRuns ==
  ASSUME content \in Contents, NEW o \in Encoded, NEW c \in Seq(Frames \cup {End}),
         NEW k \in Seq(Frames), NEW m \in Seq(Frames), NEW A, NEW B,
         \A s \in Inputs[GraphOf[o]] : B[s] \in Seq(Frames),
         Moves(Inputs[GraphOf[o]], m, A, B), Linked(o, c \o k, A), InLine(o, k, A)
  PROVE  /\ Linked(o, c \o (k \o m), B) /\ Linked(o, (c \o k) \o m, B)
         /\ InLine(o, k \o m, B) /\ InLine(o, m, B)
<1> DEFINE I == Inputs[GraphOf[o]]
<1>1. ASSUME NEW s \in I
      PROVE  /\ OfIst(s, c \o (k \o m)) \o B[s] = Holds(s)
             /\ OfIst(s, (c \o k) \o m) \o B[s] = Holds(s)
  <2> DEFINE a == A[s]
             b == B[s]
  <2>1. /\ a \in Seq(Frames) /\ b \in Seq(Frames) /\ OfIst(s, m) \o b = a
        /\ OfIst(s, c \o k) \o a = Holds(s)
    BY DEF Moves, Linked
  <2> HIDE DEF a, b
  <2>0. b \in Seq(Frames)
    BY <2>1
  <2>2. /\ OfIst(s, c \o (k \o m)) \o b = OfIst(s, c \o k) \o (OfIst(s, m) \o b)
        /\ OfIst(s, (c \o k) \o m) \o b = OfIst(s, c \o k) \o (OfIst(s, m) \o b)
    <3>1. Relinks(s, c, k, m, b)
      BY <2>0, ChainAfter
    <3> QED BY <3>1 DEF Relinks
  <2> QED BY <2>1, <2>2 DEF b
<1>2. ASSUME Ordered(o)
      PROVE  /\ Rising(m) /\ \A s \in I : NoLater(m, B[s])
             /\ Rising(k \o m) /\ \A s \in I : NoLater(k \o m, B[s])
  <2>1. ASSUME NEW s \in I PROVE Rising(A[s])
    <3> DEFINE a == A[s]
               h == OfIst(s, c \o k)
    <3>1. a \in Seq(Frames) /\ h \o a = Holds(s)
      BY DEF Linked
    <3>2. c \o k \in Seq(Frames \cup {End})
      BY Wider, ConcatProperties
    <3>3. h \in Seq(Frames)
      BY <3>2, OfIstTimes
    <3>4. Rising(Holds(s))
      BY <1>2 DEF Ordered, InOrder, Rising
    <3> HIDE DEF a, h
    <3>5. Rising(h \o a)
      BY <3>1, <3>4
    <3>6. Rising(a)
      BY <3>1, <3>3, <3>5, RisingParts
    <3> QED BY <3>6 DEF a
  <2>2. Rising(m) /\ \A s \in I : NoLater(m, B[s])
    BY <2>1 DEF Moves
  <2>3. Rising(k) /\ \A s \in I : NoLater(k, A[s])
    BY <1>2 DEF InLine
  <2>4. /\ \A s \in I : A[s] \in Seq(Frames) /\ B[s] \in Seq(Frames)
        /\ \A s \in I : OfIst(s, m) \o B[s] = A[s]
        /\ \A i \in DOMAIN m : m[i].ist \in I
    BY DEF Moves, Linked
  <2> HIDE DEF I
  <2>5. Rising(k \o m) /\ \A s \in I : NoLater(k \o m, B[s])
    BY <2>2, <2>3, <2>4, OrderAfter
  <2> QED BY <2>2, <2>5
<1> QED BY <1>1, <1>2 DEF Linked, InLine

(* The types of what an output was given.                                  *)
LEMMA CodedTypes ==
  ASSUME TypeOK, NEW o \in Encoded
  PROVE  /\ Coded(o) \in Seq(Frames \cup {End}) /\ sink[o] \in Seq(Frames)
         /\ o \in Outs /\ GraphOf[o] \in Graphs /\ ost[o] \in OstType
<1>1. /\ o \in Outs /\ GraphOf[o] \in Graphs /\ ost[o] \in OstType
      /\ sink[o] \in Seq(Frames)
  BY Sets DEF TypeOK
<1>2. ost[o].out \in Seq(Frames \cup {End}) /\ ost[o].enc \in Seq(Frames \cup {End})
  BY <1>1, Wider DEF OstType
<1> QED BY <1>1, <1>2, ConcatProperties DEF Coded

(* So an output runs on, or has all that it may get, after such a step.    *)
LEMMA FlowAfter ==
  ASSUME IInv, GraphInv, TypeOK', content' = content,
         recording_time' = recording_time, muxer_ended \subseteq muxer_ended',
         lossy \subseteq lossy', pc \notin {"done", "exit"}, pc' \notin {"done", "exit"},
         NEW o \in Encoded, NEW m, Hands(GraphOf[o], m), Served(o, m),
         RunsOn(o), HasAll(o)
  PROVE  RunsOn(o)' /\ HasAll(o)'
<1> DEFINE g == GraphOf[o]
           I == Inputs[g]
           c == Coded(o)
           k == sink[o]
           A == AllAhead(g)
           B == AllAhead(g)'
<1>1. /\ c \in Seq(Frames \cup {End}) /\ k \in Seq(Frames) /\ g \in Graphs
      /\ content \in Contents /\ recording_time \in Limits /\ TypeOK
      /\ ost[o] \in OstType
  BY CodedTypes DEF IInv, TypeOK
<1>2. Frames' = Frames /\ \A h : GraphType(h)' = GraphType(h)
  BY SameTypes
<1>3. ASSUME NEW s \in I
      PROVE  /\ A[s] = Ahead(g, s) /\ Ahead(g, s) \in Seq(Frames)
             /\ B[s] = Ahead(g, s)' /\ Ahead(g, s)' \in Seq(Frames)
  <2>1. A[s] = Ahead(g, s) /\ Ahead(g, s) \in Seq(Frames)
    BY <1>1, AheadTypes DEF AllAhead
  <2>2. B[s] = Ahead(g, s)'
    BY DEF AllAhead
  <2> QED BY <1>1, <2>1, <2>2, AheadNext
<1>5. Ordered(o)' <=> Ordered(o)
  BY DEF Ordered, InOrder, Holds
<1>6. \A s \in I : Holds(s)' = Holds(s)
  BY DEF Holds
<1>7. \A q : AllInTime(o, q)' <=> AllInTime(o, q)
  BY DEF AllInTime, InTime
<1>8. \A s \in I : Expected(o, s)' = Expected(o, s)
  BY DEF Expected, Holds, InTime
<1>9. /\ Coded(o)' = ost'[o].out \o ost'[o].enc
      /\ RunsOn(o)' <=>
           (ost'[o].finished = {} /\ g \notin lossy' =>
              /\ Linked(o, Coded(o)' \o sink'[o], B) /\ AllInTime(o, Coded(o)')
              /\ InLine(o, sink'[o], B))
      /\ HasAll(o)' <=>
           (/\ ost'[o].finished # {} /\ OutFile[o] \notin muxer_ended'
            /\ g \notin lossy' /\ Ordered(o)
            => \A s \in I : OfIst(s, Coded(o)') = Expected(o, s))
  <2>1. Coded(o)' = ost'[o].out \o ost'[o].enc
    BY DEF Coded
  <2>2. Chain(o)' <=> \A s \in I : OfIst(s, Coded(o)' \o sink'[o]) \o Ahead(g, s)' = Holds(s)
    BY <1>6 DEF Chain
  <2>3. Order(o)' <=> Rising(sink'[o]) /\ \A s \in I : NoLater(sink'[o], Ahead(g, s)')
    BY DEF Order
  <2>4. AllInTime(o, Coded(o))' <=> AllInTime(o, Coded(o)')
    BY DEF AllInTime, InTime
  <2>5. GivesAll(o, Coded(o))' <=> \A s \in I : OfIst(s, Coded(o)') = Expected(o, s)
    BY <1>8 DEF GivesAll
  <2> HIDE DEF c, k, A, B
  <2>6. RunsOn(o)' <=>
           (ost'[o].finished = {} /\ g \notin lossy' =>
              /\ Linked(o, Coded(o)' \o sink'[o], B) /\ AllInTime(o, Coded(o)')
              /\ InLine(o, sink'[o], B))
    BY <1>3, <1>5, <2>2, <2>3, <2>4 DEF RunsOn, Linked, InLine
  <2>7. HasAll(o)' <=>
           (/\ ost'[o].finished # {} /\ OutFile[o] \notin muxer_ended'
            /\ g \notin lossy' /\ Ordered(o)
            => \A s \in I : OfIst(s, Coded(o)') = Expected(o, s))
    BY <1>5, <2>5 DEF HasAll
  <2> QED BY <2>1, <2>6, <2>7
<1>10. /\ ost[o].finished = {} /\ g \notin lossy =>
            Linked(o, c \o k, A) /\ AllInTime(o, c) /\ InLine(o, k, A)
       /\ /\ ost[o].finished # {} /\ OutFile[o] \notin muxer_ended
          /\ g \notin lossy /\ Ordered(o)
          => \A s \in I : OfIst(s, c) = Expected(o, s)
  BY <1>3 DEF RunsOn, HasAll, Chain, Order, Linked, InLine, GivesAll
<1>11. /\ m \in Seq(Frames) /\ (g \notin lossy' => g \notin lossy /\ Moves(I, m, A, B))
       /\ \A s \in I : B[s] \in Seq(Frames)
  BY <1>3 DEF Hands
<1> DEFINE c2 == Coded(o)'
           k2 == sink'[o]
           fin == ost'[o].finished
<1>12. \/ c2 = c /\ fin = ost[o].finished /\ k2 = k \o m
       \/ Encodes(o) /\ k2 = m
  BY <1>9 DEF Served, SameCoded, Coded
<1> HIDE DEF A, B, c, k, c2, k2, I, g
<1>13. CASE ost[o].finished # {}
  <2>1. c2 = c /\ fin # {}
    <3>1. CASE Encodes(o)
      <4>1. PICK flush \in BOOLEAN : LET r == Reaped(o, flush) IN
              /\ ost'[o].out = r.out /\ ost'[o].enc = r.enc
              /\ fin = r.finished \/ fin = r.finished \cup {"enc"}
        BY <3>1 DEF Encodes
      <4>2. /\ Reaped(o, flush).out = ost[o].out /\ Reaped(o, flush).enc = ost[o].enc
            /\ Reaped(o, flush).finished = ost[o].finished
        BY <1>13, ReapedEncodes
      <4> QED BY <1>9, <1>13, <4>1, <4>2 DEF c2, c, Coded
    <3>2. CASE c2 = c /\ fin = ost[o].finished
      BY <1>13, <3>2
    <3> QED BY <1>12, <3>1, <3>2
  <2> QED BY <1>9, <1>10, <1>13, <2>1 DEF c2, I, g
<1>14. CASE ost[o].finished = {} /\ c2 = c /\ fin = ost[o].finished /\ k2 = k \o m
  <2>1. ASSUME g \notin lossy'
        PROVE  Linked(o, c2 \o k2, B) /\ AllInTime(o, c2) /\ InLine(o, k2, B)
    <3>1. /\ Linked(o, c \o k, A) /\ AllInTime(o, c) /\ InLine(o, k, A)
          /\ Moves(I, m, A, B)
      BY <1>10, <1>11, <1>14, <2>1
    <3>2. Linked(o, c \o (k \o m), B) /\ InLine(o, k \o m, B)
      BY <1>1, <1>11, <3>1, StillRuns DEF I, g
    <3> QED BY <1>14, <3>1, <3>2
  <2> QED BY <1>9, <1>14, <2>1 DEF c2, k2, g, I
<1>15. CASE ost[o].finished = {} /\ Encodes(o) /\ k2 = m
  <2>1. PICK flush \in BOOLEAN : LET r == Reaped(o, flush) IN
          /\ ost'[o].out = r.out /\ ost'[o].enc = r.enc
          /\ \/ fin = r.finished
             \/ /\ fin = r.finished \cup {"enc"}
                /\ \A s \in I : Ahead(g, s) = <<>>
    BY <1>15 DEF Encodes, I, g
  <2> DEFINE r == Reaped(o, flush)
  <2>2. OutFile[o] \notin muxer_ended \/ r.finished = {} => EncodesUpTo(o, c, k, r)
    BY <1>15, ReapedEncodes DEF c, k
  <2>3. c2 = r.out \o r.enc
    BY <1>9, <2>1 DEF c2
  <2> HIDE DEF r
  <2>4. CASE fin = {}
    <3>1. r.finished = {} /\ AllInTime(o, k) /\ c2 = c \o k
      BY <2>1, <2>2, <2>3, <2>4 DEF EncodesUpTo, r
    <3>2. ASSUME g \notin lossy'
          PROVE  Linked(o, c2 \o k2, B) /\ AllInTime(o, c2) /\ InLine(o, k2, B)
      <4>1. /\ Linked(o, c \o k, A) /\ AllInTime(o, c) /\ InLine(o, k, A)
            /\ Moves(I, m, A, B)
        BY <1>10, <1>11, <1>15, <3>2
      <4>2. Linked(o, (c \o k) \o m, B) /\ InLine(o, m, B)
        BY <1>1, <1>11, <4>1, StillRuns DEF I, g
      <4>3. k \in Seq(Frames \cup {End})
        BY <1>1, Wider
      <4>4. AllInTime(o, c \o k)
        BY <1>1, <3>1, <4>1, <4>3, ConcatInTime
      <4> QED BY <1>15, <3>1, <4>2, <4>4
    <3> QED BY <1>9, <2>4, <3>2 DEF c2, k2, g, I, fin
  <2>5. CASE fin # {}
    <3>1. ASSUME OutFile[o] \notin muxer_ended', g \notin lossy', Ordered(o), NEW s \in I
          PROVE  OfIst(s, c2) = Expected(o, s)
      <4> DEFINE a == A[s]
      <4>1. EncodesUpTo(o, c, k, r)
        BY <2>2, <3>1
      <4>2. /\ a \in Seq(Frames) /\ OfIst(s, c \o k) \o a = Holds(s)
            /\ AllInTime(o, c) /\ Rising(k) /\ NoLater(k, a)
        BY <1>10, <1>11, <1>15, <3>1 DEF Linked, InLine, I, g
      <4>3. a = Ahead(g, s)
        BY <1>3 DEF g, I, A
      <4> HIDE DEF a
      <4>4. CASE r.finished = {}
        <5>1. AllInTime(o, k) /\ c2 = c \o k /\ a = <<>>
          BY <2>1, <2>3, <2>5, <4>1, <4>3, <4>4 DEF EncodesUpTo, r
        <5>2. k \in Seq(Frames \cup {End})
          BY <1>1, Wider
        <5>3. c2 \in Seq(Frames \cup {End}) /\ AllInTime(o, c2)
          BY <1>1, <4>2, <5>1, <5>2, ConcatInTime, ConcatProperties
        <5>4. OfIst(s, c2) \in Seq(Frames)
          BY <1>1, <5>3, OfIstTimes
        <5>5. OfIst(s, c2) = Holds(s)
          BY <4>2, <5>1, <5>4, ConcatEmptySeq
        <5> QED BY <1>1, <5>3, <5>5, AllDrained
      <4>5. CASE r.finished # {}
        <5>1. PICK n \in 1 .. Len(k) :
                /\ ~InTime(o, k[n]) /\ AllInTime(o, SubSeq(k, 1, n - 1))
                /\ c2 = c \o SubSeq(k, 1, n - 1)
          BY <2>3, <4>1, <4>5 DEF EncodesUpTo
        <5>2. OfIst(s, c \o SubSeq(k, 1, n - 1)) = Expected(o, s)
          BY <1>1, <4>2, <5>1, AllEncoded
        <5> QED BY <5>1, <5>2
      <4> QED BY <4>4, <4>5
    <3> QED BY <1>9, <2>5, <3>1 DEF c2, g, I, fin
  <2> QED BY <2>4, <2>5
<1> QED BY <1>12, <1>13, <1>14, <1>15

-----------------------------------------------------------------------------
(* Only graphs with one input are eager.                                   *)
LEMMA EagerInput ==
  ASSUME NEW g \in Eager
  PROVE  g \in Graphs /\ \E s \in Inputs[g] : Inputs[g] = {s}
<1>1. g \in Graphs /\ Cardinality(Inputs[g]) = 1 /\ Inputs[g] \subseteq Ists
  BY GraphAssumption
<1>2. IsFiniteSet(Inputs[g])
  BY <1>1, InputAssumption, FS_Subset
<1>3. \E s : Inputs[g] = {s}
  BY <1>1, <1>2, FS_Singleton
<1> QED BY <1>1, <1>3

(* What passes through a graph was held, and the rest still is.            *)
LEMMA PassedIs ==
  ASSUME content \in Contents, NEW g \in Graphs, NEW gr \in GraphType(g), Queued(g, gr)
  PROVE  LET m == Passed(g, gr)
             k == Kept(g, gr) IN
         /\ Queued(g, k) /\ k.eof = gr.eof /\ k.up = gr.up
         /\ k.frame_queue = gr.frame_queue /\ k.fmt = gr.fmt
         /\ ~gr.up => m = <<>>
         /\ \A s \in Inputs[g] : OfIst(s, m) \o k.held[s] = gr.held[s]
         /\ \A i \in DOMAIN m : m[i].ist \in Inputs[g]
         /\ m = <<>> \/ \E s : Inputs[g] = {s}
<1> DEFINE m == Passed(g, gr)
           k == Kept(g, gr)
           l == Len(m)
           rest == [s \in Inputs[g] |-> SubSeq(gr.held[s], l + 1, Len(gr.held[s]))]
<1>1. /\ m \in Seq(Frames) /\ k \in GraphType(g) /\ l \in Nat
      /\ gr.held \in [Inputs[g] -> Seq(Frames)] /\ Inputs[g] # {}
      /\ Latency[g] \in Nat
  BY KeptIs, LenProperties, GraphAssumption DEF GraphType
<1>2. k = [gr EXCEPT !.held = rest]
  BY DEF Kept
<1>3. /\ k.held = rest /\ k.eof = gr.eof /\ k.up = gr.up
      /\ k.frame_queue = gr.frame_queue /\ k.fmt = gr.fmt
  <2> HIDE DEF rest
  <2> QED BY <1>2 DEF GraphType
<1>4. ~gr.up => m = <<>>
  BY DEF Passed
<1>5. ASSUME NEW s \in Inputs[g], Inputs[g] = {s} \/ m = <<>>
      PROVE  /\ OfIst(s, m) \o rest[s] = gr.held[s]
             /\ \A i \in DOMAIN m : m[i].ist \in Inputs[g]
             /\ \A i \in DOMAIN rest[s] : rest[s][i].ist = s
             /\ gr.held[s] = <<>> => rest[s] = <<>>
  <2> DEFINE q == gr.held[s]
             n == Len(q) - IF s \in gr.eof THEN 0 ELSE Latency[g]
             b == SubSeq(q, l + 1, Len(q))
  <2>1. q \in Seq(Frames) /\ Len(q) \in Nat /\ \A i \in DOMAIN q : q[i].ist = s
    BY <1>1, LenProperties DEF Queued
  <2>2. m = <<>> \/ m = SubSeq(q, 1, n)
    <3>1. CASE g \notin Eager \/ ~gr.up
      BY <3>1 DEF Passed
    <3>2. CASE ~(g \notin Eager \/ ~gr.up) /\ Inputs[g] = {s}
      <4>1. s = CHOOSE t \in Inputs[g] : TRUE
        BY <3>2
      <4> QED BY <3>2, <4>1 DEF Passed
    <3> QED BY <1>5, <3>1, <3>2
  <2> HIDE DEF q, m
  <2>3. l \in 0 .. Len(q) /\ m = SubSeq(q, 1, l)
    <3>1. CASE m = <<>>
      <4>1. l = 0
        BY <3>1
      <4>2. SubSeq(q, 1, 0) = <<>>
        BY <2>1, SubSeqEmpty
      <4> QED BY <2>1, <3>1, <4>1, <4>2
    <3>2. CASE m # <<>> /\ m = SubSeq(q, 1, n)
      <4>1. n \in Int /\ n <= Len(q)
        BY <1>1, <2>1
      <4> HIDE DEF n
      <4>2. n >= 1
        <5> SUFFICES ASSUME ~(n >= 1) PROVE FALSE
          OBVIOUS
        <5>1. n < 1
          BY <4>1
        <5>2. SubSeq(q, 1, n) = <<>>
          BY <2>1, <4>1, <5>1, SubSeqEmpty
        <5> QED BY <3>2, <5>2
      <4>3. n \in 0 .. Len(q)
        BY <2>1, <4>1, <4>2
      <4>4. Len(SubSeq(q, 1, n)) = n
        BY <2>1, <4>3, CutOff
      <4> QED BY <3>2, <4>3, <4>4
    <3> QED BY <2>2, <3>1, <3>2
  <2>4. \A i \in DOMAIN m : m[i].ist = s
    <3>1. \A i \in 1 .. l : SubSeq(q, 1, l)[i] = q[i]
      BY <2>1, <2>3, Prefix
    <3>2. DOMAIN m = 1 .. l
      BY <1>1, LenProperties
    <3>3. DOMAIN q = 1 .. Len(q)
      BY <2>1, LenProperties
    <3> HIDE DEF l
    <3>4. \A i \in 1 .. l : i \in 1 .. Len(q) /\ m[i] = q[i]
      BY <2>1, <2>3, <3>1
    <3> QED BY <2>1, <3>2, <3>3, <3>4
  <2>5. b \in Seq(Frames) /\ m \o b = q
    <3> HIDE DEF l
    <3>1. b \in Seq(Frames)
      BY <2>1, <2>3, CutOff
    <3>2. 1 \in 1 .. Len(q) + 1 /\ l \in (1 - 1) .. Len(q) /\ Len(q) \in l .. Len(q)
      BY <2>1, <2>3
    <3>3. SubSeq(q, 1, l) \o b = SubSeq(q, 1, Len(q))
      BY <2>1, <3>2, ConcatAdjacentSubSeq
    <3> QED BY <2>1, <2>3, <3>1, <3>3, SubSeqFull
  <2>6. OfIst(s, m) = m
    BY <1>1, <2>4, OfIstPure
  <2> HIDE DEF b
  <2>7. /\ DOMAIN m = 1 .. Len(m) /\ DOMAIN b = 1 .. Len(b)
        /\ \A j \in 1 .. Len(b) : Len(m) + j \in DOMAIN (m \o b)
                                    /\ (m \o b)[Len(m) + j] = b[j]
    BY <1>1, <2>5, ConcatElements
  <2>8. \A i \in DOMAIN b : b[i].ist = s
    <3> SUFFICES ASSUME NEW i \in DOMAIN b PROVE b[i].ist = s
      OBVIOUS
    <3>1. Len(m) + i \in DOMAIN q /\ q[Len(m) + i] = b[i]
      BY <2>5, <2>7
    <3>2. q[Len(m) + i].ist = s
      BY <2>1, <3>1
    <3> QED BY <3>1, <3>2
  <2>9. q = <<>> => b = <<>>
    <3> SUFFICES ASSUME q = <<>> PROVE b = <<>>
      OBVIOUS
    <3>1. Len(q) = 0
      OBVIOUS
    <3>2. l + 1 > Len(q)
      BY <1>1, <3>1
    <3>3. SubSeq(q, l + 1, Len(q)) = <<>>
      BY <1>1, <2>1, <3>2, SubSeqEmpty
    <3> QED BY <3>3 DEF b
  <2>10. b = rest[s]
    BY DEF b, q
  <2> QED BY <2>4, <2>5, <2>6, <2>8, <2>9, <2>10 DEF q
<1>6. m = <<>> \/ \E s \in Inputs[g] : Inputs[g] = {s}
  <2>1. CASE g \in Eager
    BY <2>1, EagerInput
  <2>2. CASE g \notin Eager
    BY <2>2 DEF Passed
  <2> QED BY <2>1, <2>2
<1> HIDE DEF m, rest, k
<1>7. \A s \in Inputs[g] :
             /\ OfIst(s, m) \o rest[s] = gr.held[s]
             /\ \A i \in DOMAIN m : m[i].ist \in Inputs[g]
             /\ \A i \in DOMAIN rest[s] : rest[s][i].ist = s
             /\ gr.held[s] = <<>> => rest[s] = <<>>
  BY <1>5, <1>6
<1>8. Queued(g, k)
  BY <1>3, <1>7 DEF Queued
<1>9. \A i \in DOMAIN m : m[i].ist \in Inputs[g]
  BY <1>1, <1>7
<1> QED BY <1>3, <1>4, <1>6, <1>7, <1>8, <1>9 DEF m, k

(* A step that moves frames of one input, or none, does so in order.       *)
LEMMA MovesIs ==
  ASSUME content \in Contents, NEW g \in Graphs, NEW m \in Seq(Frames), NEW A, NEW B,
         \A s \in Inputs[g] : B[s] \in Seq(Frames) /\ OfIst(s, m) \o B[s] = A[s],
         \A i \in DOMAIN m : m[i].ist \in Inputs[g],
         m = <<>> \/ \E s : Inputs[g] = {s}
  PROVE  Moves(Inputs[g], m, A, B)
<1> SUFFICES ASSUME \A s \in Inputs[g] : Rising(A[s])
             PROVE  Rising(m) /\ \A s \in Inputs[g] : NoLater(m, B[s])
  BY DEF Moves
<1>1. CASE m = <<>>
  BY <1>1, NothingRises
<1>2. CASE \E s : Inputs[g] = {s}
  <2>1. PICK s : Inputs[g] = {s}
    BY <1>2
  <2> DEFINE a == A[s]
             b == B[s]
  <2>2. b \in Seq(Frames) /\ OfIst(s, m) \o b = a /\ Rising(a)
    BY <2>1
  <2>3. OfIst(s, m) = m
    <3>1. \A i \in DOMAIN m : m[i].ist = s
      BY <2>1
    <3> QED BY <3>1, OfIstPure
  <2>4. NoLater(m, b) => \A t \in Inputs[g] : NoLater(m, B[t])
    BY <2>1
  <2> HIDE DEF a, b
  <2>5. Rising(m \o b)
    BY <2>2, <2>3
  <2>6. Rising(m) /\ NoLater(m, b)
    BY <2>2, <2>5, RisingParts
  <2> QED BY <2>4, <2>6
<1> QED BY <1>1, <1>2

(* gr holds and queues what was ahead of graph g, but for what is to come. *)
Forwards(g, gr) ==
  \A s \in Inputs[g] :
    gr.held[s] \o (gr.frame_queue[s] \o (dec'[s] \o Unread(s)')) = Ahead(g, s)

(* What a graph that is gr after it was given frames does.                 *)
LEMMA PassHands ==
  ASSUME TypeOK, TypeOK', content' = content, NEW g \in Graphs,
         NEW gr \in GraphType(g), Queued(g, gr), graph'[g] = Kept(g, gr),
         graph[g].up => gr.up, g \notin lossy' => Forwards(g, gr)
  PROVE  Hands(g, Passed(g, gr))
<1> DEFINE m == Passed(g, gr)
           I == Inputs[g]
           A == AllAhead(g)
           B == AllAhead(g)'
<1>1. /\ content \in Contents /\ I \subseteq Ists /\ m \in Seq(Frames)
  BY Sets, KeptIs DEF TypeOK
<1>2. /\ Queued(g, graph'[g]) /\ graph'[g].up = gr.up
      /\ graph'[g].frame_queue = gr.frame_queue
      /\ ~gr.up => m = <<>>
      /\ \A s \in I : OfIst(s, m) \o graph'[g].held[s] = gr.held[s]
      /\ \A i \in DOMAIN m : m[i].ist \in I
      /\ m = <<>> \/ \E s : I = {s}
  <2> DEFINE k == Kept(g, gr)
  <2>1. /\ Queued(g, k) /\ k.up = gr.up /\ k.frame_queue = gr.frame_queue
        /\ ~gr.up => m = <<>>
        /\ \A s \in Inputs[g] : OfIst(s, m) \o k.held[s] = gr.held[s]
        /\ \A i \in DOMAIN m : m[i].ist \in Inputs[g]
        /\ m = <<>> \/ \E s : Inputs[g] = {s}
    BY <1>1, PassedIs
  <2> QED BY <2>1
<1>3. ASSUME g \notin lossy', NEW s \in I
      PROVE  B[s] \in Seq(Frames) /\ OfIst(s, m) \o B[s] = A[s]
  <2> DEFINE h == graph'[g].held[s]
             x == graph'[g].frame_queue[s] \o (dec'[s] \o Unread(s)')
             om == OfIst(s, m)
  <2>1. /\ B[s] = h \o x /\ h \in Seq(Frames)
        /\ B[s] \in Seq(Frames)
    BY AheadNext DEF AllAhead, Ahead
  <2>2. x \in Seq(Frames)
    <3>1. dec'[s] \o Unread(s)' \in Seq(Frames)
      BY AheadNext, ConcatProperties
    <3>2. graph'[g].frame_queue[s] \in Seq(Frames)
      BY AheadNext
    <3> QED BY <3>1, <3>2, ConcatProperties
  <2>3. om \in Seq(Frames)
    BY <1>1, OfIstType
  <2>4. gr.held[s] = om \o h /\ A[s] = gr.held[s] \o x
    BY <1>2, <1>3 DEF AllAhead, Forwards
  <2> HIDE DEF h, x, om, A, B
  <2>5. \A p, q, r \in Seq(Frames) : (p \o q) \o r = p \o (q \o r)
    BY Regrouped, Zenon
  <2>6. h \in Seq(Frames)
    BY <2>1
  <2>7. (om \o h) \o x = om \o (h \o x)
    BY <2>2, <2>3, <2>5, <2>6, Zenon
  <2> QED BY <2>1, <2>4, <2>7 DEF om
<1> HIDE DEF A, B, m
<1>4. ASSUME g \notin lossy' PROVE Moves(I, m, A, B)
  <2>1. \A s \in I : B[s] \in Seq(Frames) /\ OfIst(s, m) \o B[s] = A[s]
    BY <1>3, <1>4
  <2>2. (\A i \in DOMAIN m : m[i].ist \in I) /\ (m = <<>> \/ \E s : I = {s})
    BY <1>2
  <2> QED BY <1>1, <2>1, <2>2, MovesIs
<1>5. graph'[g].up \/ (~graph[g].up /\ m = <<>>)
  BY <1>2
<1> QED BY <1>1, <1>2, <1>4, <1>5 DEF Hands, m, A, B

(* A graph that is left alone.                                             *)
LEMMA StillHands ==
  ASSUME TypeOK, TypeOK', content' = content, NEW g \in Graphs,
         Queued(g, graph[g]), graph'[g] = graph[g],
         \A s \in Inputs[g] : dec'[s] \o Unread(s)' = dec[s] \o Unread(s)
  PROVE  Hands(g, <<>>)
<1> DEFINE I == Inputs[g]
           A == AllAhead(g)
           B == AllAhead(g)'
<1>1. content \in Contents /\ <<>> \in Seq(Frames) /\ DOMAIN <<>> = {}
  BY DEF TypeOK
<1>2. ASSUME NEW s \in I
      PROVE  B[s] \in Seq(Frames) /\ OfIst(s, <<>>) \o B[s] = A[s]
  <2>1. B[s] = Ahead(g, s)' /\ A[s] = Ahead(g, s) /\ B[s] \in Seq(Frames)
    BY AheadNext DEF AllAhead
  <2>2. Ahead(g, s)' = Ahead(g, s)
    BY DEF Ahead
  <2>3. OfIst(s, <<>>) \o B[s] = B[s]
    BY <2>1, OfIstEmpty, ConcatEmptySeq
  <2> QED BY <2>1, <2>2, <2>3
<1> HIDE DEF A, B
<1>3. Moves(I, <<>>, A, B)
  BY <1>1, <1>2, MovesIs
<1> QED BY <1>1, <1>3 DEF Hands, A, B

-----------------------------------------------------------------------------
(* Each graph hands frames on to its outputs.                              *)
HandsOn ==
  \A g \in Graphs : \E m : Hands(g, m) /\ \A o \in OutsOf(g) : Served(o, m)

(* No output is given anything.                                            *)
AllSame == \A o \in Encoded : SameCoded(o)

(* A flag of a stream, or of all, is no part of what it was given.         *)
LEMMA FlagsOnly ==
  ASSUME TypeOK, NEW x, NEW b,
         \/ ost' = ost
         \/ ost' = [ost EXCEPT ![x].unavailable = b]
         \/ ost' = [ost EXCEPT ![x].inputs_done = b]
         \/ ost' = [ost EXCEPT ![x].initialized = b]
  PROVE  AllSame
<1> SUFFICES ASSUME NEW o \in Encoded PROVE SameCoded(o)
  BY DEF AllSame
<1>1. o \in Outs /\ ost \in [Outs -> OstType] /\ ost[o] \in OstType
  BY Sets DEF TypeOK
<1>2. \/ ost'[o] = ost[o]
      \/ ost'[o] = [ost[o] EXCEPT !.unavailable = b]
      \/ ost'[o] = [ost[o] EXCEPT !.inputs_done = b]
      \/ ost'[o] = [ost[o] EXCEPT !.initialized = b]
  BY <1>1
<1>3. \A r \in OstType :
        /\ [r EXCEPT !.unavailable = b].out = r.out
        /\ [r EXCEPT !.unavailable = b].enc = r.enc
        /\ [r EXCEPT !.unavailable = b].finished = r.finished
        /\ [r EXCEPT !.inputs_done = b].out = r.out
        /\ [r EXCEPT !.inputs_done = b].enc = r.enc
        /\ [r EXCEPT !.inputs_done = b].finished = r.finished
        /\ [r EXCEPT !.initialized = b].out = r.out
        /\ [r EXCEPT !.initialized = b].enc = r.enc
        /\ [r EXCEPT !.initialized = b].finished = r.finished
  BY DEF OstType
<1> QED BY <1>1, <1>2, <1>3 DEF SameCoded

(* A flag of all streams.                                                  *)
LEMMA FlagsOfAll ==
  ASSUME TypeOK, NEW b, \A o \in Encoded : ost'[o] = [ost[o] EXCEPT !.unavailable = b[o]]
  PROVE  AllSame
<1> SUFFICES ASSUME NEW o \in Encoded PROVE SameCoded(o)
  BY DEF AllSame
<1>1. o \in Outs /\ ost[o] \in OstType
  BY Sets DEF TypeOK
<1>2. ost'[o] = [ost[o] EXCEPT !.unavailable = b[o]]
  OBVIOUS
<1> QED BY <1>1, <1>2 DEF SameCoded, OstType

(* Nothing is taken from the graphs, and nothing given to them.            *)
Quietly ==
  \A g \in Graphs : \A s \in Inputs[g] :
    dec'[s] \o Unread(s)' = dec[s] \o Unread(s)

(* Graphs that are left alone hand on nothing.                             *)
LEMMA StillStep ==
  ASSUME IInv, GraphInv, TypeOK', content' = content, graph' = graph, Quietly,
         \A o \in Encoded : Served(o, <<>>)
  PROVE  HandsOn
<1> SUFFICES ASSUME NEW g \in Graphs
             PROVE  Hands(g, <<>>) /\ \A o \in OutsOf(g) : Served(o, <<>>)
  BY DEF HandsOn
<1>1. TypeOK /\ Queued(g, graph[g]) /\ graph'[g] = graph[g]
  BY DEF IInv, GraphInv
<1>2. \A s \in Inputs[g] : dec'[s] \o Unread(s)' = dec[s] \o Unread(s)
  BY DEF Quietly
<1>3. Hands(g, <<>>)
  BY <1>1, <1>2, StillHands
<1> QED BY <1>3 DEF OutsOf

(* Outputs that are left alone are served with nothing.                    *)
LEMMA SameServed ==
  ASSUME TypeOK, AllSame, sink' = sink
  PROVE  \A o \in Encoded : Served(o, <<>>)
<1> SUFFICES ASSUME NEW o \in Encoded PROVE Served(o, <<>>)
  OBVIOUS
<1>1. sink[o] \in Seq(Frames)
  BY DEF TypeOK
<1>2. sink[o] \o <<>> = sink[o]
  BY <1>1, ConcatEmptySeq
<1> QED BY <1>2 DEF AllSame, Served

(* Nothing is read or decoded.                                             *)
LEMMA SameReads ==
  ASSUME content' = content, read' = read, dec' = dec
  PROVE  Quietly
BY DEF Quietly, Unread

(* Steps that only set flags and places.                                   *)
LEMMA IdleSteps ==
  ASSUME IInv, GraphInv, TypeOK',
         \/ LeaveLoop \/ NoneAvailable \/ StepCopy \/ StepFails \/ RequestWaits
         \/ InputAgain \/ InputEof \/ Decoded \/ EofReached \/ ExitProgram
         \/ (\E f \in InFiles : Arrive(f)) \/ (\E of \in OutFiles : MuxerEnds(of))
         \/ ReceiveSigterm
  PROVE  HandsOn
<1>1. /\ content' = content /\ read' = read /\ dec' = dec /\ graph' = graph
      /\ sink' = sink
  <2>1. CASE \/ LeaveLoop \/ NoneAvailable \/ StepCopy \/ StepFails \/ RequestWaits
             \/ InputAgain \/ InputEof \/ Decoded \/ EofReached \/ ExitProgram
             \/ ReceiveSigterm
    BY <2>1 DEF LeaveLoop, NoneAvailable, StepCopy, StepFails, RequestWaits,
       InputAgain, InputEof, Decoded, EofReached, ExitProgram, ReceiveSigterm, inVars
  <2>2. CASE \E f \in InFiles : Arrive(f)
    BY <2>2 DEF Arrive
  <2>3. CASE \E of \in OutFiles : MuxerEnds(of)
    BY <2>3 DEF MuxerEnds, inVars
  <2> QED BY <2>1, <2>2, <2>3
<1>2. TypeOK
  BY DEF IInv
<1>3. AllSame
  <2>1. CASE ost' = ost
    BY <1>2, <2>1, FlagsOnly
  <2>2. CASE NoneAvailable
    <3>1. ost' = [o \in Outs |-> [ost[o] EXCEPT !.unavailable = FALSE]]
      BY <2>2 DEF NoneAvailable, Available
    <3> DEFINE b == [o \in Outs |-> FALSE]
    <3>2. \A o \in Encoded : ost'[o] = [ost[o] EXCEPT !.unavailable = b[o]]
      BY <3>1, Sets
    <3> HIDE DEF b
    <3> QED BY <1>2, <3>2, FlagsOfAll
  <2>3. CASE RequestWaits /\ ost' # ost
    <3> DEFINE b == [o \in Outs |-> ost[o].unavailable \/ o \in OutsOf(GraphOf[chosen])]
    <3>1. ost' = [o \in Outs |-> [ost[o] EXCEPT !.unavailable =
                    ost[o].unavailable \/ o \in OutsOf(GraphOf[chosen])]]
      BY <2>3 DEF RequestWaits
    <3>2. \A o \in Encoded : ost'[o] = [ost[o] EXCEPT !.unavailable = b[o]]
      BY <3>1, Sets
    <3> HIDE DEF b
    <3> QED BY <1>2, <3>2, FlagsOfAll
  <2>4. CASE InputAgain \/ Decoded \/ EofReached
    <3>1. PICK b : ost' = [ost EXCEPT ![chosen].unavailable = b]
      BY <2>4 DEF InputAgain, Decoded, EofReached
    <3> QED BY <1>2, <3>1, FlagsOnly
  <2>5. CASE LeaveLoop \/ StepCopy \/ StepFails \/ InputEof \/ ExitProgram
             \/ ReceiveSigterm
    <3>1. ost' = ost
      BY <2>5 DEF LeaveLoop, StepCopy, StepFails, InputEof, ExitProgram, ReceiveSigterm
    <3> QED BY <2>1, <3>1
  <2>6. CASE \E f \in InFiles : Arrive(f)
    <3>1. ost' = ost
      BY <2>6 DEF Arrive
    <3> QED BY <2>1, <3>1
  <2>7. CASE \E of \in OutFiles : MuxerEnds(of)
    <3>1. ost' = ost
      BY <2>7 DEF MuxerEnds
    <3> QED BY <2>1, <3>1
  <2> QED BY <2>1, <2>2, <2>3, <2>4, <2>5, <2>6, <2>7
<1>4. Quietly
  BY <1>1, SameReads
<1>5. \A o \in Encoded : Served(o, <<>>)
  BY <1>1, <1>2, <1>3, SameServed
<1> QED BY <1>1, <1>4, <1>5, StillStep

(* What is read goes to its decoder, if there is one.                      *)
LEMMA ReadOn ==
  ASSUME content \in Contents, NEW s \in Ists, NEW n \in Nat,
         NEW d \in Seq(Frames), NEW e, n < Len(content[FileOf[s]]),
         e = IF content[FileOf[s]][n + 1].ist = s
             THEN Append(d, content[FileOf[s]][n + 1]) ELSE d,
         content[FileOf[s]][n + 1].ist = s => content[FileOf[s]][n + 1] \in Frames
  PROVE  LET c == content[FileOf[s]] IN
         e \o OfIst(s, SubSeq(c, n + 2, Len(c))) = d \o OfIst(s, SubSeq(c, n + 1, Len(c)))
<1> DEFINE c == content[FileOf[s]]
           x == c[n + 1]
           u == OfIst(s, SubSeq(c, n + 1, Len(c)))
           v == OfIst(s, SubSeq(c, n + 2, Len(c)))
<1>1. Len(c) \in Nat
  BY Sets, ContentIs
<1>2. u = IF x.ist = s THEN <<x>> \o v ELSE v
  <2>1. n <= Len(c) /\ (n + 1) + 1 = n + 2
    BY <1>1
  <2>2. LET rest(k) == OfIst(s, SubSeq(c, k + 1, Len(c))) IN
        rest(n) = IF x.ist = s THEN <<x>> \o rest(n + 1) ELSE rest(n + 1)
    BY <2>1, UnreadIs
  <2> QED BY <2>1, <2>2
<1>3. v \in Seq(Frames)
  <2>1. n + 1 \in Nat /\ n + 1 <= Len(c) /\ (n + 1) + 1 = n + 2
    BY <1>1
  <2>2. OfIst(s, SubSeq(c, (n + 1) + 1, Len(c))) \in Seq(Frames)
    BY <2>1, UnreadIs
  <2> QED BY <2>1, <2>2
<1>4. /\ x.ist = s => x \in Frames
      /\ e = IF x.ist = s THEN Append(d, x) ELSE d
  OBVIOUS
<1> HIDE DEF x, u, v
<1>5. CASE x.ist = s
  <2>1. Append(d, x) = d \o <<x>> /\ <<x>> \in Seq(Frames)
    BY <1>4, <1>5, AppendIsConcat
  <2>2. \A p, q, r \in Seq(Frames) : (p \o q) \o r = p \o (q \o r)
    BY Regrouped, Zenon
  <2>3. (d \o <<x>>) \o v = d \o (<<x>> \o v)
    BY <1>3, <2>1, <2>2, Zenon
  <2> QED BY <1>2, <1>4, <1>5, <2>1, <2>3 DEF u, v
<1>6. CASE x.ist # s
  BY <1>2, <1>4, <1>6 DEF u, v
<1> QED BY <1>5, <1>6

(* A packet that is read goes into its decoder, or is not decoded.         *)
LEMMA InputSteps ==
  ASSUME IInv, GraphInv, TypeOK', InputPacket \/ InputLooped
  PROVE  HandsOn
<1> DEFINE p == Message(cur)
<1>1. /\ content' = content /\ graph' = graph /\ sink' = sink
      /\ read[cur] < Len(content[cur]) /\ read' = [read EXCEPT ![cur] = @ + 1]
      /\ pc = "input"
  BY DEF InputPacket, InputLooped
<1>2. TypeOK /\ cur \in InFiles /\ content \in Contents /\ read \in [InFiles -> Nat]
      /\ dec \in [Ists -> Seq(Frames)]
  BY <1>1 DEF IInv, PlaceInv, TypeOK
<1>3. \/ p = Mark /\ dec' = dec /\ ost' = ost
      \/ /\ p \in Frames /\ p.ist \in Ists /\ FileOf[p.ist] = cur
         /\ dec' = IF p.ist \in Needed THEN [dec EXCEPT ![p.ist] = Append(@, p)] ELSE dec
         /\ ost' = Available([o \in Outs |->
              IF o \in Copies /\ Source[o] = p.ist
              THEN do_streamcopy(o, ost[o], p) ELSE ost[o]])
  <2>1. CASE InputPacket
    <3>1. p \in Frames /\ FileOf[p.ist] = cur
      BY <2>1, PacketFlow
    <3>2. p.ist \in Ists
      BY <1>2, <3>1, FramesAre
    <3> QED BY <2>1, <3>1, <3>2 DEF InputPacket
  <2>2. CASE InputLooped
    BY <2>2 DEF InputLooped
  <2> QED BY <2>1, <2>2
<1> DEFINE x == p
<1> HIDE DEF x
<1>4. ASSUME NEW g \in Graphs, NEW s \in Inputs[g]
      PROVE  dec'[s] \o Unread(s)' = dec[s] \o Unread(s)
  <2> DEFINE f == FileOf[s]
             n == read[f]
  <2>1. /\ s \in Ists /\ f \in InFiles /\ n \in Nat /\ dec[s] \in Seq(Frames)
        /\ s \in Needed
    BY <1>2, Sets DEF Needed
  <2>2. Mark.ist # s
    <3>1. PICK k \in Nat : k = s
      BY <2>1, Sets
    <3>2. k # -1
      BY <3>1
    <3> QED BY <3>1, <3>2 DEF Mark
  <2>3. dec'[s] = IF p.ist = s THEN Append(dec[s], p) ELSE dec[s]
    BY <1>2, <1>3, <2>1, <2>2
  <2>4. p.ist = s => p \in Frames /\ f = cur
    BY <1>3, <2>2
  <2>5. CASE f # cur
    <3>1. read'[f] = n
      BY <1>1, <1>2, <2>1, <2>5
    <3>2. dec'[s] = dec[s]
      BY <2>3, <2>4, <2>5
    <3> QED BY <1>1, <3>1, <3>2 DEF Unread
  <2>6. CASE f = cur
    <3>1. read'[f] = n + 1 /\ n < Len(content[f])
      BY <1>1, <1>2, <2>1, <2>6
    <3>2. p = content[f][n + 1]
      BY <2>6 DEF Message
    <3>3. dec'[s] = IF content[f][n + 1].ist = s
                    THEN Append(dec[s], content[f][n + 1]) ELSE dec[s]
      BY <2>3, <3>2
    <3>4. content[f][n + 1].ist = s => content[f][n + 1] \in Frames
      BY <2>4, <3>2
    <3>5. (n + 1) + 1 = n + 2
      BY <2>1
    <3> DEFINE d == dec[s]
               e == dec'[s]
    <3> HIDE DEF d, e, n
    <3>6. e \o OfIst(s, SubSeq(content[f], n + 2, Len(content[f])))
            = d \o OfIst(s, SubSeq(content[f], n + 1, Len(content[f])))
      BY <1>2, <2>1, <3>1, <3>3, <3>4, ReadOn DEF d, e
    <3>7. Unread(s)' = OfIst(s, SubSeq(content[f], n + 2, Len(content[f])))
      BY <1>1, <3>1, <3>5 DEF Unread
    <3>8. Unread(s) = OfIst(s, SubSeq(content[f], n + 1, Len(content[f])))
      BY DEF Unread, n
    <3> QED BY <3>6, <3>7, <3>8 DEF d, e
  <2> QED BY <2>5, <2>6
<1>5. AllSame
  <2>1. CASE ost' = ost
    BY <1>2, <2>1, FlagsOnly
  <2>2. CASE ost' # ost
    <3> DEFINE b == [o \in Outs |-> FALSE]
    <3>1. \A o \in Encoded : ost'[o] = [ost[o] EXCEPT !.unavailable = b[o]]
      <4> SUFFICES ASSUME NEW o \in Encoded
                   PROVE  ost'[o] = [ost[o] EXCEPT !.unavailable = FALSE]
        BY Sets
      <4>1. o \in Outs /\ o \notin Copies
        BY Sets
      <4> QED BY <1>3, <2>2, <4>1 DEF Available
    <3> HIDE DEF b
    <3> QED BY <1>2, <3>1, FlagsOfAll
  <2> QED BY <2>1, <2>2
<1>6. Quietly
  BY <1>4 DEF Quietly
<1>7. \A o \in Encoded : Served(o, <<>>)
  BY <1>1, <1>2, <1>5, SameServed
<1> QED BY <1>1, <1>6, <1>7, StillStep

(* reap_filters, after which nothing is in the sinks; nothing is ahead of  *)
(* a graph that has ended.                                                 *)
LEMMA NothingAhead ==
  ASSUME IInv, GraphInv, pc = "request", Drained(GraphOf[chosen])
  PROVE  \A s \in Inputs[GraphOf[chosen]] : Ahead(GraphOf[chosen], s) = <<>>
<1> DEFINE g == GraphOf[chosen]
<1>1. TypeOK /\ g \in Graphs /\ graph[g].up
  BY Sets DEF IInv, PlaceInv
<1>2. Queued(g, graph[g]) /\ EofInv(g)
  BY <1>1 DEF GraphInv
<1> SUFFICES ASSUME NEW s \in Inputs[g] PROVE Ahead(g, s) = <<>>
  OBVIOUS
<1>3. graph[g].held[s] = <<>> /\ s \in graph[g].eof
  BY DEF Drained
<1>4. graph[g].frame_queue[s] = <<>>
  BY <1>1, <1>2 DEF Queued
<1>5. read[FileOf[s]] = Len(content[FileOf[s]]) /\ dec[s] = <<>>
  BY <1>2, <1>3 DEF EofInv, Leaving
<1>6. Unread(s) = <<>>
  <2>1. s \in Ists /\ FileOf[s] \in InFiles /\ content \in Contents
    BY <1>1, Sets DEF TypeOK
  <2>2. read[FileOf[s]] \in Nat
    BY <1>1, <2>1 DEF TypeOK
  <2> DEFINE n == read[FileOf[s]]
  <2>3. n \in Nat /\ n <= Len(content[FileOf[s]]) /\ n = Len(content[FileOf[s]])
    BY <1>5, <2>2
  <2> HIDE DEF n
  <2>4. OfIst(s, SubSeq(content[FileOf[s]], n + 1, Len(content[FileOf[s]]))) = <<>>
    BY <2>1, <2>3, UnreadIs
  <2> QED BY <2>4 DEF Unread, n
<1>7. <<>> \o (<<>> \o (<<>> \o <<>>)) = <<>>
  BY ConcatEmptySeq, EmptySeq
<1> QED BY <1>3, <1>4, <1>5, <1>6, <1>7 DEF Ahead

(* The sinks are reaped, at the end of a step or of a graph.               *)
LEMMA ReapSteps ==
  ASSUME IInv, GraphInv, TypeOK', Reap \/ RequestEnds
  PROVE  HandsOn
<1>1. /\ content' = content /\ graph' = graph /\ sink' = EmptySinks
      /\ read' = read /\ dec' = dec
  BY DEF Reap, RequestEnds, inVars
<1>2. TypeOK /\ OstInv
  BY DEF IInv
<1>3. ASSUME NEW o \in Encoded PROVE Served(o, <<>>)
  <2>1. sink'[o] = <<>> /\ o \in Outs
    BY <1>1, Sets DEF EmptySinks
  <2>2. CASE Reap
    <3>1. ost'[o] = Reaped(o, FALSE)
      BY <2>1, <2>2 DEF Reap, reap_filters
    <3>2. Encodes(o)
      BY <3>1 DEF Encodes
    <3> QED BY <2>1, <3>2 DEF Served
  <2>3. CASE RequestEnds
    <3> DEFINE r == Reaped(o, TRUE)
    <3>1. /\ pc = "request" /\ Drained(GraphOf[chosen])
          /\ ost'[o] = IF o \in OutsOf(GraphOf[chosen])
                       THEN [r EXCEPT !.finished = @ \cup {"enc"}] ELSE r
      BY <2>1, <2>3 DEF RequestEnds, reap_filters
    <3>2. r \in OstType
      <4>1. ~HasEnd(ost[o].out)
        BY <3>1 DEF IInv, EndInv
      <4>2. Quiet(o, r)
        BY <1>2, <2>1, <4>1, ReapedIsQuiet
      <4> HIDE DEF r
      <4> QED BY <4>2 DEF Quiet, Grows, Good
    <3> HIDE DEF r
    <3>3. CASE o \in OutsOf(GraphOf[chosen])
      <4>1. /\ ost'[o].out = r.out /\ ost'[o].enc = r.enc
            /\ ost'[o].finished = r.finished \cup {"enc"}
        BY <3>1, <3>2, <3>3 DEF OstType
      <4>2. \A s \in Inputs[GraphOf[o]] : Ahead(GraphOf[o], s) = <<>>
        BY <3>1, <3>3, NothingAhead DEF OutsOf
      <4>3. Encodes(o)
        BY <4>1, <4>2 DEF Encodes, r
      <4> QED BY <2>1, <4>3 DEF Served
    <3>4. CASE o \notin OutsOf(GraphOf[chosen])
      <4>1. Encodes(o)
        BY <3>1, <3>4 DEF Encodes, r
      <4> QED BY <2>1, <4>1 DEF Served
    <3> QED BY <3>3, <3>4
  <2> QED BY <2>2, <2>3
<1>4. Quietly
  BY <1>1, SameReads
<1> QED BY <1>1, <1>3, <1>4, StillStep

(* The first of a sequence and the rest.                                   *)
LEMMA FirstAndRest ==
  ASSUME NEW S, NEW q \in Seq(S), q # <<>>
  PROVE  /\ q = <<Head(q)>> \o Tail(q) /\ Head(q) \in S /\ Tail(q) \in Seq(S)
         /\ Head(q) = q[1] /\ 1 \in DOMAIN q
         /\ \A P : (\A i \in DOMAIN q : q[i].ist = P) =>
              Head(q).ist = P /\ \A i \in DOMAIN Tail(q) : Tail(q)[i].ist = P
<1>1. /\ Head(q) \in S /\ Tail(q) \in Seq(S) /\ Len(Tail(q)) = Len(q) - 1
      /\ \A i \in 1 .. Len(Tail(q)) : Tail(q)[i] = q[i + 1]
  BY HeadTailProperties
<1>2. Len(q) \in Nat /\ DOMAIN q = 1 .. Len(q) /\ DOMAIN Tail(q) = 1 .. Len(Tail(q))
      /\ Len(q) # 0 /\ Head(q) = q[1]
  BY <1>1, LenProperties, EmptySeq
<1>3. \A i \in DOMAIN Tail(q) : i + 1 \in DOMAIN q
  BY <1>1, <1>2
<1>4. q = <<Head(q)>> \o Tail(q)
  BY ConcatProperties, HeadTailProperties
<1>5. 1 \in DOMAIN q
  BY <1>2
<1> QED BY <1>1, <1>2, <1>3, <1>4, <1>5

(* The first frame that a graph holds is the first ahead of it.            *)
LEMMA FirstAhead ==
  ASSUME TypeOK, NEW g \in Graphs, NEW s \in Inputs[g], graph[g].held[s] # <<>>
  PROVE  /\ graph[g].held[s][1] \in Frames
         /\ 1 \in DOMAIN Ahead(g, s) /\ Ahead(g, s)[1] = graph[g].held[s][1]
         /\ Ahead(g, s) \in Seq(Frames)
<1> DEFINE h == graph[g].held[s]
           x == graph[g].frame_queue[s] \o (dec[s] \o Unread(s))
<1>1. /\ h \in Seq(Frames) /\ graph[g].frame_queue[s] \in Seq(Frames)
      /\ dec[s] \in Seq(Frames) /\ Unread(s) \in Seq(Frames)
      /\ Ahead(g, s) \in Seq(Frames)
  BY Sets, AheadTypes DEF TypeOK, GraphType
<1>2. x \in Seq(Frames)
  <2>1. dec[s] \o Unread(s) \in Seq(Frames)
    BY <1>1, ConcatProperties
  <2> QED BY <1>1, <2>1, ConcatProperties
<1>3. Ahead(g, s) = h \o x /\ h # <<>>
  BY DEF Ahead
<1> HIDE DEF h, x
<1>4. 1 \in 1 .. Len(h)
  BY <1>1, <1>3, EmptySeq, LenProperties
<1>5. h[1] \in Frames
  BY <1>1, <1>4, ElementOfSeq
<1>6. \A i \in 1 .. Len(h) : i \in DOMAIN (h \o x) /\ (h \o x)[i] = h[i]
  BY <1>1, <1>2, ConcatElements
<1>7. 1 \in DOMAIN (h \o x) /\ (h \o x)[1] = h[1]
  BY <1>4, <1>6
<1> QED BY <1>1, <1>3, <1>5, <1>7 DEF h

(* A graph gives the oldest of the first frames of its inputs, and only    *)
(* when it has one of each that has more to come.                          *)
LEMMA GivesOldest ==
  ASSUME IInv, GraphInv, NEW g \in Graphs, graph[g].up, ~Leaving(pc),
         CanGive(g, graph[g])
  PROVE  LET h == Head(graph[g].held[Oldest(g, graph[g])]) IN
         \A s \in Inputs[g] : Rising(Ahead(g, s)) => NoLater(<<h>>, Ahead(g, s))
<1> DEFINE gr == graph[g]
           t == Oldest(g, gr)
           h == Head(gr.held[t])
<1>1. /\ TypeOK /\ gr \in GraphType(g) /\ content \in Contents
      /\ Queued(g, gr) /\ EofInv(g)
  BY DEF IInv, TypeOK, GraphInv
<1>2. /\ t \in Inputs[g] /\ gr.held[t] # <<>>
      /\ \A s \in Inputs[g] : gr.held[s] # <<>> =>
           gr.held[t][1].pts < gr.held[s][1].pts \/ gr.held[t][1].pts = gr.held[s][1].pts
  BY <1>1, OldestIs
<1> HIDE DEF t
<1>3. gr.held[t] \in Seq(Frames) /\ h = gr.held[t][1] /\ h \in Frames
  BY <1>1, <1>2, FirstAndRest DEF GraphType
<1> HIDE DEF h
<1> SUFFICES ASSUME NEW s \in Inputs[g], Rising(Ahead(g, s))
             PROVE  NoLater(<<h>>, Ahead(g, s))
  BY DEF h, t
<1>4. CASE gr.held[s] # <<>>
  <2> DEFINE a == Ahead(g, s)
             x == gr.held[s][1]
  <2>1. x \in Frames /\ 1 \in DOMAIN a /\ a[1] = x /\ a \in Seq(Frames)
    BY <1>1, <1>4, FirstAhead
  <2>2. h.pts < x.pts \/ h.pts = x.pts
    BY <1>2, <1>3, <1>4
  <2> HIDE DEF a, x
  <2>3. h.pts \in Nat /\ x.pts \in Nat
    BY <1>1, <1>3, <2>1, FramesAre
  <2>4. ASSUME NEW j \in DOMAIN a PROVE h.pts <= a[j].pts
    <3>1. j \in 1 .. Len(a) /\ Len(a) \in Nat
      BY <2>1, LenProperties
    <3>2. a[j] \in Frames
      BY <2>1, <3>1, ElementOfSeq
    <3>3. a[j].pts \in Nat
      BY <1>1, <3>2, FramesAre
    <3>4. 1 <= j
      BY <3>1
    <3>5. x.pts <= a[j].pts
      BY <2>1, <3>4 DEF Rising, a
    <3> QED BY <2>2, <2>3, <3>3, <3>5
  <2>5. DOMAIN <<h>> = {1} /\ <<h>>[1] = h
    OBVIOUS
  <2> QED BY <2>4, <2>5 DEF NoLater, a
<1>5. CASE gr.held[s] = <<>>
  <2>1. s \in gr.eof
    <3>1. Latency[g] \in Nat /\ Len(<<>>) = 0
      BY GraphAssumption
    <3>2. ~(Len(gr.held[s]) > Latency[g])
      BY <1>5, <3>1
    <3> QED BY <3>2 DEF CanGive
  <2>2. gr.frame_queue[s] = <<>>
    BY <1>1 DEF Queued
  <2>3. read[FileOf[s]] = Len(content[FileOf[s]]) /\ dec[s] = <<>>
    BY <1>1, <2>1 DEF EofInv
  <2>4. Unread(s) = <<>>
    <3>1. s \in Ists /\ FileOf[s] \in InFiles
      BY Sets
    <3>2. read[FileOf[s]] \in Nat
      BY <1>1, <3>1 DEF TypeOK
    <3> DEFINE n == read[FileOf[s]]
    <3>3. n \in Nat /\ n <= Len(content[FileOf[s]]) /\ n = Len(content[FileOf[s]])
      BY <2>3, <3>2
    <3> HIDE DEF n
    <3>4. OfIst(s, SubSeq(content[FileOf[s]], n + 1, Len(content[FileOf[s]]))) = <<>>
      BY <1>1, <3>1, <3>3, UnreadIs
    <3> QED BY <3>4 DEF Unread, n
  <2>5. <<>> \o (<<>> \o (<<>> \o <<>>)) = <<>>
    BY ConcatEmptySeq, EmptySeq
  <2>6. Ahead(g, s) = <<>>
    BY <1>5, <2>2, <2>3, <2>4, <2>5 DEF Ahead
  <2> QED BY <2>6, NothingRises
<1> QED BY <1>4, <1>5

(* transcode_from_filter: a graph gives a frame.                           *)
LEMMA GivesOn ==
  ASSUME IInv, GraphInv, TypeOK', RequestGives
  PROVE  HandsOn
<1>0. PICK g \in Graphs : g = GraphOf[chosen] /\ graph[g].up
  <2>1. pc = "request" /\ PlaceInv
    BY DEF RequestGives, IInv
  <2> QED BY <2>1, Sets DEF PlaceInv
<1>a. PICK gr : gr = graph[g]
  OBVIOUS
<1>b. PICK t : t = Oldest(g, gr)
  OBVIOUS
<1>c. PICK h : h = Head(gr.held[t])
  OBVIOUS
<1>d. PICK q : q = [gr EXCEPT !.held[t] = Tail(@)]
  OBVIOUS
<1> DEFINE m == <<h>>
<1>1. /\ pc = "request" /\ CanGive(g, gr) /\ content' = content /\ dec' = dec
      /\ graph' = [graph EXCEPT ![g] = q] /\ read' = read /\ ost' = ost
      /\ sink' = [o \in Encoded |-> IF o \in OutsOf(g)
                                    THEN Append(sink[o], h) ELSE sink[o]]
  BY <1>0, <1>a, <1>b, <1>c, <1>d DEF RequestGives, inVars
<1>2. /\ TypeOK /\ g \in Graphs /\ gr.up /\ content \in Contents
      /\ sink \in [Encoded -> Seq(Frames)] /\ gr \in GraphType(g)
      /\ graph = [i \in Graphs |-> graph[i]]
  BY <1>0, <1>a DEF IInv, TypeOK
<1>3. Queued(g, gr)
  BY <1>2, <1>a DEF GraphInv
<1>4. t \in Inputs[g] /\ gr.held[t] # <<>>
  BY <1>1, <1>2, <1>b, OldestIs
<1>5. \A s \in Inputs[g] : Rising(Ahead(g, s)) => NoLater(m, Ahead(g, s))
  <2>1. ~Leaving(pc)
    BY <1>1 DEF Leaving
  <2> QED BY <1>0, <1>1, <1>2, <1>a, <1>b, <1>c, <2>1, GivesOldest
<1>6. \A i \in Graphs : graph'[i] = IF i = g THEN q ELSE graph[i]
  BY <1>1, <1>2
<1>7. AllSame
  BY <1>1, <1>2, FlagsOnly
<1>8. /\ gr.held[t] = m \o Tail(gr.held[t]) /\ h \in Frames
      /\ Tail(gr.held[t]) \in Seq(Frames)
      /\ h.ist = t /\ \A i \in DOMAIN Tail(gr.held[t]) : Tail(gr.held[t])[i].ist = t
  <2>1. gr.held[t] \in Seq(Frames) /\ \A i \in DOMAIN gr.held[t] : gr.held[t][i].ist = t
    BY <1>2, <1>3, <1>4 DEF GraphType, Queued
  <2> QED BY <1>4, <1>c, <2>1, FirstAndRest
<1>9. /\ q.up /\ q.frame_queue = gr.frame_queue /\ q.fmt = gr.fmt
      /\ \A s \in Inputs[g] : q.held[s] = IF s = t THEN Tail(gr.held[t]) ELSE gr.held[s]
  BY <1>2, <1>4, <1>d DEF GraphType
<1>10. Queued(g, q)
  <2>1. /\ \A s \in Inputs[g] : gr.frame_queue[s] = <<>> /\ gr.fmt[s] # NoFormat
        /\ \A s \in Inputs[g] :
             /\ \A i \in DOMAIN gr.held[s] : gr.held[s][i].ist = s
             /\ \A i \in DOMAIN gr.frame_queue[s] : gr.frame_queue[s][i].ist = s
    BY <1>2, <1>3 DEF Queued
  <2>2. \A i \in DOMAIN Tail(gr.held[t]) : Tail(gr.held[t])[i].ist = t
    BY <1>8
  <2>3. \A s \in Inputs[g] : \A i \in DOMAIN q.held[s] : q.held[s][i].ist = s
    <3> SUFFICES ASSUME NEW s \in Inputs[g]
                 PROVE  \A i \in DOMAIN q.held[s] : q.held[s][i].ist = s
      OBVIOUS
    <3>1. CASE s = t
      <4>1. q.held[s] = Tail(gr.held[t])
        BY <1>9, <3>1
      <4> QED BY <2>2, <3>1, <4>1
    <3>2. CASE s # t
      <4>1. q.held[s] = gr.held[s]
        BY <1>9, <3>2
      <4> QED BY <2>1, <4>1
    <3> QED BY <3>1, <3>2
  <2>4. \A s \in Inputs[g] :
          /\ q.frame_queue[s] = <<>> /\ q.fmt[s] # NoFormat
          /\ \A i \in DOMAIN q.frame_queue[s] : q.frame_queue[s][i].ist = s
    BY <1>9, <2>1
  <2> QED BY <1>9, <2>3, <2>4 DEF Queued
<1>11. m \in Seq(Frames)
  BY <1>8
<1>12. ASSUME NEW s \in Inputs[g]
       PROVE  /\ AllAhead(g)[s] = Ahead(g, s) /\ AllAhead(g)'[s] = Ahead(g, s)'
              /\ Ahead(g, s)' \in Seq(Frames) /\ Ahead(g, s) \in Seq(Frames)
              /\ s # t => Ahead(g, s)' = Ahead(g, s) /\ OfIst(s, m) = <<>>
              /\ s = t => m \o Ahead(g, s)' = Ahead(g, s) /\ OfIst(s, m) = m
  <2>1. AllAhead(g)[s] = Ahead(g, s) /\ AllAhead(g)'[s] = Ahead(g, s)'
    BY DEF AllAhead
  <2>2. Ahead(g, s)' \in Seq(Frames) /\ Ahead(g, s) \in Seq(Frames)
    BY <1>1, <1>2, AheadNext, AheadTypes
  <2> DEFINE y == gr.frame_queue[s] \o (dec[s] \o Unread(s))
             tl == q.held[s]
  <2>3. Unread(s)' = Unread(s)
    BY <1>1 DEF Unread
  <2>4. Ahead(g, s)' = q.held[s] \o y
    BY <1>1, <1>2, <1>6, <1>9, <2>3 DEF Ahead
  <2>5. Ahead(g, s) = gr.held[s] \o y
    BY <1>a DEF Ahead
  <2>6. DOMAIN m = {1} /\ m[1] = h
    OBVIOUS
  <2>7. y \in Seq(Frames)
    <3>1. /\ gr.frame_queue[s] \in Seq(Frames) /\ dec[s] \in Seq(Frames)
          /\ Unread(s) \in Seq(Frames)
      BY <1>2, <1>a, Sets, AheadTypes DEF TypeOK, GraphType
    <3>2. dec[s] \o Unread(s) \in Seq(Frames)
      BY <3>1, ConcatProperties
    <3> QED BY <3>1, <3>2, ConcatProperties
  <2> HIDE DEF y, m, tl
  <2>8. CASE s # t
    <3>1. q.held[s] = gr.held[s]
      BY <1>9, <2>8
    <3>2. OfIst(s, m) = <<>>
      BY <1>2, <1>8, <1>11, <2>6, <2>8, OfIstPure
    <3> QED BY <2>1, <2>2, <2>4, <2>5, <2>8, <3>1, <3>2
  <2>9. CASE s = t
    <3>1. tl \in Seq(Frames) /\ gr.held[s] = m \o tl
      BY <1>8, <1>9, <2>9 DEF tl
    <3>2. OfIst(s, m) = m
      BY <1>2, <1>8, <1>11, <2>6, <2>9, OfIstPure
    <3>3. \A a, b, c \in Seq(Frames) : (a \o b) \o c = a \o (b \o c)
      BY Regrouped, Zenon
    <3>4. (m \o tl) \o y = m \o (tl \o y)
      BY <1>11, <2>7, <3>1, <3>3, Zenon
    <3>5. m \o Ahead(g, s)' = Ahead(g, s)
      BY <2>4, <2>5, <3>1, <3>4 DEF tl
    <3> QED BY <2>1, <2>2, <2>9, <3>2, <3>5
  <2> QED BY <2>8, <2>9
<1>13. Moves(Inputs[g], m, AllAhead(g), AllAhead(g)')
  <2>1. \A s \in Inputs[g] : OfIst(s, m) \o AllAhead(g)'[s] = AllAhead(g)[s]
    <3> SUFFICES ASSUME NEW s \in Inputs[g]
                 PROVE  OfIst(s, m) \o Ahead(g, s)' = Ahead(g, s)
      BY <1>12
    <3>1. s # t => <<>> \o Ahead(g, s)' = Ahead(g, s)'
      BY <1>12, ConcatEmptySeq
    <3> QED BY <1>12, <3>1
  <2>2. \A i \in DOMAIN m : m[i].ist \in Inputs[g]
    BY <1>4, <1>8
  <2>3. ASSUME \A s \in Inputs[g] : Rising(AllAhead(g)[s])
        PROVE  Rising(m) /\ \A s \in Inputs[g] : NoLater(m, AllAhead(g)'[s])
    <3>1. Rising(m)
      <4>1. h.pts \in Nat
        BY <1>2, <1>8, FramesAre
      <4>2. DOMAIN m = {1} /\ m[1] = h /\ h.pts <= h.pts
        BY <4>1
      <4> QED BY <4>2 DEF Rising
    <3>2. ASSUME NEW s \in Inputs[g] PROVE NoLater(m, Ahead(g, s)')
      <4>1. Rising(Ahead(g, s))
        BY <1>12, <2>3
      <4>2. NoLater(m, Ahead(g, s))
        BY <1>5, <4>1
      <4>3. CASE s # t
        BY <1>12, <4>2, <4>3
      <4>4. CASE s = t
        <5> DEFINE a == Ahead(g, s)'
        <5>1. a \in Seq(Frames) /\ m \o a = Ahead(g, s)
          BY <1>12, <4>4
        <5> HIDE DEF a, m
        <5>2. Rising(m \o a)
          BY <4>1, <5>1
        <5>3. NoLater(m, a)
          BY <1>11, <5>1, <5>2, RisingParts
        <5> QED BY <5>3 DEF a
      <4> QED BY <4>3, <4>4
    <3> QED BY <1>12, <3>1, <3>2
  <2> QED BY <2>1, <2>2, <2>3 DEF Moves
<1>14. Hands(g, m)
  BY <1>2, <1>6, <1>9, <1>10, <1>11, <1>13 DEF Hands
<1>15. \A o \in OutsOf(g) : Served(o, m)
  <2> SUFFICES ASSUME NEW o \in OutsOf(g) PROVE Served(o, m)
    OBVIOUS
  <2>1. o \in Encoded /\ sink[o] \in Seq(Frames) /\ SameCoded(o)
    BY <1>2, <1>7 DEF OutsOf, AllSame
  <2>2. sink'[o] = Append(sink[o], h)
    BY <1>1, <2>1
  <2>3. Append(sink[o], h) = sink[o] \o m
    BY <1>8, <2>1, AppendIsConcat
  <2> QED BY <2>1, <2>2, <2>3 DEF Served
<1>16. ASSUME NEW i \in Graphs, i # g
       PROVE  Hands(i, <<>>) /\ \A o \in OutsOf(i) : Served(o, <<>>)
  <2>1. graph'[i] = graph[i] /\ Queued(i, graph[i])
    BY <1>6, <1>16 DEF GraphInv
  <2>2. \A s \in Inputs[i] : dec'[s] \o Unread(s)' = dec[s] \o Unread(s)
    BY <1>1 DEF Unread
  <2>3. Hands(i, <<>>)
    BY <1>1, <1>2, <2>1, <2>2, StillHands
  <2>4. ASSUME NEW o \in OutsOf(i) PROVE Served(o, <<>>)
    <3>1. o \in Encoded /\ sink[o] \in Seq(Frames) /\ SameCoded(o) /\ o \notin OutsOf(g)
      BY <1>2, <1>7, <1>16 DEF OutsOf, AllSame
    <3>2. sink'[o] = sink[o] /\ sink[o] \o <<>> = sink[o]
      BY <1>1, <3>1, ConcatEmptySeq
    <3> QED BY <3>1, <3>2 DEF Served
  <2> QED BY <2>3, <2>4
<1> HIDE DEF m
<1> QED BY <1>14, <1>15, <1>16 DEF HandsOn

(* What a graph holds when it was configured.                              *)
LEMMA ConfiguredHolds ==
  ASSUME NEW g \in Graphs, NEW w \in GraphType(g)
  PROVE  LET c == configure_filtergraph(g, w) IN
         /\ c \in GraphType(g) /\ c.up /\ c.fmt = w.fmt /\ c.eof = w.eof
         /\ \A s \in Inputs[g] :
              /\ c.frame_queue[s] = <<>>
              /\ c.held[s] = IF g \in drops THEN <<>> ELSE w.frame_queue[s]
<1> DEFINE none == [s \in Inputs[g] |-> <<>>]
           h == IF g \in drops THEN none ELSE w.frame_queue
           c == configure_filtergraph(g, w)
<1>1. c = [w EXCEPT !.up = TRUE, !.held = h, !.frame_queue = none]
  BY DEF configure_filtergraph
<1>2. \A s \in Inputs[g] : none[s] = <<>> /\ h[s] = IF g \in drops THEN <<>> ELSE w.frame_queue[s]
  OBVIOUS
<1>3. c \in GraphType(g)
  BY ConfiguredIs
<1> HIDE DEF h, none, c
<1>4. c.up /\ c.fmt = w.fmt /\ c.eof = w.eof /\ c.held = h /\ c.frame_queue = none
  BY <1>1 DEF GraphType
<1> QED BY <1>2, <1>3, <1>4 DEF c

(* One that is configured with what was queued knows all formats.          *)
LEMMA ConfiguredQueued ==
  ASSUME NEW g \in Graphs, NEW w \in GraphType(g),
         ifilter_has_all_input_formats(g, w),
         \A s \in Inputs[g] : \A i \in DOMAIN w.frame_queue[s] : w.frame_queue[s][i].ist = s
  PROVE  Queued(g, configure_filtergraph(g, w))
<1> DEFINE c == configure_filtergraph(g, w)
<1>1. /\ c.up /\ c.fmt = w.fmt
      /\ \A s \in Inputs[g] :
           /\ c.frame_queue[s] = <<>>
           /\ c.held[s] = IF g \in drops THEN <<>> ELSE w.frame_queue[s]
  BY ConfiguredHolds
<1> HIDE DEF c
<1>2. \A s \in Inputs[g] : c.fmt[s] # NoFormat
  BY <1>1 DEF ifilter_has_all_input_formats
<1>3. DOMAIN <<>> = {}
  OBVIOUS
<1>4. \A s \in Inputs[g] :
       /\ \A i \in DOMAIN c.held[s] : c.held[s][i].ist = s
       /\ \A i \in DOMAIN c.frame_queue[s] : c.frame_queue[s][i].ist = s
  BY <1>1, <1>3
<1>5. Queued(g, c)
  BY <1>1, <1>2, <1>4 DEF Queued
<1> QED BY <1>5 DEF c

(* StepGraph: a graph that can be configured is.                           *)
LEMMA StepOn ==
  ASSUME IInv, GraphInv, TypeOK', StepGraph
  PROVE  HandsOn
<1>0. PICK o0 \in Encoded : o0 = choose_output
  BY DEF StepGraph
<1>a. PICK g \in Graphs : g = GraphOf[o0]
  BY Sets
<1>b. PICK w : w = graph[g]
  OBVIOUS
<1>c. PICK gr : gr = IF ~w.up /\ ifilter_has_all_input_formats(g, w)
                     THEN configure_filtergraph(g, w) ELSE w
  OBVIOUS
<1>1. /\ content' = content /\ dec' = dec /\ read' = read /\ lossy' = lossy
      /\ graph' = [graph EXCEPT ![g] = Kept(g, gr)]
      /\ sink' = [p \in Encoded |-> IF GraphOf[p] = g
                                    THEN sink[p] \o Passed(g, gr) ELSE sink[p]]
      /\ \/ ost' = ost
         \/ ost' = [ost EXCEPT ![o0].initialized = @ \/ o0 \in Audio]
         \/ ost' = [ost EXCEPT ![o0].inputs_done = TRUE]
  BY <1>0, <1>a, <1>b, <1>c DEF StepGraph, inVars
<1>2. /\ TypeOK /\ w \in GraphType(g) /\ drops \subseteq lossy
      /\ sink \in [Encoded -> Seq(Frames)] /\ graph = [i \in Graphs |-> graph[i]]
  BY <1>b DEF IInv, TypeOK
<1>3. Queued(g, w)
  BY <1>b DEF GraphInv
<1>4. \A i \in Graphs : graph'[i] = IF i = g THEN Kept(g, gr) ELSE graph[i]
  BY <1>1, <1>2
<1>5. AllSame
  <2>1. CASE ost' = ost \/ ost' = [ost EXCEPT ![o0].inputs_done = TRUE]
    BY <1>2, <2>1, FlagsOnly
  <2>2. CASE ost' = [ost EXCEPT ![o0].initialized = @ \/ o0 \in Audio]
    <3>1. PICK b : ost' = [ost EXCEPT ![o0].initialized = b]
      BY <2>2
    <3> QED BY <1>2, <3>1, FlagsOnly
  <2> QED BY <1>1, <2>1, <2>2
<1>6. \A s : Unread(s)' = Unread(s)
  BY <1>1 DEF Unread
<1>7. gr \in GraphType(g) /\ Queued(g, gr) /\ (w.up => gr.up)
      /\ (g \notin lossy => Forwards(g, gr))
  <2>1. CASE gr = w
    <3>1. Forwards(g, gr)
      BY <1>1, <1>6, <1>b, <2>1 DEF Forwards, Ahead
    <3> QED BY <1>2, <1>3, <2>1, <3>1
  <2>2. CASE /\ gr = configure_filtergraph(g, w) /\ ~w.up
             /\ ifilter_has_all_input_formats(g, w)
    <3>1. gr \in GraphType(g) /\ gr.up
      BY <1>2, <2>2, ConfiguredHolds
    <3>2. \A s \in Inputs[g] :
            \A i \in DOMAIN w.frame_queue[s] : w.frame_queue[s][i].ist = s
      BY <1>3 DEF Queued
    <3>3. Queued(g, gr)
      BY <1>2, <2>2, <3>2, ConfiguredQueued
    <3>4. ASSUME g \notin lossy, NEW s \in Inputs[g]
          PROVE  gr.held[s] \o (gr.frame_queue[s] \o (dec'[s] \o Unread(s)')) = Ahead(g, s)
      <4>1. g \notin drops
        BY <1>2, <3>4
      <4>2. gr.frame_queue[s] = <<>> /\ gr.held[s] = w.frame_queue[s]
        BY <1>2, <2>2, <4>1, ConfiguredHolds
      <4>3. w.held[s] = <<>>
        BY <1>3, <2>2 DEF Queued
      <4> DEFINE u == dec[s] \o Unread(s)
                 f == w.frame_queue[s]
      <4>4. u \in Seq(Frames) /\ f \in Seq(Frames)
        <5>1. dec[s] \in Seq(Frames) /\ Unread(s) \in Seq(Frames) /\ f \in Seq(Frames)
          BY <1>2, AheadTypes, Sets DEF TypeOK, GraphType
        <5> QED BY <5>1, ConcatProperties
      <4>5. Ahead(g, s) = <<>> \o (f \o u)
        BY <1>b, <4>3 DEF Ahead
      <4>6. gr.held[s] \o (gr.frame_queue[s] \o (dec'[s] \o Unread(s)')) = f \o (<<>> \o u)
        BY <1>1, <1>6, <4>2
      <4> HIDE DEF u, f
      <4>7. <<>> \o u = u
        BY <4>4, ConcatEmptySeq
      <4>8. f \o u \in Seq(Frames)
        BY <4>4, ConcatProperties
      <4>9. <<>> \o (f \o u) = f \o u
        BY <4>8, ConcatEmptySeq
      <4> QED BY <4>5, <4>6, <4>7, <4>9
    <3> QED BY <3>1, <3>3, <3>4 DEF Forwards
  <2> QED BY <1>c, <2>1, <2>2
<1>8. PICK m : m = Passed(g, gr)
  OBVIOUS
<1>9. Hands(g, m)
  <2>1. graph'[g] = Kept(g, gr)
    BY <1>4
  <2> QED BY <1>1, <1>2, <1>7, <1>8, <1>b, <2>1, PassHands
<1>10. \A o \in OutsOf(g) : Served(o, m)
  BY <1>1, <1>5, <1>8 DEF OutsOf, AllSame, Served
<1>11. ASSUME NEW i \in Graphs, i # g
       PROVE  Hands(i, <<>>) /\ \A o \in OutsOf(i) : Served(o, <<>>)
  <2>1. graph'[i] = graph[i] /\ Queued(i, graph[i])
    BY <1>4, <1>11 DEF GraphInv
  <2>2. \A s \in Inputs[i] : dec'[s] \o Unread(s)' = dec[s] \o Unread(s)
    BY <1>1, <1>6
  <2>3. Hands(i, <<>>)
    BY <1>1, <1>2, <2>1, <2>2, StillHands
  <2>4. ASSUME NEW o \in OutsOf(i) PROVE Served(o, <<>>)
    <3>1. o \in Encoded /\ sink[o] \in Seq(Frames) /\ SameCoded(o) /\ GraphOf[o] # g
      BY <1>2, <1>5, <1>11 DEF OutsOf, AllSame
    <3>2. sink'[o] = sink[o] /\ sink[o] \o <<>> = sink[o]
      BY <1>1, <3>1, ConcatEmptySeq
    <3> QED BY <3>1, <3>2 DEF Served
  <2> QED BY <2>3, <2>4
<1> QED BY <1>9, <1>10, <1>11 DEF HandsOn

(* The input of a graph ends.                                              *)
LEMMA EofHolds ==
  ASSUME NEW g \in Graphs, graph[g] \in GraphType(g), Queued(g, graph[g]), NEW s \in Ists
  PROVE  LET gr == send_filter_eof(s, g) IN
         /\ Queued(g, gr) /\ gr.up = graph[g].up /\ gr.held = graph[g].held
         /\ gr.frame_queue = graph[g].frame_queue
         /\ gr.eof = IF s \in Inputs[g] THEN graph[g].eof \cup {s} ELSE graph[g].eof
<1> DEFINE gr == send_filter_eof(s, g)
           w == graph[g]
<1>1. CASE s \notin Inputs[g]
  BY <1>1 DEF send_filter_eof
<1>2. CASE s \in Inputs[g]
  <2> DEFINE e == w.eof \cup {s}
             f == [w.fmt EXCEPT ![s] = IF @ = NoFormat THEN 1 ELSE @]
  <2>1. gr = [w EXCEPT !.eof = e, !.fmt = f]
    BY <1>2 DEF send_filter_eof
  <2>2. \A t \in Inputs[g] : w.fmt[t] # NoFormat => f[t] # NoFormat
    <3>1. w.fmt \in [Inputs[g] -> Nat] /\ 1 # NoFormat
      BY DEF GraphType, NoFormat
    <3> QED BY <3>1
  <2> HIDE DEF e, f, w, gr
  <2>3. /\ gr.up = w.up /\ gr.held = w.held /\ gr.frame_queue = w.frame_queue
        /\ gr.eof = e /\ gr.fmt = f
    BY <2>1 DEF GraphType, w
  <2>4. Queued(g, gr)
    BY <2>2, <2>3 DEF Queued, w
  <2> QED BY <1>2, <2>3, <2>4 DEF e, w, gr
<1> QED BY <1>1, <1>2

(* The end of a stream is handed on: what was held back passes.            *)
LEMMA EndsOn ==
  ASSUME IInv, GraphInv, TypeOK', StreamEnds
  PROVE  HandsOn
<1>0. PICK s \in Ists : s = Min(todo)
  BY NextIs DEF StreamEnds
<1>1. /\ content' = content /\ dec' = dec /\ read' = read /\ lossy' = lossy
      /\ graph' = [g \in Graphs |-> Kept(g, send_filter_eof(s, g))]
      /\ sink' = [o \in Encoded |->
                    sink[o] \o Passed(GraphOf[o], send_filter_eof(s, GraphOf[o]))]
      /\ ost' = EndCopies(s, ost)
  BY <1>0, Sets DEF StreamEnds, inVars
<1>2. TypeOK
  BY DEF IInv
<1> SUFFICES ASSUME NEW g \in Graphs
             PROVE  \E m : Hands(g, m) /\ \A o \in OutsOf(g) : Served(o, m)
  BY DEF HandsOn
<1>3. PICK gr : gr = send_filter_eof(s, g)
  OBVIOUS
<1>4. graph[g] \in GraphType(g) /\ Queued(g, graph[g])
  BY <1>2 DEF TypeOK, GraphInv
<1>5. /\ Queued(g, gr) /\ gr.up = graph[g].up /\ gr.held = graph[g].held
      /\ gr.frame_queue = graph[g].frame_queue /\ gr \in GraphType(g)
  BY <1>2, <1>3, <1>4, EofHolds, EofIs
<1>6. Forwards(g, gr)
  <2>1. \A t : Unread(t)' = Unread(t)
    BY <1>1 DEF Unread
  <2> QED BY <1>1, <1>5, <2>1 DEF Forwards, Ahead
<1>7. PICK m : m = Passed(g, gr)
  OBVIOUS
<1>8. Hands(g, m)
  <2>1. graph'[g] = Kept(g, gr)
    BY <1>1, <1>3
  <2> QED BY <1>1, <1>2, <1>5, <1>6, <1>7, <2>1, PassHands
<1>9. ASSUME NEW o \in OutsOf(g) PROVE Served(o, m)
  <2>1. o \in Encoded /\ GraphOf[o] = g /\ o \in Outs /\ o \notin Copies
    BY Sets DEF OutsOf
  <2>2. sink'[o] = sink[o] \o m
    BY <1>1, <1>3, <1>7, <2>1
  <2>3. ost'[o] = ost[o]
    BY <1>1, <2>1 DEF EndCopies
  <2> QED BY <2>2, <2>3 DEF Served, SameCoded
<1> QED BY <1>8, <1>9

(* A frame is taken out of a decoder and put into a queue.                 *)
TakenOut(h, f, d, u) ==
  /\ h \o (Append(f, Head(d)) \o (Tail(d) \o u)) = h \o (f \o (d \o u))
  /\ Append(h, Head(d)) \o (<<>> \o (Tail(d) \o u)) = h \o (<<>> \o (d \o u))
  /\ Append(f, Head(d)) \o (<<>> \o (Tail(d) \o u)) = <<>> \o (f \o (d \o u))

(* A frame that is taken out of its decoder is the next one ahead.         *)
LEMMA TakeOne ==
  ASSUME NEW S, NEW h \in Seq(S), NEW f \in Seq(S), NEW d \in Seq(S), NEW u \in Seq(S),
         d # <<>>
  PROVE  TakenOut(h, f, d, u)
<1>1. /\ d = <<Head(d)>> \o Tail(d) /\ Head(d) \in S /\ Tail(d) \in Seq(S)
  BY FirstAndRest
<1> DEFINE p == Head(d)
           t == Tail(d)
<1> HIDE DEF p, t
<1>2. p \in S /\ t \in Seq(S) /\ d = <<p>> \o t /\ <<p>> \in Seq(S)
  BY <1>1 DEF p, t
<1>3. ASSUME NEW a \in Seq(S), NEW b \in Seq(S), NEW c \in Seq(S)
      PROVE  (a \o b) \o c = a \o (b \o c)
  BY ConcatAssociative, SMTT(60)
<1>4. \A a \in Seq(S) : Append(a, p) = a \o <<p>>
  BY <1>2, AppendIsConcat
<1>5. d \o u = <<p>> \o (t \o u) /\ t \o u \in Seq(S)
  BY <1>2, <1>3, ConcatProperties
<1>6. d \o u \in Seq(S)
  BY ConcatProperties
<1>7. \A a \in Seq(S) : Append(a, p) \o (t \o u) = a \o (d \o u)
  <2> SUFFICES ASSUME NEW a \in Seq(S) PROVE (a \o <<p>>) \o (t \o u) = a \o (d \o u)
    BY <1>4
  <2> DEFINE z == t \o u
  <2>1. z \in Seq(S) /\ d \o u = <<p>> \o z
    BY <1>5
  <2> HIDE DEF z
  <2>2. (a \o <<p>>) \o z = a \o (<<p>> \o z)
    BY <1>2, <1>3, <2>1, SMTT(60)
  <2> QED BY <2>1, <2>2 DEF z
<1>8. <<>> \o (t \o u) = t \o u /\ <<>> \o (d \o u) = d \o u
  BY <1>5, <1>6, ConcatEmptySeq
<1>9. <<>> \o (f \o (d \o u)) = f \o (d \o u)
  <2>1. f \o (d \o u) \in Seq(S)
    BY <1>6, ConcatProperties
  <2> QED BY <2>1, ConcatEmptySeq
<1> QED BY <1>7, <1>8, <1>9 DEF p, t, TakenOut

(* A graph learns the format of a frame.                                   *)
LEMMA WithFormatHolds ==
  ASSUME NEW g \in Graphs, graph[g] \in GraphType(g), NEW p \in Frames,
         p.fmt \in Nat \ {NoFormat}, p.ist \in Inputs[g]
  PROVE  LET w == WithFormat(g, p) IN
         /\ w \in GraphType(g) /\ w.up = graph[g].up /\ w.held = graph[g].held
         /\ w.frame_queue = graph[g].frame_queue /\ w.eof = graph[g].eof
         /\ \A t \in Inputs[g] : graph[g].fmt[t] # NoFormat => w.fmt[t] # NoFormat
<1> DEFINE w == WithFormat(g, p)
           f == [graph[g].fmt EXCEPT ![p.ist] = p.fmt]
<1>1. CASE Reinit(g, p)
  <2>1. w = [graph[g] EXCEPT !.fmt = f]
    BY <1>1 DEF WithFormat
  <2>2. /\ f \in [Inputs[g] -> Nat]
        /\ \A t \in Inputs[g] : graph[g].fmt[t] # NoFormat => f[t] # NoFormat
    BY DEF GraphType
  <2> HIDE DEF f, w
  <2>3. /\ w \in GraphType(g) /\ w.up = graph[g].up /\ w.held = graph[g].held
        /\ w.frame_queue = graph[g].frame_queue /\ w.eof = graph[g].eof /\ w.fmt = f
    BY <2>1, <2>2 DEF GraphType
  <2> QED BY <2>2, <2>3 DEF w
<1>2. CASE ~Reinit(g, p)
  BY <1>2 DEF WithFormat
<1> QED BY <1>1, <1>2

(* A frame put into the buffer of its input.                               *)
LEMMA SentHolds ==
  ASSUME NEW g \in Graphs, NEW gr \in GraphType(g), Queued(g, gr), gr.up,
         NEW p \in Frames, p.ist \in Inputs[g]
  PROVE  /\ Queued(g, Sent(gr, p)) /\ Sent(gr, p).up
         /\ Sent(gr, p).frame_queue = gr.frame_queue /\ Sent(gr, p).eof = gr.eof
         /\ \A t \in Inputs[g] : Sent(gr, p).held[t] =
              IF t = p.ist THEN Append(gr.held[t], p) ELSE gr.held[t]
<1> DEFINE h == [gr.held EXCEPT ![p.ist] = Append(@, p)]
           n == Sent(gr, p)
<1>1. n = [gr EXCEPT !.held = h]
  BY DEF Sent
<1>2. gr.held \in [Inputs[g] -> Seq(Frames)]
  BY DEF GraphType
<1>3. \A t \in Inputs[g] : h[t] = IF t = p.ist THEN Append(gr.held[t], p) ELSE gr.held[t]
  BY <1>2
<1> HIDE DEF h, n
<1>4. /\ n.held = h /\ n.up = gr.up /\ n.frame_queue = gr.frame_queue /\ n.eof = gr.eof
      /\ n.fmt = gr.fmt
  BY <1>1 DEF GraphType
<1>5. ASSUME NEW t \in Inputs[g] PROVE \A i \in DOMAIN h[t] : h[t][i].ist = t
  <2> DEFINE a == gr.held[t]
  <2>1. a \in Seq(Frames) /\ \A i \in DOMAIN a : a[i].ist = t
    BY <1>2 DEF Queued
  <2>2. CASE t = p.ist
    <3> HIDE DEF a
    <3>1. /\ Append(a, p) \in Seq(Frames) /\ Len(Append(a, p)) = Len(a) + 1
          /\ \A i \in 1 .. Len(a) : Append(a, p)[i] = a[i]
          /\ Append(a, p)[Len(a) + 1] = p
      BY <2>1, AppendProperties
    <3>2. /\ DOMAIN Append(a, p) = 1 .. Len(Append(a, p)) /\ Len(a) \in Nat
          /\ DOMAIN a = 1 .. Len(a)
      BY <2>1, <3>1, LenProperties
    <3>3. \A i \in DOMAIN Append(a, p) : i \in DOMAIN a \/ i = Len(a) + 1
      BY <3>1, <3>2
    <3>4. \A i \in DOMAIN Append(a, p) : Append(a, p)[i].ist = t
      BY <2>1, <2>2, <3>1, <3>2, <3>3
    <3>5. h[t] = Append(a, p)
      BY <1>3, <2>2 DEF a
    <3> QED BY <3>4, <3>5
  <2>3. CASE t # p.ist
    BY <1>3, <2>1, <2>3
  <2> QED BY <2>2, <2>3
<1>6. Queued(g, n)
  BY <1>4, <1>5 DEF Queued
<1> QED BY <1>3, <1>4, <1>6 DEF n

(* A queued graph moves into the graph what was queued.                    *)
LEMMA QueueMoves ==
  ASSUME NEW S, NEW f \in Seq(S), NEW u \in Seq(S)
  PROVE  f \o (<<>> \o u) = <<>> \o (f \o u)
<1>1. f \o u \in Seq(S)
  BY ConcatProperties
<1>2. <<>> \o u = u /\ <<>> \o (f \o u) = f \o u
  BY <1>1, ConcatEmptySeq
<1> QED BY <1>2

(* A frame is queued by a graph that is not configured.                    *)
LEMMA QueueHolds ==
  ASSUME NEW g \in Graphs, NEW w \in GraphType(g), Queued(g, w), ~w.up,
         NEW p \in Frames, p.ist \in Inputs[g]
  PROVE  LET n == [w EXCEPT !.frame_queue[p.ist] = Append(@, p)] IN
         /\ Queued(g, n) /\ ~n.up /\ n.held = w.held /\ n.eof = w.eof
         /\ \A t \in Inputs[g] : n.frame_queue[t] =
              IF t = p.ist THEN Append(w.frame_queue[t], p) ELSE w.frame_queue[t]
<1> DEFINE q == [w.frame_queue EXCEPT ![p.ist] = Append(@, p)]
           n == [w EXCEPT !.frame_queue[p.ist] = Append(@, p)]
<1>1. n = [w EXCEPT !.frame_queue = q]
  OBVIOUS
<1>2. w.frame_queue \in [Inputs[g] -> Seq(Frames)]
  BY DEF GraphType
<1>3. \A t \in Inputs[g] :
        q[t] = IF t = p.ist THEN Append(w.frame_queue[t], p) ELSE w.frame_queue[t]
  BY <1>2
<1> HIDE DEF q, n
<1>4. /\ n.held = w.held /\ n.up = w.up /\ n.frame_queue = q /\ n.eof = w.eof
      /\ n.fmt = w.fmt
  BY <1>1 DEF GraphType
<1>5. ASSUME NEW t \in Inputs[g] PROVE \A i \in DOMAIN q[t] : q[t][i].ist = t
  <2> DEFINE a == w.frame_queue[t]
  <2>1. a \in Seq(Frames) /\ \A i \in DOMAIN a : a[i].ist = t
    BY <1>2 DEF Queued
  <2>2. CASE t = p.ist
    <3> HIDE DEF a
    <3>1. /\ Append(a, p) \in Seq(Frames) /\ Len(Append(a, p)) = Len(a) + 1
          /\ \A i \in 1 .. Len(a) : Append(a, p)[i] = a[i]
          /\ Append(a, p)[Len(a) + 1] = p
      BY <2>1, AppendProperties
    <3>2. /\ DOMAIN Append(a, p) = 1 .. Len(Append(a, p)) /\ Len(a) \in Nat
          /\ DOMAIN a = 1 .. Len(a)
      BY <2>1, <3>1, LenProperties
    <3>3. \A i \in DOMAIN Append(a, p) : i \in DOMAIN a \/ i = Len(a) + 1
      BY <3>1, <3>2
    <3>4. \A i \in DOMAIN Append(a, p) : Append(a, p)[i].ist = t
      BY <2>1, <2>2, <3>1, <3>2, <3>3
    <3>5. q[t] = Append(a, p)
      BY <1>3, <2>2 DEF a
    <3> QED BY <3>4, <3>5
  <2>3. CASE t # p.ist
    BY <1>3, <2>1, <2>3
  <2> QED BY <2>2, <2>3
<1>6. Queued(g, n)
  BY <1>4, <1>5 DEF Queued
<1> QED BY <1>3, <1>4, <1>6 DEF n

(* ifilter_send_frame: graph g has the frame that was taken out of the     *)
(* decoder, unless it loses frames.                                        *)
LEMMA SendOn ==
  ASSUME IInv, GraphInv, TypeOK', NEW s \in Ists, TakeFrame(s),
         content' = content, read' = read, NEW g \in Graphs
  PROVE  LET gr == ifilter_send_frame(g, Head(dec[s])) IN
         /\ Queued(g, gr) /\ gr \in GraphType(g) /\ (graph[g].up => gr.up)
         /\ gr.eof = graph[g].eof
         /\ g \notin lossy' => Forwards(g, gr)
<1>a. PICK p : p = Head(dec[s])
  OBVIOUS
<1>b. PICK w : w = graph[g]
  OBVIOUS
<1>c. PICK gr : gr = ifilter_send_frame(g, p)
  OBVIOUS
<1>1. /\ HasFrame(s) /\ dec' = [dec EXCEPT ![s] = Tail(@)]
      /\ lossy' = lossy \cup {i \in Configures(p) : \E t \in Inputs[i] : graph[i].held[t] # <<>>}
  BY <1>a DEF TakeFrame, send_frame_to_filters
<1>2. dec[s] \in Seq(Frames) /\ dec[s] # <<>> /\ p \in Frames /\ p.ist = s
  BY <1>1, <1>a, FrameTaken
<1>3. /\ TypeOK /\ w \in GraphType(g) /\ drops \subseteq lossy
      /\ content \in Contents /\ Queued(g, w) /\ p.fmt \in Nat \ {NoFormat}
      /\ dec \in [Ists -> Seq(Frames)]
  BY <1>2, <1>b, FramesAre DEF IInv, TypeOK, GraphInv
<1>4. \A t \in Ists : dec'[t] = IF t = s THEN Tail(dec[s]) ELSE dec[t]
  BY <1>1, <1>3
<1>5. gr \in GraphType(g)
  BY <1>2, <1>3, <1>c, SendFrameIs
<1>6. ASSUME NEW t \in Inputs[g]
      PROVE  /\ t \in Ists /\ Unread(t)' = Unread(t) /\ Unread(t) \in Seq(Frames)
             /\ dec[t] \in Seq(Frames) /\ dec[t] \o Unread(t) \in Seq(Frames)
             /\ w.held[t] \in Seq(Frames) /\ w.frame_queue[t] \in Seq(Frames)
             /\ Ahead(g, t) = w.held[t] \o (w.frame_queue[t] \o (dec[t] \o Unread(t)))
  <2>1. t \in Ists /\ dec[t] \in Seq(Frames) /\ Unread(t) \in Seq(Frames)
    BY <1>3, Sets, AheadTypes
  <2>2. dec[t] \o Unread(t) \in Seq(Frames)
    BY <2>1, ConcatProperties
  <2>3. Unread(t)' = Unread(t)
    BY DEF Unread
  <2>4. w.held[t] \in Seq(Frames) /\ w.frame_queue[t] \in Seq(Frames)
    BY <1>3 DEF GraphType
  <2>5. Ahead(g, t) = w.held[t] \o (w.frame_queue[t] \o (dec[t] \o Unread(t)))
    BY <1>b DEF Ahead
  <2> QED BY <2>1, <2>2, <2>3, <2>4, <2>5
<1> DEFINE Fits(t) ==
      gr.held[t] \o (gr.frame_queue[t] \o (dec'[t] \o Unread(t)')) = Ahead(g, t)
<1>7. CASE s \notin Inputs[g]
  <2>1. gr = w
    BY <1>2, <1>7, <1>b, <1>c DEF ifilter_send_frame
  <2>2. \A t \in Inputs[g] : Fits(t)
    BY <1>4, <1>6, <1>7, <2>1
  <2> QED BY <1>3, <1>5, <1>a, <1>b, <1>c, <2>1, <2>2 DEF Forwards
<1>8. CASE s \in Inputs[g]
  <2>a. PICK f : f = WithFormat(g, p)
    OBVIOUS
  <2>1. /\ f \in GraphType(g) /\ f.up = w.up /\ f.held = w.held
        /\ f.frame_queue = w.frame_queue /\ f.eof = w.eof
        /\ \A t \in Inputs[g] : w.fmt[t] # NoFormat => f.fmt[t] # NoFormat
    BY <1>2, <1>3, <1>8, <1>b, <2>a, WithFormatHolds
  <2>2. g \in Configures(p) <=> Reinit(g, p) /\ ifilter_has_all_input_formats(g, f)
    BY <1>2, <1>8, <2>a DEF Configures
  <2>3. ~Reinit(g, p) => w.up
    BY <1>b DEF Reinit
  <2>4. CASE Reinit(g, p) /\ g \notin Configures(p)
    <3>1. gr = [f EXCEPT !.frame_queue[p.ist] = Append(@, p)]
      BY <1>2, <1>8, <1>c, <2>4, <2>a DEF ifilter_send_frame
    <3>2. ~w.up
      <4> SUFFICES ASSUME w.up PROVE FALSE
        OBVIOUS
      <4>1. \A t \in Inputs[g] : w.fmt[t] # NoFormat
        BY <1>3 DEF Queued
      <4> QED BY <2>1, <2>2, <2>4, <4>1 DEF ifilter_has_all_input_formats
    <3>3. Queued(g, f) /\ ~f.up
      BY <1>3, <2>1, <3>2 DEF Queued
    <3>4. /\ Queued(g, gr) /\ ~gr.up /\ gr.held = w.held /\ gr.eof = w.eof
          /\ \A t \in Inputs[g] : gr.frame_queue[t] =
               IF t = s THEN Append(w.frame_queue[t], p) ELSE w.frame_queue[t]
      BY <1>2, <1>8, <2>1, <3>1, <3>3, QueueHolds
    <3>5. ASSUME NEW t \in Inputs[g] PROVE Fits(t)
      <4>1. CASE t = s
        <5>1. gr.held[t] \o (gr.frame_queue[t] \o (dec'[t] \o Unread(t)'))
                = w.held[t] \o (Append(w.frame_queue[t], Head(dec[t]))
                                  \o (Tail(dec[t]) \o Unread(t)))
          BY <1>4, <1>6, <1>a, <3>4, <4>1
        <5> DEFINE d == dec[t]
                   h == w.held[t]
                   q == w.frame_queue[t]
                   u == Unread(t)
        <5>2. /\ d \in Seq(Frames) /\ h \in Seq(Frames) /\ q \in Seq(Frames)
              /\ u \in Seq(Frames) /\ d # <<>>
          BY <1>2, <1>6, <4>1
        <5> HIDE DEF d, h, q, u
        <5>3. TakenOut(h, q, d, u)
          BY <5>2, TakeOne
        <5> QED BY <1>6, <5>1, <5>3 DEF d, h, q, u, TakenOut
      <4>2. CASE t # s
        BY <1>4, <1>6, <3>4, <4>2
      <4> QED BY <4>1, <4>2
    <3> QED BY <1>5, <1>a, <1>b, <1>c, <3>2, <3>4, <3>5 DEF Forwards
  <2>5. CASE g \in Configures(p)
    <3>a. PICK c : c = configure_filtergraph(g, f)
      OBVIOUS
    <3>1. gr = IF g \in drops THEN c ELSE Sent(c, p)
      BY <1>2, <1>8, <1>c, <2>5, <2>a, <3>a DEF ifilter_send_frame
    <3>2. /\ c \in GraphType(g) /\ c.up /\ c.eof = w.eof
          /\ \A t \in Inputs[g] :
               /\ c.frame_queue[t] = <<>>
               /\ c.held[t] = IF g \in drops THEN <<>> ELSE w.frame_queue[t]
      BY <2>1, <3>a, ConfiguredHolds
    <3>3. Queued(g, c)
      <4>1. \A t \in Inputs[g] :
              \A i \in DOMAIN f.frame_queue[t] : f.frame_queue[t][i].ist = t
        BY <1>3, <2>1 DEF Queued
      <4> QED BY <2>1, <2>2, <2>5, <3>a, <4>1, ConfiguredQueued
    <3>4. g \notin drops =>
            /\ Queued(g, Sent(c, p)) /\ Sent(c, p).up
            /\ Sent(c, p).frame_queue = c.frame_queue /\ Sent(c, p).eof = c.eof
            /\ \A t \in Inputs[g] : Sent(c, p).held[t] =
                 IF t = s THEN Append(c.held[t], p) ELSE c.held[t]
      BY <1>2, <1>8, <3>2, <3>3, SentHolds
    <3>5. Queued(g, gr) /\ gr.up /\ gr.eof = w.eof
      BY <3>1, <3>2, <3>3, <3>4
    <3>6. ASSUME g \notin lossy', NEW t \in Inputs[g] PROVE Fits(t)
      <4>1. g \notin drops /\ w.held[t] = <<>>
        BY <1>1, <1>3, <1>b, <2>5, <3>6
      <4>2. /\ gr.frame_queue[t] = <<>>
            /\ gr.held[t] = IF t = s THEN Append(w.frame_queue[t], p) ELSE w.frame_queue[t]
        BY <3>1, <3>2, <3>4, <4>1
      <4> DEFINE d == dec[t]
                 q == w.frame_queue[t]
                 u == Unread(t)
      <4>3. /\ d \in Seq(Frames) /\ q \in Seq(Frames) /\ u \in Seq(Frames)
            /\ d \o u \in Seq(Frames) /\ Unread(t)' = u
            /\ Ahead(g, t) = <<>> \o (q \o (d \o u))
        BY <1>6, <4>1
      <4>4. CASE t = s
        <5>1. d # <<>> /\ p = Head(d) /\ dec'[t] = Tail(d)
          BY <1>2, <1>4, <1>6, <1>a, <4>4
        <5>2. gr.held[t] \o (gr.frame_queue[t] \o (dec'[t] \o Unread(t)'))
                = Append(q, Head(d)) \o (<<>> \o (Tail(d) \o u))
          BY <4>2, <4>3, <4>4, <5>1
        <5> HIDE DEF d, q, u
        <5>3. TakenOut(q, q, d, u)
          BY <4>3, <5>1, TakeOne
        <5> QED BY <4>3, <5>2, <5>3 DEF TakenOut
      <4>5. CASE t # s
        <5>1. dec'[t] = d
          BY <1>4, <1>6, <4>5
        <5>2. gr.held[t] \o (gr.frame_queue[t] \o (dec'[t] \o Unread(t)'))
                = q \o (<<>> \o (d \o u))
          BY <4>2, <4>3, <4>5, <5>1
        <5> DEFINE x == d \o u
        <5>3. x \in Seq(Frames) /\ q \in Seq(Frames)
          BY <4>3
        <5> HIDE DEF x, q
        <5>4. q \o (<<>> \o x) = <<>> \o (q \o x)
          BY <5>3, QueueMoves
        <5> QED BY <4>3, <5>2, <5>4 DEF x
      <4> QED BY <4>4, <4>5
    <3> QED BY <1>5, <1>a, <1>b, <1>c, <3>5, <3>6 DEF Forwards
  <2>6. CASE ~Reinit(g, p)
    <3>1. g \notin Configures(p) /\ w.up
      BY <2>2, <2>3, <2>6
    <3>2. gr = IF g \in drops THEN w ELSE Sent(w, p)
      BY <1>2, <1>8, <1>b, <1>c, <2>6, <3>1 DEF ifilter_send_frame
    <3>3. /\ Queued(g, Sent(w, p)) /\ Sent(w, p).up
          /\ Sent(w, p).frame_queue = w.frame_queue /\ Sent(w, p).eof = w.eof
          /\ \A t \in Inputs[g] : Sent(w, p).held[t] =
               IF t = s THEN Append(w.held[t], p) ELSE w.held[t]
      BY <1>2, <1>3, <1>8, <3>1, SentHolds
    <3>4. Queued(g, gr) /\ gr.up /\ gr.eof = w.eof
      BY <1>3, <3>1, <3>2, <3>3
    <3>5. ASSUME g \notin lossy', NEW t \in Inputs[g] PROVE Fits(t)
      <4>1. g \notin drops
        BY <1>1, <1>3, <3>5
      <4>2. /\ gr.frame_queue[t] = <<>> /\ w.frame_queue[t] = <<>>
            /\ gr.held[t] = IF t = s THEN Append(w.held[t], p) ELSE w.held[t]
        BY <1>3, <3>1, <3>2, <3>3, <4>1 DEF Queued
      <4> DEFINE d == dec[t]
                 h == w.held[t]
                 u == Unread(t)
      <4>3. /\ d \in Seq(Frames) /\ h \in Seq(Frames) /\ u \in Seq(Frames)
            /\ Unread(t)' = u /\ Ahead(g, t) = h \o (<<>> \o (d \o u))
        BY <1>6, <4>2
      <4>4. CASE t = s
        <5>1. d # <<>> /\ p = Head(d) /\ dec'[t] = Tail(d)
          BY <1>2, <1>4, <1>6, <1>a, <4>4
        <5>2. gr.held[t] \o (gr.frame_queue[t] \o (dec'[t] \o Unread(t)'))
                = Append(h, Head(d)) \o (<<>> \o (Tail(d) \o u))
          BY <4>2, <4>3, <4>4, <5>1
        <5> HIDE DEF d, h, u
        <5>3. TakenOut(h, h, d, u)
          BY <4>3, <5>1, TakeOne
        <5> QED BY <4>3, <5>2, <5>3 DEF TakenOut
      <4>5. CASE t # s
        BY <1>4, <1>6, <4>2, <4>3, <4>5
      <4> QED BY <4>4, <4>5
    <3> QED BY <1>5, <1>a, <1>b, <1>c, <3>1, <3>4, <3>5 DEF Forwards
  <2> QED BY <2>4, <2>5, <2>6
<1> QED BY <1>7, <1>8

(* send_frame_to_filters.                                                  *)
LEMMA TakesOn ==
  ASSUME IInv, GraphInv, TypeOK', NEW s \in Ists, TakeFrame(s),
         content' = content, read' = read
  PROVE  HandsOn
<1> SUFFICES ASSUME NEW g \in Graphs
             PROVE  \E m : Hands(g, m) /\ \A o \in OutsOf(g) : Served(o, m)
  BY DEF HandsOn
<1>a. PICK p : p = Head(dec[s])
  OBVIOUS
<1>b. PICK conf : conf = Configures(p)
  OBVIOUS
<1>c. PICK gr : gr = ifilter_send_frame(g, p)
  OBVIOUS
<1>d. PICK m : m = Passed(g, gr)
  OBVIOUS
<1> DEFINE r == IF conf # {} THEN reap_filters(TRUE) ELSE ost
<1>1. /\ ost' = IF pc \in {"eof", "drain"} THEN EndCopies(p.ist, r) ELSE r
      /\ sink' = [o \in Encoded |-> (IF conf # {} THEN <<>> ELSE sink[o])
                    \o Passed(GraphOf[o], [i \in Graphs |-> ifilter_send_frame(i, p)][GraphOf[o]])]
      /\ graph' = [i \in Graphs |-> Kept(i, [j \in Graphs |-> ifilter_send_frame(j, p)][i])]
  BY <1>a, <1>b DEF TakeFrame, send_frame_to_filters
<1>2. /\ Queued(g, gr) /\ gr \in GraphType(g) /\ (graph[g].up => gr.up)
      /\ g \notin lossy' => Forwards(g, gr)
  BY <1>a, <1>c, SendOn
<1>3. graph'[g] = Kept(g, gr)
  BY <1>1, <1>c
<1>4. TypeOK
  BY DEF IInv
<1>5. Hands(g, m)
  BY <1>2, <1>3, <1>4, <1>d, PassHands
<1>6. ASSUME NEW o \in OutsOf(g) PROVE Served(o, m)
  <2>1. o \in Encoded /\ GraphOf[o] = g /\ o \in Outs /\ o \notin Copies
    BY Sets DEF OutsOf
  <2>2. sink'[o] = (IF conf # {} THEN <<>> ELSE sink[o]) \o m
    BY <1>1, <1>c, <1>d, <2>1
  <2>3. ost'[o] = r[o]
    BY <1>1, <2>1 DEF EndCopies
  <2>4. m \in Seq(Frames)
    BY <1>5 DEF Hands
  <2>5. CASE conf # {}
    <3>1. ost'[o] = Reaped(o, TRUE)
      BY <2>1, <2>3, <2>5 DEF reap_filters
    <3>2. Encodes(o)
      BY <3>1 DEF Encodes
    <3>3. sink'[o] = m
      BY <2>2, <2>4, <2>5, ConcatEmptySeq
    <3> QED BY <3>2, <3>3 DEF Served
  <2>6. CASE conf = {}
    BY <2>2, <2>3, <2>6 DEF Served, SameCoded
  <2> QED BY <2>5, <2>6
<1> QED BY <1>5, <1>6

-----------------------------------------------------------------------------
(* What is there when nothing changes.                                     *)
LEMMA StutterOn ==
  ASSUME IInv, GraphInv, TypeOK', UNCHANGED vars
  PROVE  HandsOn
<1>1. /\ content' = content /\ graph' = graph /\ read' = read /\ dec' = dec
      /\ sink' = sink /\ ost' = ost
  BY DEF vars, inVars
<1>2. TypeOK
  BY DEF IInv
<1>3. AllSame
  BY <1>1, <1>2, FlagsOnly
<1>4. Quietly
  BY <1>1, SameReads
<1>5. \A o \in Encoded : Served(o, <<>>)
  BY <1>1, <1>2, <1>3, SameServed
<1> QED BY <1>1, <1>4, <1>5, StillStep

(* Every step but the last one hands frames on.                            *)
LEMMA AllHandOn ==
  ASSUME IInv, GraphInv, TypeOK', [Next]_vars, ~flush_encoders
  PROVE  HandsOn
<1>1. CASE UNCHANGED vars
  BY <1>1, StutterOn
<1>2. CASE Decode
  <2>1. PICK s \in Needed : TakeFrame(s)
    BY <1>2 DEF Decode
  <2>2. s \in Ists /\ content' = content /\ read' = read
    BY <1>2, GraphAssumption DEF Needed, Decode, inVars
  <2> QED BY <2>1, <2>2, TakesOn
<1>3. CASE StreamGives
  <2>1. PICK s \in Ists : s = Min(todo)
    BY <1>3, NextIs DEF StreamGives
  <2>2. TakeFrame(s) /\ content' = content /\ read' = read
    BY <1>3, <2>1 DEF StreamGives, inVars
  <2> QED BY <2>2, TakesOn
<1>4. CASE \/ LeaveLoop \/ NoneAvailable \/ StepCopy \/ StepFails \/ RequestWaits
           \/ InputAgain \/ InputEof \/ Decoded \/ EofReached \/ ExitProgram
           \/ (\E f \in InFiles : Arrive(f)) \/ (\E of \in OutFiles : MuxerEnds(of))
           \/ ReceiveSigterm
  BY <1>4, IdleSteps
<1>5. CASE InputPacket \/ InputLooped
  BY <1>5, InputSteps
<1>6. CASE Reap \/ RequestEnds
  BY <1>6, ReapSteps
<1>7. CASE RequestGives
  BY <1>7, GivesOn
<1>8. CASE StepGraph
  BY <1>8, StepOn
<1>9. CASE StreamEnds
  BY <1>9, EndsOn
<1>10. CASE Over
  BY <1>1, <1>10 DEF Over
<1> HIDE DEF HandsOn
<1> QED BY <1>1, <1>2, <1>3, <1>4, <1>5, <1>6, <1>7, <1>8, <1>9, <1>10 DEF Next, MainStep

(* Only the end of a stream ends an input of a graph, and then nothing is  *)
(* in its decoder.                                                         *)
LEMMA EofGrows ==
  ASSUME IInv, GraphInv, TypeOK', [Next]_vars, NEW g \in Graphs
  PROVE  \/ graph'[g].eof = graph[g].eof
         \/ /\ pc \in {"eof", "drain"} /\ pc' = pc /\ todo # {} /\ dec[Min(todo)] = <<>>
            /\ graph'[g].eof \subseteq graph[g].eof \cup {Min(todo)}
<1>1. /\ TypeOK /\ content \in Contents /\ graph = [i \in Graphs |-> graph[i]]
      /\ Queued(g, graph[g]) /\ \A i \in Graphs : graph[i] \in GraphType(i)
  BY DEF IInv, TypeOK, GraphInv
<1>2. CASE graph' = graph
  BY <1>2
<1>3. ASSUME NEW s \in Ists, TakeFrame(s), content' = content, read' = read
      PROVE  graph'[g].eof = graph[g].eof
  <2>a. PICK gr : gr = ifilter_send_frame(g, Head(dec[s]))
    OBVIOUS
  <2>1. Queued(g, gr) /\ gr \in GraphType(g) /\ gr.eof = graph[g].eof
    BY <1>3, <2>a, SendOn
  <2>2. graph'[g] = Kept(g, gr)
    BY <1>3, <2>a DEF TakeFrame, send_frame_to_filters
  <2>3. Kept(g, gr).eof = gr.eof
    BY <1>1, <2>1, PassedIs
  <2> QED BY <2>1, <2>2, <2>3
<1>4. CASE Decode
  <2>1. PICK s \in Needed : TakeFrame(s)
    BY <1>4 DEF Decode
  <2>2. s \in Ists /\ content' = content /\ read' = read
    BY <1>4, GraphAssumption DEF Needed, Decode, inVars
  <2> QED BY <1>3, <2>1, <2>2
<1>5. CASE StreamGives
  <2>1. PICK s \in Ists : s = Min(todo)
    BY <1>5, NextIs DEF StreamGives
  <2>2. TakeFrame(s) /\ content' = content /\ read' = read
    BY <1>5, <2>1 DEF StreamGives, inVars
  <2> QED BY <1>3, <2>2
<1>6. CASE RequestGives
  <2>1. PICK i, q : /\ graph' = [graph EXCEPT ![i] = q]
                    /\ i \in Graphs => q.eof = graph[i].eof
    <3>a. PICK i : i = GraphOf[chosen]
      OBVIOUS
    <3>b. PICK s : s = Oldest(i, graph[i])
      OBVIOUS
    <3>c. PICK q : q = [graph[i] EXCEPT !.held[s] = Tail(@)]
      OBVIOUS
    <3>1. graph' = [graph EXCEPT ![i] = q]
      BY <1>6, <3>a, <3>b, <3>c DEF RequestGives
    <3>2. i \in Graphs => q.eof = graph[i].eof
      BY <1>1, <3>c DEF GraphType
    <3> QED BY <3>1, <3>2
  <2> QED BY <1>1, <2>1
<1>7. CASE StepGraph
  <2>a. PICK i : i = GraphOf[choose_output]
    OBVIOUS
  <2>b. PICK gr : gr = IF ~graph[i].up /\ ifilter_has_all_input_formats(i, graph[i])
                       THEN configure_filtergraph(i, graph[i]) ELSE graph[i]
    OBVIOUS
  <2>1. graph' = [graph EXCEPT ![i] = Kept(i, gr)]
    BY <1>7, <2>a, <2>b DEF StepGraph
  <2>2. CASE i # g
    BY <1>1, <2>1, <2>2
  <2>3. CASE i = g
    <3>1. gr \in GraphType(g) /\ gr.eof = graph[g].eof
      BY <1>1, <2>3, <2>b, ConfiguredHolds
    <3>2. Kept(g, gr).eof = gr.eof
      <4> DEFINE h == [s \in Inputs[g] |->
                         SubSeq(gr.held[s], Len(Passed(g, gr)) + 1, Len(gr.held[s]))]
      <4>1. Kept(g, gr) = [gr EXCEPT !.held = h]
        BY DEF Kept
      <4> HIDE DEF h
      <4> QED BY <3>1, <4>1 DEF GraphType
    <3>3. graph'[g] = Kept(g, gr)
      BY <1>1, <2>1, <2>3
    <3> QED BY <3>1, <3>2, <3>3
  <2> QED BY <2>2, <2>3
<1>8. CASE StreamEnds
  <2>1. PICK s \in Ists : s = Min(todo)
    BY <1>8, NextIs DEF StreamEnds
  <2>2. /\ pc \in {"eof", "drain"} /\ pc' = pc /\ todo # {} /\ dec[s] = <<>>
        /\ graph'[g] = Kept(g, send_filter_eof(s, g))
    BY <1>8, <2>1 DEF StreamEnds
  <2>a. PICK gr : gr = send_filter_eof(s, g)
    OBVIOUS
  <2>3. /\ Queued(g, gr) /\ gr \in GraphType(g)
        /\ gr.eof \subseteq graph[g].eof \cup {s}
    BY <1>1, <2>a, EofHolds, EofIs
  <2>4. Kept(g, gr).eof = gr.eof
    BY <1>1, <2>3, PassedIs
  <2> QED BY <2>1, <2>2, <2>3, <2>4, <2>a
<1>9. CASE MainStep
  <2>1. CASE \/ LeaveLoop \/ NoneAvailable \/ StepCopy \/ StepFails \/ RequestEnds
             \/ RequestWaits \/ InputAgain \/ InputPacket \/ InputLooped \/ InputEof
             \/ Decoded \/ EofReached \/ Reap \/ ExitProgram \/ flush_encoders
    <3>1. graph' = graph
      BY <2>1 DEF LeaveLoop, NoneAvailable, StepCopy, StepFails, RequestEnds,
         RequestWaits, InputAgain, InputPacket, InputLooped, InputEof, Decoded,
         EofReached, Reap, ExitProgram, flush_encoders
    <3> QED BY <1>2, <3>1
  <2> QED BY <1>4, <1>5, <1>6, <1>7, <1>8, <1>9, <2>1 DEF MainStep
<1>10. CASE \/ UNCHANGED vars \/ (\E f \in InFiles : Arrive(f))
            \/ (\E of \in OutFiles : MuxerEnds(of)) \/ ReceiveSigterm \/ Over
  <2>1. graph' = graph
    BY <1>10 DEF vars, Arrive, MuxerEnds, ReceiveSigterm, Over
  <2> QED BY <1>2, <2>1
<1> QED BY <1>9, <1>10 DEF Next

(* A stream that has nothing more to come does not get more.               *)
LEMMA StaysEmpty ==
  ASSUME IInv, [Next]_vars, NEW s \in Ists,
         read[FileOf[s]] = Len(content[FileOf[s]]), dec[s] = <<>>
  PROVE  read'[FileOf[s]] = Len(content[FileOf[s]]) /\ dec'[s] = <<>>
<1>1. /\ TypeOK /\ FileOf[s] \in InFiles /\ read \in [InFiles -> Nat]
      /\ dec \in [Ists -> Seq(Frames)] /\ content \in Contents
  BY Sets DEF IInv, TypeOK
<1>2. Len(content[FileOf[s]]) \in Nat
  BY <1>1, ContentIs
<1>3. read'[FileOf[s]] = Len(content[FileOf[s]])
  <2>1. CASE read' = read
    BY <2>1
  <2>2. CASE /\ cur \in InFiles /\ read[cur] < Len(content[cur])
             /\ read' = [read EXCEPT ![cur] = @ + 1]
    <3>1. cur # FileOf[s]
      BY <1>1, <1>2, <2>2
    <3> QED BY <1>1, <2>2, <3>1
  <2> QED BY <2>1, <2>2, Reads
<1>4. ASSUME NEW t \in Ists, TakeFrame(t) PROVE dec'[s] = <<>>
  <2>1. dec[t] # <<>> /\ dec' = [dec EXCEPT ![t] = Tail(@)]
    BY <1>4, FrameTaken DEF TakeFrame
  <2> QED BY <1>1, <2>1
<1>5. dec'[s] = <<>>
  <2>1. CASE dec' = dec
    BY <2>1
  <2>2. CASE Decode
    <3>1. PICK t \in Needed : TakeFrame(t)
      BY <2>2 DEF Decode
    <3>2. t \in Ists
      BY GraphAssumption DEF Needed
    <3> QED BY <1>4, <3>1, <3>2
  <2>3. CASE StreamGives
    <3>1. TakeFrame(Min(todo)) /\ Min(todo) \in Ists
      BY <2>3, NextIs DEF StreamGives
    <3> QED BY <1>4, <3>1
  <2>4. CASE InputPacket
    <3>a. PICK p : p = Message(cur)
      OBVIOUS
    <3>1. FileOf[p.ist] = cur /\ read[cur] < Len(content[cur])
      BY <2>4, <3>a, PacketFlow DEF InputPacket
    <3>2. p.ist # s
      BY <1>1, <1>2, <3>1
    <3>3. dec' = IF p.ist \in Needed
                 THEN [dec EXCEPT ![p.ist] = Append(@, p)] ELSE dec
      BY <2>4, <3>a DEF InputPacket
    <3> QED BY <1>1, <3>2, <3>3
  <2>5. CASE MainStep
    <3>1. \/ Decode \/ StreamGives \/ InputPacket \/ dec' = dec
      BY <2>5 DEF MainStep, LeaveLoop, NoneAvailable, StepCopy, StepGraph, StepFails,
         RequestGives, RequestEnds, RequestWaits, InputAgain, InputLooped, InputEof,
         Decoded, StreamEnds, EofReached, Reap, ExitProgram, flush_encoders
    <3> QED BY <2>1, <2>2, <2>3, <2>4, <3>1
  <2>6. CASE \/ UNCHANGED vars \/ (\E f \in InFiles : Arrive(f))
             \/ (\E of \in OutFiles : MuxerEnds(of)) \/ ReceiveSigterm \/ Over
    <3>1. dec' = dec
      BY <2>6 DEF vars, Arrive, MuxerEnds, ReceiveSigterm, Over
    <3> QED BY <2>1, <3>1
  <2> QED BY <2>5, <2>6 DEF Next
<1> QED BY <1>3, <1>5

(* Where the program goes: it does not come back from the end, and the     *)
(* loop ends at a signal, at a failure, or when all outputs are finished.  *)
LEMMA WhereTo ==
  ASSUME [Next]_vars
  PROVE  /\ ~Leaving(pc') => ~Leaving(pc)
         /\ pc \in {"done", "exit"} => UNCHANGED vars
         /\ pc' = "done" => pc = "done" \/ flush_encoders
         /\ pc' = "drain" => pc = "drain" \/ LeaveLoop \/ (StepFails /\ failed')
         /\ pc' # "exit" /\ pc' # "done" => pc # "done" /\ pc # "exit"
         /\ ~received_sigterm' => ~received_sigterm
         /\ ~failed' => ~failed
<1>1. CASE MainStep
  <2>1. CASE LeaveLoop
    <3>1. /\ pc = "loop" /\ pc' = "drain" /\ received_sigterm' = received_sigterm
          /\ failed' = failed
      BY <2>1 DEF LeaveLoop, flagVars
    <3> QED BY <2>1, <3>1 DEF Leaving
  <2>2. CASE StepFails
    <3>1. /\ pc \in {"loop", "request"} /\ pc' = "drain" /\ failed' = TRUE
          /\ received_sigterm' = received_sigterm
      BY <2>2 DEF StepFails, Looping, flagVars
    <3> QED BY <2>2, <3>1 DEF Leaving
  <2>3. CASE flush_encoders
    <3>1. /\ pc = "drain" /\ pc' = "done" /\ failed' = failed
          /\ received_sigterm' = received_sigterm
      BY <2>3 DEF flush_encoders, flagVars
    <3> QED BY <2>3, <3>1 DEF Leaving
  <2>4. CASE \/ NoneAvailable \/ StepCopy \/ StepGraph \/ RequestGives \/ RequestEnds
             \/ RequestWaits \/ InputAgain \/ InputPacket \/ InputLooped \/ InputEof
             \/ Decode \/ Decoded \/ StreamGives \/ StreamEnds \/ EofReached \/ Reap
             \/ ExitProgram
    <3>1. CASE \/ NoneAvailable \/ StepCopy \/ StepGraph \/ RequestGives
               \/ RequestEnds \/ RequestWaits \/ InputAgain \/ InputPacket
      <4>1. ASSUME NoneAvailable \/ StepCopy \/ StepGraph
            PROVE  /\ pc = "loop" /\ pc' \in {"loop", "input", "request"}
                   /\ received_sigterm' = received_sigterm /\ failed' = failed
        <5>1. CASE NoneAvailable
          BY <5>1 DEF NoneAvailable, Looping, flagVars, stepVars
        <5>2. CASE StepCopy
          BY <5>2 DEF StepCopy, flagVars, Looping
        <5>3. CASE StepGraph
          <6>1. /\ Looping
                /\ pc' \in {"request", "input"} \/ pc' = pc
                /\ UNCHANGED flagVars /\ failed' = failed
            BY <5>3 DEF StepGraph
          <6> QED BY <6>1 DEF Looping, flagVars
        <5> QED BY <4>1, <5>1, <5>2, <5>3
      <4>2. ASSUME RequestGives \/ RequestEnds \/ RequestWaits \/ InputAgain
                     \/ InputPacket
            PROVE  /\ pc \in {"request", "input"}
                   /\ pc' \in {"loop", "input", "reap", "decode"}
                   /\ received_sigterm' = received_sigterm /\ failed' = failed
        BY <4>2 DEF RequestGives, RequestEnds, RequestWaits, InputAgain,
           InputPacket, flagVars
      <4> QED BY <3>1, <4>1, <4>2 DEF Leaving
    <3>2. CASE \/ InputLooped \/ InputEof \/ Decode \/ Decoded \/ StreamGives
               \/ StreamEnds \/ EofReached \/ Reap \/ ExitProgram
      <4>1. /\ received_sigterm' = received_sigterm /\ failed' = failed
            /\ pc \in {"input", "decode", "flush", "eof", "drain", "reap"} \/ ExitProgram
            /\ \/ pc' \in {"flush", "eof", "reap", "loop", "exit"} /\ pc # "done"
               \/ pc' = pc
        BY <3>2 DEF InputLooped, InputEof, Decode, Decoded, StreamGives, StreamEnds,
           EofReached, Reap, ExitProgram, HasFrame, flagVars, stepVars
      <4>2. ExitProgram => pc \in {"decode", "flush", "eof", "drain"} /\ pc' = "exit"
        BY DEF ExitProgram, HasFrame
      <4>3. pc = "drain" => pc' \in {"drain", "exit"}
        BY <3>2 DEF InputLooped, InputEof, Decode, Decoded, StreamGives, StreamEnds,
           EofReached, Reap, ExitProgram
      <4> QED BY <4>1, <4>2, <4>3 DEF Leaving
    <3> QED BY <2>4, <3>1, <3>2
  <2> QED BY <1>1, <2>1, <2>2, <2>3, <2>4 DEF MainStep
<1>2. CASE \E f \in InFiles : Arrive(f)
  BY <1>2 DEF Arrive, flagVars, stepVars, Leaving
<1>3. CASE \E of \in OutFiles : MuxerEnds(of)
  BY <1>3 DEF MuxerEnds, stepVars, Leaving
<1>4. CASE ReceiveSigterm
  BY <1>4 DEF ReceiveSigterm, stepVars, Leaving
<1>5. CASE UNCHANGED vars \/ Over
  <2>1. UNCHANGED vars
    BY <1>5 DEF Over
  <2>2. pc' = pc /\ received_sigterm' = received_sigterm /\ failed' = failed
    BY <2>1 DEF vars, flagVars, stepVars
  <2> QED BY <2>1, <2>2
<1> QED BY <1>1, <1>2, <1>3, <1>4, <1>5 DEF Next

(* What the graphs are known to be like stays true.                        *)
LEMMA GraphKept ==
  ASSUME IInv, GraphInv, TypeOK', [Next]_vars
  PROVE  GraphInv'
<1>1. content' = content /\ TypeOK
  BY Constant DEF IInv
<1>2. ASSUME NEW g \in Graphs PROVE EofInv(g)'
  <2> SUFFICES ASSUME NEW s \in graph'[g].eof, ~Leaving(pc')
               PROVE  read'[FileOf[s]] = Len(content[FileOf[s]]) /\ dec'[s] = <<>>
    BY <1>1 DEF EofInv
  <2>1. ~Leaving(pc)
    BY WhereTo
  <2>2. s \in Ists
    <3>1. graph'[g].eof \subseteq Inputs[g]
      BY DEF TypeOK, GraphType
    <3> QED BY <3>1, Sets
  <2>3. read[FileOf[s]] = Len(content[FileOf[s]]) /\ dec[s] = <<>>
    <3>1. CASE s \in graph[g].eof
      BY <2>1, <3>1 DEF GraphInv, EofInv
    <3>2. CASE s \notin graph[g].eof
      <4>1. /\ pc \in {"eof", "drain"} /\ todo # {} /\ dec[Min(todo)] = <<>>
            /\ s = Min(todo)
        BY <3>2, EofGrows
      <4>2. pc = "eof"
        BY <2>1, <4>1 DEF Leaving
      <4>3. s \in todo
        BY <4>1, NextIs
      <4> QED BY <4>1, <4>2, <4>3 DEF IInv, PlaceInv
    <3> QED BY <3>1, <3>2
  <2> QED BY <2>2, <2>3, StaysEmpty
<1>3. ASSUME NEW g \in Graphs
      PROVE  /\ Queued(g, graph'[g])
             /\ ~graph'[g].up => \A o \in OutsOf(g) : sink'[o] = <<>>
  <2>1. CASE flush_encoders
    BY <2>1 DEF flush_encoders, GraphInv
  <2>2. CASE ~flush_encoders
    <3>1. PICK m : Hands(g, m) /\ \A o \in OutsOf(g) : Served(o, m)
      BY <2>2, AllHandOn DEF HandsOn
    <3>2. Queued(g, graph'[g])
      BY <3>1 DEF Hands
    <3>3. ASSUME ~graph'[g].up, NEW o \in OutsOf(g) PROVE sink'[o] = <<>>
      <4>1. ~graph[g].up /\ m = <<>>
        BY <3>1, <3>3 DEF Hands
      <4>2. sink[o] = <<>>
        BY <4>1 DEF GraphInv
      <4>3. <<>> \o <<>> = <<>>
        BY ConcatEmptySeq, EmptySeq
      <4> QED BY <3>1, <4>1, <4>2, <4>3 DEF Served
    <3> QED BY <3>2, <3>3
  <2> QED BY <2>1, <2>2
<1>4. ASSUME NEW g \in Graphs
      PROVE  Queued(g, graph[g])' <=> Queued(g, graph'[g])
  BY DEF Queued
<1> QED BY <1>2, <1>3, <1>4 DEF GraphInv, OutsOf

-----------------------------------------------------------------------------
(* A graph that has lost frames has lost them.                             *)
LEMMA LossyGrows ==
  ASSUME IInv, [Next]_vars
  PROVE  lossy \subseteq lossy'
<1>1. CASE Decode
  <2>1. PICK s \in Needed : TakeFrame(s)
    BY <1>1 DEF Decode
  <2>2. s \in Ists /\ content' = content
    BY Constant, GraphAssumption DEF Needed
  <2> QED BY <2>1, <2>2, TakesFrame
<1>2. CASE StreamGives
  <2>1. TakeFrame(Min(todo)) /\ content' = content /\ Min(todo) \in Ists
    BY <1>2, NextIs, Constant DEF StreamGives
  <2> QED BY <2>1, TakesFrame
<1>3. CASE MainStep
  <2>1. \/ Decode \/ StreamGives \/ lossy' = lossy
    BY <1>3 DEF MainStep, LeaveLoop, NoneAvailable, StepCopy, StepGraph, StepFails,
       RequestGives, RequestEnds, RequestWaits, InputAgain, InputPacket, InputLooped,
       InputEof, Decoded, StreamEnds, EofReached, Reap, ExitProgram, flush_encoders
  <2> QED BY <1>1, <1>2, <2>1
<1>4. CASE \/ UNCHANGED vars \/ (\E f \in InFiles : Arrive(f))
           \/ (\E of \in OutFiles : MuxerEnds(of)) \/ ReceiveSigterm \/ Over
  <2>1. lossy' = lossy
    BY <1>4 DEF vars, Arrive, MuxerEnds, ReceiveSigterm, Over
  <2> QED BY <2>1
<1> QED BY <1>3, <1>4 DEF Next

(* What an output should give does not change.                             *)
LEMMA ExpectedStays ==
  ASSUME content' = content, recording_time' = recording_time
  PROVE  /\ \A s : Holds(s)' = Holds(s) /\ (InOrder(s)' <=> InOrder(s))
         /\ \A o, s : Expected(o, s)' = Expected(o, s)
<1>1. ASSUME NEW s PROVE Holds(s)' = Holds(s)
  BY DEF Holds
<1>2. ASSUME NEW s PROVE InOrder(s)' <=> InOrder(s)
  BY DEF InOrder, Holds
<1>3. ASSUME NEW o, NEW s PROVE Expected(o, s)' = Expected(o, s)
  BY DEF Expected, Holds, InTime
<1> QED BY <1>1, <1>2, <1>3

(* The flush of a finished encoder outputs what it holds, and an end, ...  *)
LEMMA FlushedGives ==
  ASSUME IInv, NEW o \in Encoded, pc # "done", ost[o].finished # {},
         OutFile[o] \notin muxer_ended
  PROVE  Flushed(o).out = ost[o].out \o Append(ost[o].enc, End)
<1>1. /\ o \in Outs /\ Good(o, ost[o]) /\ ~HasEnd(ost[o].out)
  BY Sets DEF IInv, OstInv, EndInv
<1>2. ost[o].initialized /\ "mux" \notin ost[o].finished /\ ost[o] \in OstType
  BY <1>1 DEF Good
<1> DEFINE q == of_output_packet(o, ost[o], Append(ost[o].enc, End))
<1>3. q.out = ost[o].out \o Append(ost[o].enc, End)
  BY <1>2 DEF of_output_packet, OstType
<1>4. Flushed(o) = [q EXCEPT !.initialized = TRUE, !.enc = <<>>]
  BY <1>2 DEF Flushed
<1>5. \E r \in OstType : \E b, f : q = [r EXCEPT !.out = b, !.finished = f]
  BY <1>2 DEF of_output_packet
<1> HIDE DEF q
<1> QED BY <1>3, <1>4, <1>5 DEF OstType

(* ... which is no packet of any stream.                                   *)
LEMMA FlushedOfIst ==
  ASSUME content \in Contents, NEW a \in Seq(Frames \cup {End}),
         NEW b \in Seq(Frames), NEW s
  PROVE  OfIst(s, a \o Append(b, End)) = OfIst(s, a \o b)
<1>1. b \in Seq(Frames \cup {End}) /\ End \in Frames \cup {End}
  BY Wider
<1> DEFINE S == Frames \cup {End}
<1>2. a \o Append(b, End) = Append(a \o b, End) /\ a \o b \in Seq(S)
  <2> HIDE DEF S
  <2>1. a \in Seq(S) /\ b \in Seq(S) /\ End \in S
    BY <1>1 DEF S
  <2> QED BY <2>1, ConcatAppend, ConcatProperties
<1> DEFINE c == a \o b
           K == {p \in Packet : p.ist = s}
<1>3. c \in Seq(S) /\ End \in S /\ End \notin K
  BY <1>1, <1>2, FramesPackets
<1> HIDE DEF c, K, S
<1>4. Only(K, Append(c, End)) = Only(K, c)
  BY <1>3, OnlyAppend
<1> QED BY <1>2, <1>4 DEF OfIst, c, K

(* What a finished output has got stays all that it may get when it is     *)
(* flushed.                                                                *)
LEMMA FlowFlushed ==
  ASSUME IInv, FlowInv, LeftInv, TypeOK', [Next]_vars, flush_encoders,
         NEW o \in Encoded
  PROVE  RunsOn(o)' /\ HasAll(o)'
<1>1. /\ pc = "drain" /\ pc' = "done" /\ ost'[o] = Flushed(o)
      /\ received_sigterm' = received_sigterm /\ failed' = failed /\ lossy' = lossy
      /\ content' = content /\ recording_time' = recording_time
      /\ muxer_ended' = muxer_ended /\ content \in Contents
  BY Sets DEF flush_encoders, flagVars, inVars, IInv, TypeOK
<1>2. RunsOn(o)'
  BY <1>1 DEF RunsOn
<1>3. HasAll(o)'
  <2> SUFFICES ASSUME OutFile[o] \notin muxer_ended, GraphOf[o] \notin lossy,
                      Ordered(o), ~received_sigterm, ~failed
               PROVE  GivesAll(o, ost[o].out)'
    BY <1>1, ExpectedStays DEF HasAll, Ordered
  <2>1. ost[o].finished # {}
    BY <1>1, Sets DEF LeftInv, Unfinished
  <2>2. GivesAll(o, Coded(o))
    BY <1>1, <2>1 DEF FlowInv, HasAll
  <2>3. ost'[o].out = ost[o].out \o Append(ost[o].enc, End)
    BY <1>1, <2>1, FlushedGives
  <2>4. ost[o].out \in Seq(Frames \cup {End}) /\ ost[o].enc \in Seq(Frames)
    BY Sets DEF IInv, TypeOK, OstType
  <2>5. \A s : OfIst(s, ost'[o].out) = OfIst(s, Coded(o))
    BY <1>1, <2>3, <2>4, FlushedOfIst DEF Coded
  <2>6. \A s : Expected(o, s)' = Expected(o, s)
    BY <1>1, ExpectedStays
  <2> QED BY <2>2, <2>5, <2>6 DEF GivesAll
<1> QED BY <1>2, <1>3

(* The frames keep flowing.                                                *)
LEMMA FlowKept ==
  ASSUME IInv, GraphInv, FlowInv, LeftInv, TypeOK', [Next]_vars
  PROVE  FlowInv'
<1> SUFFICES ASSUME NEW o \in Encoded PROVE RunsOn(o)' /\ HasAll(o)'
  BY DEF FlowInv
<1>1. RunsOn(o) /\ HasAll(o)
  BY DEF FlowInv
<1>2. /\ content' = content /\ recording_time' = recording_time
      /\ muxer_ended \subseteq muxer_ended' /\ lossy \subseteq lossy'
  BY Constant, LossyGrows
<1>3. CASE pc \in {"done", "exit"}
  <2>1. UNCHANGED vars
    BY <1>3, WhereTo
  <2>2. /\ UNCHANGED <<ost, lossy, pc, muxer_ended, received_sigterm, failed>>
    BY <2>1 DEF vars, flagVars, stepVars
  <2>3. RunsOn(o)'
    BY <1>3, <2>2 DEF RunsOn
  <2>4. HasAll(o)'
    <3>1. Ordered(o)' <=> Ordered(o)
      BY <1>2, ExpectedStays DEF Ordered
    <3>2. GivesAll(o, ost[o].out)' <=> GivesAll(o, ost[o].out)
      BY <1>2, <2>2, ExpectedStays DEF GivesAll
    <3> QED BY <1>1, <1>3, <2>2, <3>1, <3>2 DEF HasAll
  <2> QED BY <2>3, <2>4
<1>4. CASE flush_encoders
  BY <1>4, FlowFlushed
<1>5. CASE pc' = "exit"
  BY <1>5 DEF RunsOn, HasAll
<1>6. CASE pc \notin {"done", "exit"} /\ ~flush_encoders /\ pc' # "exit"
  <2>1. pc' \notin {"done", "exit"}
    BY <1>6, WhereTo
  <2>2. HandsOn
    BY <1>6, AllHandOn
  <2>3. GraphOf[o] \in Graphs /\ o \in OutsOf(GraphOf[o])
    BY Sets DEF OutsOf
  <2>4. PICK m : Hands(GraphOf[o], m) /\ Served(o, m)
    BY <2>2, <2>3 DEF HandsOn
  <2> QED BY <1>1, <1>2, <1>6, <2>1, <2>4, FlowAfter
<1> QED BY <1>3, <1>4, <1>5, <1>6

-----------------------------------------------------------------------------
(* The copies.  What is no flag of record r is the same in q.              *)
SameCopy(r, q) == q.out = r.out /\ q.finished = r.finished /\ q.last = r.last

(* A copy is not touched by the graphs: a step leaves it alone, gives it   *)
(* the packet that was read, or tells it the end of its stream.            *)
CopiedBy(o) ==
  \/ SameCopy(ost[o], ost'[o])
  \/ /\ InputPacket /\ Message(cur).ist = Source[o]
     /\ SameCopy(do_streamcopy(o, ost[o], Message(cur)), ost'[o])
  \/ /\ StreamGives \/ StreamEnds
     /\ pc \in {"eof", "drain"} /\ todo # {} /\ Source[o] = Min(todo)
     /\ SameCopy(of_output_packet(o, ost[o], <<End>>), ost'[o])

(* Flags of a copy.                                                        *)
LEMMA CopyFlags ==
  ASSUME TypeOK, NEW o \in Copies, NEW x, NEW b,
         \/ ost' = ost
         \/ ost' = [ost EXCEPT ![x].unavailable = b]
         \/ ost' = [ost EXCEPT ![x].inputs_done = b]
         \/ ost' = [ost EXCEPT ![x].initialized = b]
  PROVE  SameCopy(ost[o], ost'[o])
<1>1. o \in Outs /\ ost \in [Outs -> OstType] /\ ost[o] \in OstType
  BY Sets DEF TypeOK
<1>2. \/ ost'[o] = ost[o]
      \/ ost'[o] = [ost[o] EXCEPT !.unavailable = b]
      \/ ost'[o] = [ost[o] EXCEPT !.inputs_done = b]
      \/ ost'[o] = [ost[o] EXCEPT !.initialized = b]
  BY <1>1
<1> QED BY <1>1, <1>2 DEF SameCopy, OstType

(* A copy has no end before the last packet of its file is read.           *)
LEMMA CopyBefore ==
  ASSUME IInv, InputPacket, NEW o \in Copies, Source[o] = Message(cur).ist
  PROVE  /\ ~HasEnd(ost[o].out) /\ Message(cur) \in Frames
         /\ FileOf[Source[o]] = cur /\ read[cur] < Len(content[cur])
<1>1. Message(cur) \in Frames /\ FileOf[Message(cur).ist] = cur
  BY PacketFlow
<1>2. pc = "input" /\ read[cur] < Len(content[cur]) /\ cur \in InFiles
  BY DEF InputPacket, IInv, PlaceInv
<1>3. read[cur] \in Nat /\ Len(content[cur]) \in Nat
  BY <1>2, ContentIs DEF IInv, TypeOK
<1>4. ~HasEnd(ost[o].out)
  BY <1>1, <1>2, <1>3 DEF IInv, EndInv
<1> QED BY <1>1, <1>2, <1>4

(* Each frame that is taken out of a decoder, or found to be none, ...     *)
LEMMA CopyFrames ==
  ASSUME IInv, NEW s \in Ists, TakeFrame(s), NEW o \in Copies
  PROVE  \/ SameCopy(ost[o], ost'[o]) /\ ost'[o] = ost[o]
         \/ /\ pc \in {"eof", "drain"} /\ Source[o] = s
            /\ ost'[o] = of_output_packet(o, ost[o], <<End>>)
<1>a. PICK p : p = Head(dec[s])
  OBVIOUS
<1>b. PICK r : r = IF Configures(p) # {} THEN reap_filters(TRUE) ELSE ost
  OBVIOUS
<1>1. p.ist = s
  BY <1>a, FrameTaken DEF TakeFrame
<1>2. o \in Outs /\ r[o] = ost[o]
  <2>1. o \in Outs
    BY Sets
  <2>2. reap_filters(TRUE)[o] = ost[o]
    BY <2>1 DEF reap_filters, Reaped
  <2> QED BY <1>b, <2>1, <2>2
<1>3. ost' = IF pc \in {"eof", "drain"} THEN EndCopies(p.ist, r) ELSE r
  BY <1>a, <1>b DEF TakeFrame, send_frame_to_filters
<1>4. EndCopies(s, r)[o] = IF Source[o] = s THEN of_output_packet(o, ost[o], <<End>>)
                           ELSE ost[o]
  BY <1>2 DEF EndCopies
<1> QED BY <1>1, <1>2, <1>3, <1>4 DEF SameCopy

(* ... and every other step.                                               *)
LEMMA CopySteps ==
  ASSUME IInv, [Next]_vars, NEW o \in Copies
  PROVE  CopiedBy(o)
<1>0. TypeOK /\ o \in Outs /\ o \notin Encoded /\ ost[o] \in OstType
      /\ \A flush : Reaped(o, flush) = ost[o]
  BY Sets DEF IInv, TypeOK, Reaped
<1> USE DEF CopiedBy
<1>1. CASE NoneAvailable
  <2>1. ost'[o] = [ost[o] EXCEPT !.unavailable = FALSE]
    BY <1>0, <1>1 DEF NoneAvailable, Available
  <2> QED BY <1>0, <2>1 DEF SameCopy, OstType
<1>2. CASE StepGraph
  <2>1. \E b : \/ ost' = ost
               \/ ost' = [ost EXCEPT ![choose_output].inputs_done = b]
               \/ ost' = [ost EXCEPT ![choose_output].initialized = b]
    BY <1>2 DEF StepGraph
  <2> QED BY <1>0, <2>1, CopyFlags
<1>3. CASE RequestEnds
  <2>1. ost'[o] = ost[o]
    BY <1>0, <1>3 DEF RequestEnds, OutsOf, reap_filters
  <2> QED BY <2>1 DEF SameCopy
<1>4. CASE RequestWaits
  <2>1. ost' = ost \/ \E b : ost'[o] = [ost[o] EXCEPT !.unavailable = b]
    BY <1>0, <1>4 DEF RequestWaits
  <2> QED BY <1>0, <2>1 DEF SameCopy, OstType
<1>5. CASE InputAgain \/ Decoded \/ EofReached
  <2>1. \E b : ost' = [ost EXCEPT ![chosen].unavailable = b]
    BY <1>5 DEF InputAgain, Decoded, EofReached
  <2> QED BY <1>0, <2>1, CopyFlags
<1>6. CASE InputPacket
  <2>a. PICK p : p = Message(cur)
    OBVIOUS
  <2>b. PICK r : r = IF Source[o] = p.ist THEN do_streamcopy(o, ost[o], p) ELSE ost[o]
    OBVIOUS
  <2>1. ost'[o] = [r EXCEPT !.unavailable = FALSE]
    BY <1>0, <1>6, <2>a, <2>b DEF InputPacket, Available
  <2>2. r \in OstType
    <3>1. CASE Source[o] # p.ist
      BY <1>0, <2>b, <3>1
    <3>2. CASE Source[o] = p.ist
      <4>1. ~HasEnd(ost[o].out) /\ p \in Frames
        BY <1>6, <2>a, <3>2, CopyBefore
      <4>2. Good(o, do_streamcopy(o, ost[o], p))
        BY <1>0, <4>1, CopyIsQuiet DEF IInv, TypeOK, Quiet, Grows
      <4> QED BY <2>b, <3>2, <4>2 DEF Good
    <3> QED BY <3>1, <3>2
  <2>3. SameCopy(r, ost'[o])
    BY <2>1, <2>2 DEF SameCopy, OstType
  <2> QED BY <1>6, <2>3, <2>a, <2>b
<1>7. CASE Decode
  <2>1. PICK s \in Ists : TakeFrame(s) /\ pc \in {"decode", "flush"}
    BY <1>7, GraphAssumption DEF Decode, Needed
  <2> QED BY <2>1, CopyFrames
<1>8. CASE StreamGives
  <2>1. TakeFrame(Min(todo)) /\ Min(todo) \in Ists /\ todo # {}
    BY <1>8, NextIs DEF StreamGives
  <2>2. SameCopy(of_output_packet(o, ost[o], <<End>>), of_output_packet(o, ost[o], <<End>>))
    BY DEF SameCopy
  <2> QED BY <1>8, <2>1, <2>2, CopyFrames
<1>9. CASE StreamEnds
  <2>1. todo # {} /\ pc \in {"eof", "drain"} /\ ost' = EndCopies(Min(todo), ost)
    BY <1>9 DEF StreamEnds
  <2>2. ost'[o] = IF Source[o] = Min(todo) THEN of_output_packet(o, ost[o], <<End>>)
                  ELSE ost[o]
    BY <1>0, <2>1 DEF EndCopies
  <2> QED BY <1>9, <2>1, <2>2 DEF SameCopy
<1>10. CASE Reap \/ flush_encoders
  <2>1. Reap => ost'[o] = ost[o]
    BY <1>0 DEF Reap, reap_filters
  <2>2. flush_encoders => ost'[o] = ost[o]
    BY <1>0 DEF flush_encoders
  <2> QED BY <1>10, <2>1, <2>2 DEF SameCopy
<1>11. CASE MainStep
  <2>1. CASE LeaveLoop \/ StepCopy \/ StepFails \/ RequestGives \/ InputLooped
               \/ InputEof \/ ExitProgram
    <3>1. ost' = ost
      BY <2>1 DEF LeaveLoop, StepCopy, StepFails, RequestGives, InputLooped, InputEof,
         ExitProgram
    <3> QED BY <3>1 DEF SameCopy
  <2> QED BY <1>1, <1>2, <1>3, <1>4, <1>5, <1>6, <1>7, <1>8, <1>9, <1>10, <1>11, <2>1
         DEF MainStep
<1>12. CASE \/ UNCHANGED vars \/ (\E f \in InFiles : Arrive(f))
            \/ (\E of \in OutFiles : MuxerEnds(of)) \/ ReceiveSigterm \/ Over
  <2>1. ost' = ost
    BY <1>12 DEF vars, Arrive, MuxerEnds, ReceiveSigterm, Over
  <2> QED BY <2>1 DEF SameCopy
<1> QED BY <1>11, <1>12 DEF Next

(* What is finished stays so.                                              *)
LEMMA PacketFinishes ==
  ASSUME NEW o, NEW r \in OstType, NEW seq
  PROVE  r.finished \subseteq of_output_packet(o, r, seq).finished
BY DEF of_output_packet, OstType

(* do_streamcopy does not reopen a stream, ...                             *)
LEMMA CopyFinishes ==
  ASSUME NEW o, NEW r \in OstType, NEW p \in Frames, content \in Contents
  PROVE  r.finished \subseteq do_streamcopy(o, r, p).finished
<1>1. [r EXCEPT !.last = p.pts] \in OstType
  BY FramesAre DEF OstType
<1>2. [r EXCEPT !.last = p.pts].finished = r.finished
  BY DEF OstType
<1>3. r.finished \subseteq
        of_output_packet(o, [r EXCEPT !.last = p.pts], <<p>>).finished
  BY <1>1, <1>2, PacketFinishes
<1>4. r.finished \subseteq [r EXCEPT !.finished = @ \cup {"enc"}].finished
  BY DEF OstType
<1> QED BY <1>3, <1>4 DEF do_streamcopy

(* ... flush_encoders neither, ...                                         *)
LEMMA FlushFinishes ==
  ASSUME TypeOK, NEW o \in Encoded, ost[o].initialized
  PROVE  ost[o].finished \subseteq Flushed(o).finished
<1>1. ost[o] \in OstType
  BY Sets DEF TypeOK
<1> DEFINE q == of_output_packet(o, ost[o], Append(ost[o].enc, End))
<1>2. Flushed(o) = [q EXCEPT !.initialized = TRUE, !.enc = <<>>]
  BY DEF Flushed
<1>3. ost[o].finished \subseteq q.finished
  BY <1>1, PacketFinishes
<1>4. \/ q = ost[o]
      \/ \E t \in OstType : \E f, u : q = [t EXCEPT !.out = u, !.finished = f]
  <2>1. CASE "mux" \in ost[o].finished
    BY <2>1 DEF of_output_packet
  <2>2. CASE "mux" \notin ost[o].finished
    BY <1>1, <2>2 DEF of_output_packet
  <2> QED BY <2>1, <2>2
<1> HIDE DEF q
<1>5. [q EXCEPT !.initialized = TRUE, !.enc = <<>>].finished = q.finished
  BY <1>1, <1>4 DEF OstType
<1> QED BY <1>2, <1>3, <1>5

(* ... and no step does.                                                   *)
LEMMA FinishedStays ==
  ASSUME IInv, GraphInv, TypeOK', [Next]_vars, NEW o \in Outs, ost[o].finished # {}
  PROVE  ost'[o].finished # {}
<1>1. ost[o] \in OstType /\ Good(o, ost[o]) /\ TypeOK /\ content \in Contents
  BY DEF IInv, OstInv, TypeOK
<1>2. CASE o \in Copies
  <2>1. CopiedBy(o)
    BY <1>2, CopySteps
  <2>2. CASE SameCopy(ost[o], ost'[o])
    BY <2>2 DEF SameCopy
  <2>3. CASE /\ InputPacket
             /\ SameCopy(do_streamcopy(o, ost[o], Message(cur)), ost'[o])
    <3>1. Message(cur) \in Frames
      BY <2>3, PacketFlow
    <3> QED BY <1>1, <2>3, <3>1, CopyFinishes DEF SameCopy
  <2>4. CASE SameCopy(of_output_packet(o, ost[o], <<End>>), ost'[o])
    BY <1>1, <2>4, PacketFinishes DEF SameCopy
  <2> QED BY <2>1, <2>2, <2>3, <2>4 DEF CopiedBy
<1>3. CASE o \in Encoded /\ flush_encoders
  <2>1. ost'[o] = Flushed(o)
    BY <1>3 DEF flush_encoders
  <2>2. ost[o].initialized
    BY <1>1 DEF Good
  <2> QED BY <1>1, <1>3, <2>1, <2>2, FlushFinishes
<1>4. CASE o \in Encoded /\ ~flush_encoders
  <2>1. GraphOf[o] \in Graphs /\ o \in OutsOf(GraphOf[o])
    BY <1>4, Sets DEF OutsOf
  <2>2. PICK m : Served(o, m)
    BY <1>4, <2>1, AllHandOn DEF HandsOn
  <2>3. CASE SameCoded(o)
    BY <2>3 DEF SameCoded
  <2>4. CASE Encodes(o)
    <3>1. PICK flush \in BOOLEAN :
             \/ ost'[o].finished = Reaped(o, flush).finished
             \/ ost'[o].finished = Reaped(o, flush).finished \cup {"enc"}
      BY <2>4 DEF Encodes
    <3>2. Reaped(o, flush).finished = ost[o].finished
      BY <1>4, ReapedEncodes
    <3> QED BY <3>1, <3>2
  <2> QED BY <2>2, <2>3, <2>4 DEF Served
<1> QED BY <1>2, <1>3, <1>4, Sets

(* The loop that was left by itself leaves nothing unfinished.             *)
LEMMA LeftKept ==
  ASSUME IInv, GraphInv, LeftInv, TypeOK', [Next]_vars
  PROVE  LeftInv'
<1> SUFFICES ASSUME pc' \in {"drain", "done"}, ~received_sigterm', ~failed'
             PROVE  \A o \in Outs : ost'[o].finished # {}
  BY DEF LeftInv, Unfinished
<1>1. ~received_sigterm /\ ~failed
  BY WhereTo
<1>2. CASE pc \in {"drain", "done"}
  <2>1. \A o \in Outs : ost[o].finished # {}
    BY <1>1, <1>2 DEF LeftInv, Unfinished
  <2> QED BY <2>1, FinishedStays
<1>3. CASE pc \notin {"drain", "done"}
  <2>1. LeaveLoop \/ flush_encoders
    BY <1>3, WhereTo
  <2>2. CASE LeaveLoop
    BY <1>1, <2>2 DEF LeaveLoop, Unfinished
  <2>3. CASE flush_encoders
    BY <1>3, <2>3 DEF flush_encoders
  <2> QED BY <2>1, <2>2, <2>3
<1> QED BY <1>2, <1>3

(* What was read of a stream: more by the packet that was read.            *)
ReadOf(s) == OfIst(s, SubSeq(content[FileOf[s]], 1, read[FileOf[s]]))

(* A step reads one packet of the stream, or none.                         *)
LEMMA ReadMore ==
  ASSUME IInv, [Next]_vars, NEW s \in Ists
  PROVE  \/ /\ ReadOf(s)' = ReadOf(s) /\ read'[FileOf[s]] >= read[FileOf[s]]
            /\ ~(InputPacket /\ Message(cur).ist = s)
         \/ /\ InputPacket /\ Message(cur).ist = s
            /\ ReadOf(s)' = Append(ReadOf(s), Message(cur))
<1>1. /\ content' = content /\ content \in Contents /\ FileOf[s] \in InFiles
      /\ read \in [InFiles -> Nat]
  BY Constant, Sets DEF IInv, TypeOK
<1>2. CASE read' = read
  <2>1. ReadOf(s)' = ReadOf(s)
    BY <1>1, <1>2 DEF ReadOf
  <2>2. ~InputPacket
    <3> SUFFICES ASSUME InputPacket PROVE FALSE
      OBVIOUS
    <3>1. cur \in InFiles /\ read' = [read EXCEPT ![cur] = @ + 1]
      BY DEF InputPacket, IInv, PlaceInv
    <3> QED BY <1>1, <1>2, <3>1
  <2> QED BY <1>1, <1>2, <2>1, <2>2
<1>3. CASE InputPacket \/ InputLooped
  <2>a. PICK f : f = FileOf[s]
    OBVIOUS
  <2>b. PICK c : c = content[f]
    OBVIOUS
  <2>c. PICK n : n = read[f]
    OBVIOUS
  <2>1. /\ cur \in InFiles /\ read[cur] < Len(content[cur])
        /\ read' = [read EXCEPT ![cur] = @ + 1]
    BY <1>3 DEF InputPacket, InputLooped, IInv, PlaceInv
  <2>2. InputPacket => Message(cur) \in Frames /\ FileOf[Message(cur).ist] = cur
    BY PacketFlow
  <2>3. CASE cur # f
    <3>1. ReadOf(s)' = ReadOf(s) /\ read'[f] = read[f]
      <4>1. read'[FileOf[s]] = read[FileOf[s]]
        BY <1>1, <2>1, <2>3, <2>a
      <4> QED BY <1>1, <2>a, <4>1 DEF ReadOf
    <3> QED BY <1>1, <2>2, <2>3, <2>a, <3>1
  <2>4. CASE cur = f
    <3>1. /\ n \in Nat /\ read'[f] = n + 1 /\ f \in InFiles
          /\ c \in Seq(Frames \cup {Mark}) /\ Len(c) \in Nat /\ n < Len(c)
      BY <1>1, <2>1, <2>4, <2>a, <2>b, <2>c, ContentIs
    <3> DEFINE a == SubSeq(c, 1, n)
               x == c[n + 1]
               S == Frames \cup {Mark}
    <3>2. a \in Seq(S) /\ x \in S /\ SubSeq(c, 1, n + 1) = Append(a, x)
      <4> HIDE DEF S
      <4>0. c \in Seq(S) /\ n \in 0 .. Len(c) /\ n + 1 \in 0 .. Len(c)
        BY <3>1 DEF S
      <4>1. a \in Seq(S) /\ Len(a) = n /\ SubSeq(c, 1, n + 1) \in Seq(S)
            /\ Len(SubSeq(c, 1, n + 1)) = n + 1
        BY <4>0, CutOff
      <4>2. x \in S
        BY <3>1, <4>0, ElementOfSeq
      <4>3. \A i \in 1 .. n + 1 : SubSeq(c, 1, n + 1)[i] = c[i]
        BY <4>0, Prefix
      <4>4. \A i \in 1 .. n : a[i] = c[i]
        BY <4>0, Prefix
      <4> HIDE DEF a, x
      <4>5. /\ Append(a, x) \in Seq(S) /\ Len(Append(a, x)) = n + 1
            /\ \A i \in 1 .. n : Append(a, x)[i] = a[i]
            /\ Append(a, x)[n + 1] = x
        BY <3>1, <4>1, <4>2, AppendProperties
      <4>6. \A i \in 1 .. n + 1 : i \in 1 .. n \/ i = n + 1
        BY <3>1
      <4>7. \A i \in 1 .. n + 1 : SubSeq(c, 1, n + 1)[i] = Append(a, x)[i]
        <5>1. n + 1 \in 1 .. n + 1
          BY <3>1
        <5> QED BY <4>3, <4>4, <4>5, <4>6, <5>1 DEF x
      <4> QED BY <4>1, <4>2, <4>5, <4>7, SeqEqual
    <3> DEFINE K == {p \in Packet : p.ist = s}
    <3>3. Only(K, Append(a, x)) = IF x \in K THEN Append(Only(K, a), x) ELSE Only(K, a)
      <4>1. a \in Seq(S) /\ x \in S
        BY <3>2
      <4> HIDE DEF K, S, a, x
      <4> QED BY <4>1, OnlyAppend
    <3>4. x = Message(cur)
      BY <2>4, <2>a, <2>b, <2>c DEF Message
    <3>5. ReadOf(s) = Only(K, a)
      BY <2>a, <2>b, <2>c DEF ReadOf, OfIst
    <3>6. ReadOf(s)' = Only(K, Append(a, x))
      <4>1. ReadOf(s)' = OfIst(s, SubSeq(content'[FileOf[s]], 1, read'[FileOf[s]]))
        BY DEF ReadOf
      <4>2. content'[FileOf[s]] = c /\ read'[FileOf[s]] = n + 1
        BY <1>1, <3>1, <2>a, <2>b
      <4> QED BY <3>2, <4>1, <4>2 DEF OfIst
    <3>7. CASE InputPacket
      <4>1. x \in Packet
        BY <1>1, <2>2, <3>4, <3>7, FramesPackets
      <4>2. x \in K <=> x.ist = s
        BY <4>1
      <4>3. read'[FileOf[s]] >= read[FileOf[s]]
        BY <2>a, <2>c, <3>1
      <4> HIDE DEF K, a, x
      <4>4. Message(cur).ist = s => ReadOf(s)' = Append(ReadOf(s), Message(cur))
        BY <3>3, <3>4, <3>5, <3>6, <4>2
      <4>5. Message(cur).ist # s => ReadOf(s)' = ReadOf(s)
        BY <3>3, <3>4, <3>5, <3>6, <4>2
      <4> QED BY <3>7, <4>3, <4>4, <4>5
    <3>8. CASE InputLooped
      <4>1. x = Mark
        BY <3>4, <3>8 DEF InputLooped
      <4>2. x \notin K
        BY <1>1, <4>1, FramesPackets
      <4>3. ~InputPacket
        BY <3>8 DEF InputLooped, InputPacket
      <4>4. read'[FileOf[s]] >= read[FileOf[s]]
        BY <2>a, <2>c, <3>1
      <4> HIDE DEF K, a, x
      <4>5. ReadOf(s)' = ReadOf(s)
        BY <3>3, <3>5, <3>6, <4>2
      <4> QED BY <4>3, <4>4, <4>5
    <3> QED BY <1>3, <3>7, <3>8
  <2> QED BY <2>3, <2>4
<1>4. CASE MainStep
  <2>1. InputPacket \/ InputLooped \/ read' = read
    BY <1>4 DEF MainStep, LeaveLoop, NoneAvailable, StepCopy, StepGraph, StepFails,
       RequestGives, RequestEnds, RequestWaits, InputAgain, InputEof, Decode,
       Decoded, StreamGives, StreamEnds, EofReached, Reap, ExitProgram,
       flush_encoders, inVars
  <2> QED BY <1>2, <1>3, <2>1
<1>5. CASE \/ UNCHANGED vars \/ (\E f \in InFiles : Arrive(f))
           \/ (\E of \in OutFiles : MuxerEnds(of)) \/ ReceiveSigterm \/ Over
  <2>1. read' = read
    BY <1>5 DEF vars, inVars, Arrive, MuxerEnds, ReceiveSigterm, Over
  <2> QED BY <1>2, <2>1
<1> QED BY <1>4, <1>5 DEF Next

-----------------------------------------------------------------------------
(* At the start everything is ahead.                                       *)
LEMMA FlowStarts ==
  ASSUME Init, IInv
  PROVE  GraphInv /\ FlowInv /\ LeftInv
<1>1. /\ pc = "loop" /\ content \in Contents
      /\ \A s \in Ists : dec[s] = <<>> /\ read[FileOf[s]] = 0 /\ FileOf[s] \in InFiles
  BY Sets DEF Init
<1>2. /\ \A o \in Encoded : sink[o] = <<>>
      /\ \A o \in Outs : ost[o].finished = {} /\ ost[o].out = <<>> /\ ost[o].enc = <<>>
  BY DEF Init
<1>3. ASSUME NEW g \in Graphs
      PROVE  /\ ~graph[g].up /\ graph[g].eof = {}
             /\ \A s \in Inputs[g] : graph[g].held[s] = <<>>
                                       /\ graph[g].frame_queue[s] = <<>>
  BY DEF Init
<1>4. DOMAIN <<>> = {}
  OBVIOUS
<1>5. GraphInv
  <2> SUFFICES ASSUME NEW g \in Graphs
               PROVE  /\ Queued(g, graph[g]) /\ EofInv(g)
                      /\ \A o \in OutsOf(g) : sink[o] = <<>>
    BY DEF GraphInv
  <2>1. Queued(g, graph[g])
    BY <1>3, <1>4 DEF Queued
  <2> QED BY <1>2, <1>3, <2>1 DEF EofInv, OutsOf
<1>6. LeftInv
  BY <1>1 DEF LeftInv
<1>7. ASSUME NEW o \in Encoded PROVE RunsOn(o) /\ HasAll(o)
  <2>1. /\ o \in Outs /\ GraphOf[o] \in Graphs /\ Inputs[GraphOf[o]] \subseteq Ists
        /\ <<>> \o <<>> = <<>>
    BY Sets, ConcatEmptySeq, EmptySeq
  <2>2. Coded(o) = <<>> /\ sink[o] = <<>> /\ Coded(o) \o sink[o] = <<>>
    BY <1>2, <2>1 DEF Coded
  <2>3. AllInTime(o, Coded(o))
    BY <1>4, <2>2 DEF AllInTime
  <2>4. Order(o)
    BY <2>2, NothingRises DEF Order
  <2>5. ASSUME NEW s \in Inputs[GraphOf[o]]
        PROVE  OfIst(s, Coded(o) \o sink[o]) \o Ahead(GraphOf[o], s) = Holds(s)
    <3>a. PICK c : c = content[FileOf[s]]
      OBVIOUS
    <3>1. /\ s \in Ists /\ c \in Seq(Frames \cup {Mark}) /\ Len(c) \in Nat
          /\ c = SubSeq(c, 1, Len(c))
      <4>1. s \in Ists /\ c \in Seq(Frames \cup {Mark}) /\ Len(c) \in Nat
        BY <1>1, <2>1, <3>a, ContentIs
      <4> DEFINE S == Frames \cup {Mark}
      <4>2. SubSeq(c, 1, Len(c)) = c
        <5>1. c \in Seq(S)
          BY <4>1
        <5> HIDE DEF S
        <5> QED BY <5>1
      <4> QED BY <4>1, <4>2
    <3>2. Unread(s) = Holds(s)
      <4>1. read[FileOf[s]] + 1 = 1
        BY <1>1, <3>1
      <4>2. SubSeq(content[FileOf[s]], read[FileOf[s]] + 1, Len(content[FileOf[s]])) = c
        BY <3>1, <3>a, <4>1
      <4> QED BY <3>a, <4>2 DEF Unread, Holds
    <3>3. Holds(s) \in Seq(Frames)
      <4>1. 0 \in Nat /\ 0 <= Len(content[FileOf[s]])
        BY <3>1, <3>a
      <4> QED BY <1>1, <3>1, <4>1, UnreadIs
    <3>4. <<>> \o Holds(s) = Holds(s)
      BY <3>3, ConcatEmptySeq
    <3>5. Ahead(GraphOf[o], s) = <<>> \o (<<>> \o (<<>> \o Unread(s)))
      BY <1>1, <1>3, <2>1, <3>1 DEF Ahead
    <3>6. OfIst(s, Coded(o) \o sink[o]) = <<>>
      BY <2>2, OfIstEmpty
    <3> QED BY <3>2, <3>4, <3>5, <3>6
  <2>6. Chain(o)
    BY <2>5 DEF Chain
  <2>7. ost[o].finished = {}
    BY <1>2, <2>1
  <2> QED BY <2>3, <2>4, <2>6, <2>7 DEF RunsOn, HasAll
<1>8. FlowInv
  BY <1>7 DEF FlowInv
<1> QED BY <1>5, <1>6, <1>8

(* All that is known of the flow.                                          *)
FlowIInv == IInv /\ GraphInv /\ FlowInv /\ LeftInv

(* Always.                                                                 *)
LEMMA FlowInvariant == Spec => []FlowIInv
<1>1. Init => FlowIInv
  BY Starts, FlowStarts DEF FlowIInv
<1>2. FlowIInv /\ [Next]_vars => FlowIInv'
  <2> SUFFICES ASSUME IInv, GraphInv, FlowInv, LeftInv, [Next]_vars
               PROVE  IInv' /\ GraphInv' /\ FlowInv' /\ LeftInv'
    BY DEF FlowIInv
  <2>1. IInv' /\ TypeOK'
    BY IInvKept DEF IInv
  <2>2. GraphInv'
    BY <2>1, GraphKept
  <2>3. FlowInv'
    BY <2>1, FlowKept
  <2>4. LeftInv'
    BY <2>1, LeftKept
  <2> QED BY <2>1, <2>2, <2>3, <2>4
<1> QED BY <1>1, <1>2, PTL DEF Spec

(* What was read and what is unread are what the file holds.               *)
LEMMA ReadIs ==
  ASSUME TypeOK, NEW s \in Ists
  PROVE  /\ ReadOf(s) \in Seq(Frames) /\ Unread(s) \in Seq(Frames)
         /\ Holds(s) \in Seq(Frames) /\ ReadOf(s) \o Unread(s) = Holds(s)
         /\ read[FileOf[s]] = Len(content[FileOf[s]]) => Unread(s) = <<>>
<1>1. /\ content \in Contents /\ read[FileOf[s]] \in Nat
      /\ read[FileOf[s]] <= Len(content[FileOf[s]])
  BY Sets DEF TypeOK
<1> QED BY <1>1, UnreadIs DEF ReadOf, Unread

(* Read packets of an input of a filter graph reach the output of the      *)
(* graph, all of them and in order: send_frame_to_filters,                 *)
(* configure_filtergraph, transcode_from_filter and reap_filters hand them *)
(* on without loss, until the output is finished or the graph is replaced  *)
(* while frames are inside.                                                *)
THEOREM FramesAreNotLost == Spec => []NothingLost
<1>1. FlowIInv => NothingLost
  <2> SUFFICES ASSUME FlowIInv, NEW o \in Encoded, ost[o].finished = {},
                      GraphOf[o] \notin lossy, pc \notin {"done", "exit"},
                      NEW s \in Inputs[GraphOf[o]]
               PROVE  OfIst(s, ost[o].out \o ost[o].enc \o sink[o])
                        \o graph[GraphOf[o]].held[s]
                        \o graph[GraphOf[o]].frame_queue[s] \o dec[s]
                      = ReadOf(s)
    BY DEF NothingLost, ReadOf
  <2> DEFINE g == GraphOf[o]
             x == OfIst(s, Coded(o) \o sink[o])
             h == graph[g].held[s]
             f == graph[g].frame_queue[s]
             d == dec[s]
             u == Unread(s)
             r == ReadOf(s)
  <2>1. /\ TypeOK /\ g \in Graphs /\ s \in Ists /\ content \in Contents
        /\ Coded(o) \in Seq(Frames \cup {End}) /\ sink[o] \in Seq(Frames)
    BY Sets, CodedTypes DEF FlowIInv, IInv, TypeOK
  <2>2. x \in Seq(Frames)
    <3>1. sink[o] \in Seq(Frames \cup {End})
      BY <2>1, Wider
    <3>2. Coded(o) \o sink[o] \in Seq(Frames \cup {End})
      BY <2>1, <3>1, ConcatProperties
    <3> QED BY <2>1, <3>2, OfIstTimes
  <2>3. h \in Seq(Frames) /\ f \in Seq(Frames) /\ d \in Seq(Frames)
    BY <2>1 DEF TypeOK, GraphType
  <2>4. u \in Seq(Frames) /\ r \in Seq(Frames) /\ r \o u = Holds(s)
    BY <2>1, ReadIs
  <2>5. x \o (h \o (f \o (d \o u))) = Holds(s)
    <3>1. Chain(o)
      BY DEF FlowIInv, FlowInv, RunsOn
    <3> QED BY <3>1 DEF Chain, Ahead
  <2> HIDE DEF g, x, h, f, d, u, r
  <2>6. x \o (h \o (f \o (d \o u))) = (((x \o h) \o f) \o d) \o u
    <3>1. \A p, q, t \in Seq(Frames) : (p \o q) \o t = p \o (q \o t)
      BY Regrouped, Zenon
    <3> DEFINE y == x \o h
               z == y \o f
               w == d \o u
               v == f \o w
    <3>2. y \in Seq(Frames) /\ w \in Seq(Frames)
      BY <2>2, <2>3, <2>4, ConcatProperties
    <3>3. x \o (h \o v) = y \o v
      <4>1. v \in Seq(Frames)
        <5> HIDE DEF w
        <5> QED BY <2>3, <3>2, ConcatProperties
      <4> HIDE DEF v
      <4> QED BY <2>2, <2>3, <3>1, <4>1, Zenon
    <3>4. y \o v = z \o w
      <4> HIDE DEF y, w
      <4> QED BY <2>3, <3>1, <3>2, ZenonT(60)
    <3>5. z \o w = (z \o d) \o u
      <4>1. z \in Seq(Frames)
        <5> HIDE DEF y
        <5> QED BY <2>3, <3>2, ConcatProperties
      <4> HIDE DEF z
      <4> QED BY <2>3, <2>4, <3>1, <4>1, Zenon
    <3> QED BY <3>3, <3>4, <3>5, Zenon
  <2>7. ((x \o h) \o f) \o d \in Seq(Frames)
    BY <2>2, <2>3, ConcatProperties
  <2>8. (((x \o h) \o f) \o d) \o u = r \o u
    BY <2>4, <2>5, <2>6
  <2>9. ((x \o h) \o f) \o d = r
    BY <2>4, <2>7, <2>8, ConcatSimplifications, Zenon
  <2> QED BY <2>9 DEF x, h, f, d, r, g, Coded
<1> QED BY <1>1, FlowInvariant, PTL

-----------------------------------------------------------------------------
(* The keyframes of a sequence, and what comes from the first of them on.  *)
KeysOf(q) == {i \in DOMAIN q : q[i].key}
Keyed(q) == IF KeysOf(q) = {} THEN <<>> ELSE SubSeq(q, Min(KeysOf(q)), Len(q))

(* The first keyframe.                                                     *)
LEMMA FirstKey ==
  ASSUME NEW S, NEW q \in Seq(S), KeysOf(q) # {}
  PROVE  /\ Min(KeysOf(q)) \in 1 .. Len(q) /\ q[Min(KeysOf(q))].key
         /\ \A i \in KeysOf(q) : Min(KeysOf(q)) <= i
<1>1. DOMAIN q = 1 .. Len(q) /\ Len(q) \in Nat
  BY LenProperties
<1>2. KeysOf(q) \subseteq Nat
  BY <1>1 DEF KeysOf
<1>3. Min(KeysOf(q)) \in KeysOf(q) /\ \A i \in KeysOf(q) : Min(KeysOf(q)) <= i
  BY <1>2, MinIs
<1>4. \A i \in KeysOf(q) : i \in 1 .. Len(q) /\ q[i].key
  BY <1>1 DEF KeysOf
<1> QED BY <1>3, <1>4

(* What comes from a place on.                                             *)
LEMMA FromPlace ==
  ASSUME NEW S, NEW q \in Seq(S), NEW k \in 1 .. Len(q)
  PROVE  /\ SubSeq(q, k, Len(q)) \in Seq(S)
         /\ Len(SubSeq(q, k, Len(q))) = Len(q) - k + 1
         /\ \A i \in 1 .. Len(q) - k + 1 :
              SubSeq(q, k, Len(q))[i] = q[k + i - 1] /\ k + i - 1 \in 1 .. Len(q)
<1>a. PICK n : n = k - 1
  OBVIOUS
<1>1. n \in 0 .. Len(q) /\ n + 1 = k /\ Len(q) - n = Len(q) - k + 1 /\ Len(q) \in Nat
  BY <1>a, LenProperties
<1>2. /\ SubSeq(q, n + 1, Len(q)) \in Seq(S)
      /\ Len(SubSeq(q, n + 1, Len(q))) = Len(q) - n
      /\ \A i \in 1 .. Len(q) - n : SubSeq(q, n + 1, Len(q))[i] = q[n + i]
  BY <1>1, CutOff
<1>3. \A i \in 1 .. Len(q) - k + 1 : n + i = k + i - 1 /\ k + i - 1 \in 1 .. Len(q)
  BY <1>1
<1> QED BY <1>1, <1>2, <1>3

(* It is part of the sequence.                                             *)
LEMMA KeyedType ==
  ASSUME NEW S, NEW q \in Seq(S)
  PROVE  /\ Keyed(q) \in Seq(S)
         /\ \A i \in DOMAIN Keyed(q) : \E j \in DOMAIN q : Keyed(q)[i] = q[j]
<1>1. CASE KeysOf(q) = {}
  <2>1. Keyed(q) = <<>> /\ <<>> \in Seq(S) /\ DOMAIN <<>> = {}
    BY <1>1, EmptySeq DEF Keyed
  <2> QED BY <2>1
<1>2. CASE KeysOf(q) # {}
  <2>1. PICK k \in 1 .. Len(q) : k = Min(KeysOf(q))
    BY <1>2, FirstKey
  <2>2. Keyed(q) = SubSeq(q, k, Len(q))
    BY <1>2, <2>1 DEF Keyed
  <2>3. /\ Keyed(q) \in Seq(S) /\ Len(Keyed(q)) = Len(q) - k + 1
        /\ \A i \in 1 .. Len(q) - k + 1 :
             Keyed(q)[i] = q[k + i - 1] /\ k + i - 1 \in 1 .. Len(q)
    BY <2>2, FromPlace
  <2>4. DOMAIN Keyed(q) = 1 .. Len(q) - k + 1 /\ DOMAIN q = 1 .. Len(q)
    BY <2>3, LenProperties
  <2> QED BY <2>3, <2>4
<1> QED BY <1>1, <1>2

(* The keyframes of two sequences, one after the other, ...                *)
LEMMA KeysConcat ==
  ASSUME NEW S, NEW q \in Seq(S), NEW t \in Seq(S)
  PROVE  /\ \A i \in 1 .. Len(q) : i \in KeysOf(q \o t) <=> i \in KeysOf(q)
         /\ \A j \in 1 .. Len(t) : Len(q) + j \in KeysOf(q \o t) <=> j \in KeysOf(t)
         /\ \A i \in KeysOf(q \o t) :
              i \in 1 .. Len(q) \/ \E j \in 1 .. Len(t) : i = Len(q) + j
         /\ KeysOf(q) \subseteq 1 .. Len(q) /\ KeysOf(t) \subseteq 1 .. Len(t)
         /\ KeysOf(q \o t) = {} <=> KeysOf(q) = {} /\ KeysOf(t) = {}
<1> DEFINE c == q \o t
<1>1. /\ DOMAIN q = 1 .. Len(q) /\ DOMAIN t = 1 .. Len(t)
      /\ \A i \in 1 .. Len(q) : i \in DOMAIN c /\ c[i] = q[i]
      /\ \A j \in 1 .. Len(t) : Len(q) + j \in DOMAIN c /\ c[Len(q) + j] = t[j]
      /\ \A i \in DOMAIN c : i \in 1 .. Len(q) \/ \E j \in 1 .. Len(t) : i = Len(q) + j
  BY ConcatElements
<1> HIDE DEF c
<1>2. /\ \A i \in 1 .. Len(q) : i \in KeysOf(c) <=> i \in KeysOf(q)
      /\ \A j \in 1 .. Len(t) : Len(q) + j \in KeysOf(c) <=> j \in KeysOf(t)
      /\ \A i \in KeysOf(c) : i \in 1 .. Len(q) \/ \E j \in 1 .. Len(t) : i = Len(q) + j
      /\ KeysOf(q) \subseteq 1 .. Len(q) /\ KeysOf(t) \subseteq 1 .. Len(t)
  BY <1>1 DEF KeysOf
<1>3. KeysOf(c) = {} <=> KeysOf(q) = {} /\ KeysOf(t) = {}
  BY <1>2
<1> QED BY <1>2, <1>3 DEF c

(* ... and what comes from the first of them on.                           *)
LEMMA KeyedConcat ==
  ASSUME NEW S, NEW q \in Seq(S), NEW t \in Seq(S)
  PROVE  Keyed(q \o t) = IF KeysOf(q) = {} THEN Keyed(t) ELSE Keyed(q) \o t
<1>a. PICK c : c = q \o t
  OBVIOUS
<1>b. PICK n : n = Len(q)
  OBVIOUS
<1>c. PICK m : m = Len(t)
  OBVIOUS
<1>1. c \in Seq(S) /\ n \in Nat /\ m \in Nat /\ Len(c) = n + m
  BY <1>a, <1>b, <1>c, ConcatProperties, LenProperties
<1>2. /\ \A i \in 1 .. n : i \in KeysOf(c) <=> i \in KeysOf(q)
      /\ \A j \in 1 .. m : n + j \in KeysOf(c) <=> j \in KeysOf(t)
      /\ \A i \in KeysOf(c) : i \in 1 .. n \/ \E j \in 1 .. m : i = n + j
      /\ KeysOf(q) \subseteq 1 .. n /\ KeysOf(t) \subseteq 1 .. m
      /\ KeysOf(c) = {} <=> KeysOf(q) = {} /\ KeysOf(t) = {}
  <2>1. /\ \A i \in 1 .. Len(q) : i \in KeysOf(q \o t) <=> i \in KeysOf(q)
        /\ \A j \in 1 .. Len(t) : Len(q) + j \in KeysOf(q \o t) <=> j \in KeysOf(t)
        /\ \A i \in KeysOf(q \o t) :
             i \in 1 .. Len(q) \/ \E j \in 1 .. Len(t) : i = Len(q) + j
        /\ KeysOf(q) \subseteq 1 .. Len(q) /\ KeysOf(t) \subseteq 1 .. Len(t)
        /\ KeysOf(q \o t) = {} <=> KeysOf(q) = {} /\ KeysOf(t) = {}
    BY KeysConcat
  <2> QED BY <1>a, <1>b, <1>c, <2>1
<1>3. /\ \A i \in 1 .. n : c[i] = q[i]
      /\ \A j \in 1 .. m : c[n + j] = t[j]
  BY <1>a, <1>b, <1>c, ConcatElements
<1>4. CASE KeysOf(q) # {}
  <2>1. PICK k \in 1 .. n : k = Min(KeysOf(q))
    BY <1>4, <1>b, FirstKey
  <2>2. KeysOf(c) # {}
    BY <1>2, <1>4
  <2>3. PICK l \in 1 .. n + m : l = Min(KeysOf(c))
    BY <1>1, <2>2, FirstKey
  <2>4. l = k
    <3>1. k \in KeysOf(q) /\ \A i \in KeysOf(q) : k <= i
      BY <1>2, <1>4, <2>1, FirstKey, MinIs
    <3>2. l \in KeysOf(c) /\ \A i \in KeysOf(c) : l <= i
      <4>1. KeysOf(c) \subseteq Nat
        BY <1>1, <1>2
      <4> QED BY <2>2, <2>3, <4>1, MinIs
    <3>3. l <= k
      BY <1>2, <3>1, <3>2
    <3>4. l \in 1 .. n
      BY <1>1, <2>1, <2>3, <3>3
    <3>5. k <= l
      BY <1>2, <3>1, <3>2, <3>4
    <3> QED BY <1>1, <3>3, <3>5
  <2>5. Keyed(c) = SubSeq(c, k, Len(c)) /\ Keyed(q) = SubSeq(q, k, Len(q))
    BY <1>4, <2>1, <2>2, <2>3, <2>4 DEF Keyed
  <2>6. /\ Keyed(c) \in Seq(S) /\ Len(Keyed(c)) = n + m - k + 1
        /\ \A i \in 1 .. n + m - k + 1 : Keyed(c)[i] = c[k + i - 1]
    <3>1. k \in 1 .. Len(c) /\ Len(c) - k + 1 = n + m - k + 1
      BY <1>1
    <3>2. /\ SubSeq(c, k, Len(c)) \in Seq(S)
          /\ Len(SubSeq(c, k, Len(c))) = Len(c) - k + 1
          /\ \A i \in 1 .. Len(c) - k + 1 : SubSeq(c, k, Len(c))[i] = c[k + i - 1]
      BY <1>1, <3>1, FromPlace
    <3> QED BY <2>5, <3>1, <3>2
  <2>7. /\ Keyed(q) \in Seq(S) /\ Len(Keyed(q)) = n - k + 1
        /\ \A i \in 1 .. n - k + 1 : Keyed(q)[i] = q[k + i - 1]
    <3>1. k \in 1 .. Len(q)
      BY <1>b
    <3> QED BY <1>b, <2>5, <3>1, FromPlace
  <2> DEFINE a == Keyed(q)
             b == Keyed(c)
  <2> HIDE DEF a, b
  <2>8. /\ a \o t \in Seq(S) /\ Len(a \o t) = n - k + 1 + m
        /\ \A i \in 1 .. n - k + 1 : (a \o t)[i] = a[i]
        /\ \A j \in 1 .. m : (a \o t)[n - k + 1 + j] = t[j]
    <3>1. a \in Seq(S) /\ Len(a) = n - k + 1
      BY <2>7 DEF a
    <3>2. a \o t \in Seq(S) /\ Len(a \o t) = Len(a) + Len(t)
      BY <3>1, ConcatProperties
    <3>3. /\ \A i \in 1 .. Len(a) : (a \o t)[i] = a[i]
          /\ \A j \in 1 .. Len(t) : (a \o t)[Len(a) + j] = t[j]
      <4>1. a \in Seq(S)
        BY <3>1
      <4> QED BY <4>1, ConcatElements
    <3> QED BY <1>c, <3>1, <3>2, <3>3
  <2>9. \A i \in 1 .. n + m - k + 1 : b[i] = (a \o t)[i]
    <3> SUFFICES ASSUME NEW i \in 1 .. n + m - k + 1 PROVE b[i] = (a \o t)[i]
      OBVIOUS
    <3>1. b[i] = c[k + i - 1]
      BY <2>6 DEF b
    <3>2. CASE i \in 1 .. n - k + 1
      <4>1. k + i - 1 \in 1 .. n
        BY <1>1, <3>2
      <4>2. (a \o t)[i] = q[k + i - 1]
        BY <2>7, <2>8, <3>2 DEF a
      <4> QED BY <1>3, <3>1, <4>1, <4>2
    <3>3. CASE i \notin 1 .. n - k + 1
      <4>1. PICK j : j = i - (n - k + 1)
        OBVIOUS
      <4>2. j \in 1 .. m /\ i = n - k + 1 + j /\ k + i - 1 = n + j
        BY <1>1, <3>3, <4>1
      <4>3. (a \o t)[i] = t[j]
        BY <2>8, <4>2
      <4>4. c[k + i - 1] = t[j]
        BY <1>3, <4>2
      <4> QED BY <3>1, <4>3, <4>4
    <3> QED BY <3>2, <3>3
  <2>10. b = a \o t
    <3>1. b \in Seq(S) /\ Len(b) = n + m - k + 1
      BY <2>6 DEF b
    <3>2. n - k + 1 + m = n + m - k + 1
      BY <1>1
    <3> QED BY <2>8, <2>9, <3>1, <3>2, SeqEqual
  <2> QED BY <1>4, <1>a, <2>10 DEF a, b
<1>5. CASE KeysOf(q) = {} /\ KeysOf(t) = {}
  BY <1>2, <1>5, <1>a DEF Keyed
<1>6. CASE KeysOf(q) = {} /\ KeysOf(t) # {}
  <2>1. PICK k \in 1 .. m : k = Min(KeysOf(t))
    BY <1>6, <1>c, FirstKey
  <2>2. KeysOf(c) # {}
    BY <1>2, <1>6
  <2>3. PICK l \in 1 .. n + m : l = Min(KeysOf(c))
    BY <1>1, <2>2, FirstKey
  <2>4. l = n + k
    <3>1. k \in KeysOf(t) /\ \A i \in KeysOf(t) : k <= i
      <4>1. KeysOf(t) \subseteq Nat
        BY <1>1, <1>2
      <4> QED BY <1>6, <2>1, <4>1, MinIs
    <3>2. l \in KeysOf(c) /\ \A i \in KeysOf(c) : l <= i
      <4>1. KeysOf(c) \subseteq Nat
        BY <1>1, <1>2
      <4> QED BY <2>2, <2>3, <4>1, MinIs
    <3>3. l <= n + k
      BY <1>2, <3>1, <3>2
    <3>4. PICK j \in 1 .. m : l = n + j
      BY <1>2, <1>6, <3>2
    <3>5. k <= j
      BY <1>2, <3>1, <3>2, <3>4
    <3> QED BY <1>1, <3>3, <3>4, <3>5
  <2>5. Keyed(c) = SubSeq(c, n + k, Len(c)) /\ Keyed(t) = SubSeq(t, k, Len(t))
    BY <1>6, <2>1, <2>2, <2>3, <2>4 DEF Keyed
  <2>6. /\ Keyed(c) \in Seq(S) /\ Len(Keyed(c)) = m - k + 1
        /\ \A i \in 1 .. m - k + 1 : Keyed(c)[i] = c[n + k + i - 1]
    <3>1. n + k \in 1 .. Len(c) /\ Len(c) - (n + k) + 1 = m - k + 1
      BY <1>1
    <3> QED BY <1>1, <2>5, <3>1, FromPlace
  <2>7. /\ Keyed(t) \in Seq(S) /\ Len(Keyed(t)) = m - k + 1
        /\ \A i \in 1 .. m - k + 1 : Keyed(t)[i] = t[k + i - 1]
    <3>1. k \in 1 .. Len(t)
      BY <1>c
    <3> QED BY <1>c, <2>5, <3>1, FromPlace
  <2>8. \A i \in 1 .. m - k + 1 : k + i - 1 \in 1 .. m /\ n + k + i - 1 = n + (k + i - 1)
    BY <1>1
  <2>9. \A i \in 1 .. m - k + 1 : Keyed(c)[i] = Keyed(t)[i]
    BY <1>3, <2>6, <2>7, <2>8
  <2>10. Keyed(c) = Keyed(t)
    BY <2>6, <2>7, <2>9, SeqEqual
  <2> QED BY <1>6, <1>a, <2>10
<1> QED BY <1>4, <1>5, <1>6

-----------------------------------------------------------------------------
(* What a copy has got of what was read, q: all from the first keyframe    *)
(* on, as long as that is in time.                                         *)
CopiedOn(o, r, q) ==
  /\ "enc" \in r.finished =>
       /\ Data(r.out) = Expected(o, Source[o])
       /\ \E i \in DOMAIN q : ~InTime(o, q[i])
  /\ "enc" \notin r.finished =>
       /\ Data(r.out) = Keyed(q) /\ AllInTime(o, Keyed(q))
       /\ r.last = NoPts <=> KeysOf(q) = {}

(* It is finished when a packet is late, or when all packets are read.     *)
CopyEnds(o) ==
  ost[o].finished # {} /\ ~received_sigterm /\ ~failed =>
    \/ "enc" \in ost[o].finished
    \/ read[FileOf[Source[o]]] = Len(content[FileOf[Source[o]]])

(* The copies whose muxer lives, of streams that are in order.             *)
CopyInv ==
  \A o \in Copies :
    OutFile[o] \notin muxer_ended /\ InOrder(Source[o]) =>
      CopiedOn(o, ost[o], ReadOf(Source[o])) /\ CopyEnds(o)

(* What a copy should have in the end.                                     *)
LEMMA ExpectedIs ==
  ASSUME NEW o \in Copies
  PROVE  Expected(o, Source[o])
           = Only({p \in Packet : InTime(o, p)}, Keyed(Holds(Source[o])))
<1>1. o \notin Encoded
  BY Sets
<1> QED BY <1>1 DEF Expected, Keyed, KeysOf

(* Behind a packet that is late all are late, if they are in order.        *)
LEMMA LateFrom ==
  ASSUME content \in Contents, recording_time \in Limits, NEW o \in Outs,
         NEW q \in Seq(Frames), Rising(q), NEW i \in DOMAIN q, ~InTime(o, q[i]),
         NEW j \in DOMAIN q, i <= j
  PROVE  ~InTime(o, q[j])
<1>1. q[i] \in Frames /\ q[j] \in Frames
  BY LenProperties, ElementOfSeq
<1>2. q[i].pts \in Nat /\ q[j].pts \in Nat
  BY <1>1, FramesAre
<1>3. recording_time[OutFile[o]] \in Nat
  BY OutputAssumption, LimitAssumption
<1>4. q[i].pts <= q[j].pts
  BY DEF Rising
<1> QED BY <1>2, <1>3, <1>4 DEF InTime

(* So are those of a second sequence behind one of the first.              *)
LEMMA LateRest ==
  ASSUME content \in Contents, recording_time \in Limits, NEW o \in Outs,
         NEW a \in Seq(Frames), NEW b \in Seq(Frames), Rising(a \o b)
  PROVE  /\ (\E i \in DOMAIN a : ~InTime(o, a[i])) =>
              \A j \in DOMAIN b : ~InTime(o, b[j])
         /\ (b # <<>> /\ ~InTime(o, b[1])) => \A j \in DOMAIN b : ~InTime(o, b[j])
<1> DEFINE c == a \o b
<1>1. /\ c \in Seq(Frames) /\ Len(a) \in Nat /\ Len(b) \in Nat
      /\ DOMAIN a = 1 .. Len(a) /\ DOMAIN b = 1 .. Len(b)
      /\ \A i \in 1 .. Len(a) : i \in DOMAIN c /\ c[i] = a[i]
      /\ \A j \in 1 .. Len(b) : Len(a) + j \in DOMAIN c /\ c[Len(a) + j] = b[j]
  BY ConcatElements
<1>2. Rising(c)
  OBVIOUS
<1> HIDE DEF c
<1>3. ASSUME NEW i \in DOMAIN c, ~InTime(o, c[i]), NEW j \in 1 .. Len(b),
             i <= Len(a) + j
      PROVE  ~InTime(o, b[j])
  BY <1>1, <1>2, <1>3, LateFrom
<1>4. ASSUME NEW i \in DOMAIN a, ~InTime(o, a[i]), NEW j \in DOMAIN b
      PROVE  ~InTime(o, b[j])
  <2>1. i \in 1 .. Len(a) /\ j \in 1 .. Len(b) /\ i <= Len(a) + j
    BY <1>1
  <2>2. i \in DOMAIN c /\ ~InTime(o, c[i])
    BY <1>1, <1>4, <2>1
  <2> QED BY <1>3, <2>1, <2>2
<1>5. ASSUME b # <<>>, ~InTime(o, b[1]), NEW j \in DOMAIN b
      PROVE  ~InTime(o, b[j])
  <2>1. j \in 1 .. Len(b) /\ 1 \in 1 .. Len(b) /\ Len(a) + 1 <= Len(a) + j
    BY <1>1
  <2>2. Len(a) + 1 \in DOMAIN c /\ ~InTime(o, c[Len(a) + 1])
    BY <1>1, <1>5, <2>1
  <2>3. PICK k : k = Len(a) + 1
    OBVIOUS
  <2> QED BY <1>3, <2>1, <2>2, <2>3
<1> QED BY <1>4, <1>5

(* A packet more of a sequence of packets and ends.                        *)
LEMMA DataAppend ==
  ASSUME content \in Contents, NEW q \in Seq(Frames \cup {End})
  PROVE  /\ Data(q) \in Seq(Frames \cup {End})
         /\ Data(q \o <<End>>) = Data(q)
         /\ \A p \in Frames : Data(q \o <<p>>) = Append(Data(q), p)
<1> DEFINE S == Frames \cup {End}
<1>1. ASSUME NEW x \in S
      PROVE  /\ Only(Packet, q) \in Seq(S)
             /\ Only(Packet, q \o <<x>>)
                  = IF x \in Packet THEN Append(Only(Packet, q), x) ELSE Only(Packet, q)
  <2> HIDE DEF S
  <2>1. q \in Seq(S)
    BY DEF S
  <2>2. q \o <<x>> = Append(q, x)
    BY <2>1, AppendIsConcat
  <2> QED BY <2>1, <2>2, OnlyAppend, OnlyType
<1>2. End \notin Packet /\ Frames \subseteq Packet
  BY FramesPackets
<1> QED BY <1>1, <1>2 DEF Data

(* A sequence of one packet.                                               *)
LEMMA KeyedOne ==
  ASSUME NEW p \in Frames
  PROVE  /\ <<p>> \in Seq(Frames) /\ DOMAIN <<p>> = {1} /\ <<p>>[1] = p
         /\ KeysOf(<<p>>) = {} <=> ~p.key
         /\ p.key => Keyed(<<p>>) = <<p>>
         /\ ~p.key => Keyed(<<p>>) = <<>>
<1>1. <<p>> \in Seq(Frames) /\ DOMAIN <<p>> = {1} /\ <<p>>[1] = p /\ Len(<<p>>) = 1
  OBVIOUS
<1>2. KeysOf(<<p>>) = {} <=> ~p.key
  BY <1>1 DEF KeysOf
<1>3. p.key => Min(KeysOf(<<p>>)) = 1
  <2> SUFFICES ASSUME p.key PROVE Min(KeysOf(<<p>>)) = 1
    OBVIOUS
  <2>1. KeysOf(<<p>>) = {1}
    BY <1>1 DEF KeysOf
  <2> QED BY <2>1, MinIs
<1>4. SubSeq(<<p>>, 1, 1) = <<p>>
  <2> DEFINE q == <<p>>
  <2>1. q \in Seq(Frames) /\ Len(q) = 1 /\ 1 \in 0 .. Len(q)
    BY <1>1
  <2> HIDE DEF q
  <2>2. /\ SubSeq(q, 1, 1) \in Seq(Frames) /\ Len(SubSeq(q, 1, 1)) = 1
        /\ \A i \in 1 .. 1 : SubSeq(q, 1, 1)[i] = q[i]
    BY <2>1, CutOff, Prefix
  <2>3. SubSeq(q, 1, 1) = q
    BY <2>1, <2>2, SeqEqual
  <2> QED BY <2>3 DEF q
<1> QED BY <1>1, <1>2, <1>3, <1>4 DEF Keyed

(* What was read last, and what is to come.                                *)
LEMMA NextRead ==
  ASSUME TypeOK, NEW s \in Ists, read[FileOf[s]] < Len(content[FileOf[s]]),
         content[FileOf[s]][read[FileOf[s]] + 1].ist = s
  PROVE  \E V \in Seq(Frames) : Unread(s) = <<content[FileOf[s]][read[FileOf[s]] + 1]>> \o V
<1>a. PICK n : n = read[FileOf[s]]
  OBVIOUS
<1>b. PICK c : c = content[FileOf[s]]
  OBVIOUS
<1>1. /\ content \in Contents /\ FileOf[s] \in InFiles /\ n \in Nat
      /\ Len(c) \in Nat /\ n < Len(c)
  BY <1>a, <1>b, Sets, ContentIs DEF TypeOK
<1>2. n + 1 \in Nat /\ n + 1 <= Len(c) /\ n <= Len(c)
  BY <1>1
<1>3. OfIst(s, SubSeq(c, n + 1, Len(c)))
        = <<c[n + 1]>> \o OfIst(s, SubSeq(c, n + 1 + 1, Len(c)))
  BY <1>1, <1>2, <1>a, <1>b, UnreadIs
<1>4. OfIst(s, SubSeq(c, n + 1 + 1, Len(c))) \in Seq(Frames)
  <2>1. PICK k : k = n + 1
    OBVIOUS
  <2>2. OfIst(s, SubSeq(c, k + 1, Len(c))) \in Seq(Frames)
    BY <1>1, <1>2, <1>b, <2>1, UnreadIs
  <2> QED BY <2>1, <2>2
<1>5. Unread(s) = OfIst(s, SubSeq(c, n + 1, Len(c)))
  BY <1>a, <1>b DEF Unread
<1> QED BY <1>3, <1>4, <1>5, <1>a, <1>b

(* A copy that gets the packet that was read keeps what is known of it.    *)
LEMMA CopyGoesOn ==
  ASSUME IInv, NEW o \in Copies, InputPacket, Message(cur).ist = Source[o],
         OutFile[o] \notin muxer_ended, InOrder(Source[o]),
         CopiedOn(o, ost[o], ReadOf(Source[o]))
  PROVE  LET r == do_streamcopy(o, ost[o], Message(cur)) IN
         /\ CopiedOn(o, r, Append(ReadOf(Source[o]), Message(cur)))
         /\ r.finished # {} => "enc" \in r.finished
<1>a. PICK s : s = Source[o]
  OBVIOUS
<1>b. PICK p : p = Message(cur)
  OBVIOUS
<1>c. PICK x : x = ost[o]
  OBVIOUS
<1>d. PICK r : r = do_streamcopy(o, x, p)
  OBVIOUS
<1>e. PICK R : R = ReadOf(s)
  OBVIOUS
<1>1. /\ TypeOK /\ content \in Contents /\ recording_time \in Limits
      /\ o \in Outs /\ s \in Ists /\ p \in Frames /\ ~HasEnd(x.out)
      /\ x \in OstType /\ "mux" \notin x.finished
  <2>1. ~HasEnd(x.out) /\ p \in Frames
    BY <1>b, <1>c, CopyBefore
  <2>2. TypeOK /\ o \in Outs /\ s \in Ists /\ Good(o, x)
    BY <1>a, <1>c, Sets, OutputAssumption DEF IInv, OstInv
  <2> QED BY <2>1, <2>2 DEF TypeOK, Good
<1>2. p \in Packet /\ p.pts \in Nat
  BY <1>1, FramesPackets, FramesAre
<1>3. PICK V \in Seq(Frames) : Unread(s) = <<p>> \o V
  <2>1. p = content[FileOf[s]][read[FileOf[s]] + 1] /\ FileOf[s] = cur
    BY <1>a, <1>b, CopyBefore DEF Message
  <2>2. read[FileOf[s]] < Len(content[FileOf[s]]) /\ p.ist = s
    BY <1>a, <1>b, CopyBefore
  <2> QED BY <1>1, <2>1, <2>2, NextRead
<1> DEFINE W == <<p>> \o V
<1>4. /\ R \in Seq(Frames) /\ W \in Seq(Frames) /\ R \o W = Holds(s)
      /\ W # <<>> /\ W[1] = p
  <2>1. R \in Seq(Frames) /\ R \o W = Holds(s)
    BY <1>1, <1>3, <1>e, ReadIs
  <2>2. <<p>> \in Seq(Frames) /\ Len(<<p>>) = 1 /\ <<p>>[1] = p
    BY <1>1
  <2>3. W \in Seq(Frames) /\ Len(W) = 1 + Len(V) /\ Len(V) \in Nat
    BY <2>2, ConcatProperties, LenProperties
  <2>4. W[1] = <<p>>[1]
    <3>1. \A i \in 1 .. Len(<<p>>) : (<<p>> \o V)[i] = <<p>>[i]
      BY <2>2, ConcatElements
    <3> QED BY <2>2, <3>1
  <2>5. W # <<>>
    <3> HIDE DEF W
    <3> QED BY <2>3
  <2> QED BY <2>1, <2>2, <2>3, <2>4, <2>5
<1> HIDE DEF W
<1>5. Rising(R \o W)
  BY <1>4, <1>a DEF InOrder, Rising
<1>6. /\ (\E i \in DOMAIN R : ~InTime(o, R[i])) =>
           \A j \in DOMAIN W : ~InTime(o, W[j])
      /\ ~InTime(o, p) => \A j \in DOMAIN W : ~InTime(o, W[j])
  BY <1>1, <1>4, <1>5, LateRest
<1>7. 1 \in DOMAIN W
  BY <1>4, LenProperties, EmptySeq
<1>8. CopiedOn(o, x, R)
  BY <1>a, <1>c, <1>e
<1>9. /\ Append(R, p) = R \o <<p>> /\ Append(R, p) \in Seq(Frames)
      /\ DOMAIN Append(R, p) = 1 .. Len(R) + 1 /\ DOMAIN R = 1 .. Len(R)
      /\ Len(R) \in Nat /\ Append(R, p)[Len(R) + 1] = p
      /\ \A i \in 1 .. Len(R) : Append(R, p)[i] = R[i]
  BY <1>1, <1>4, AppendIsConcat, AppendProperties, LenProperties
<1>10. (\E i \in DOMAIN R : ~InTime(o, R[i])) =>
          \E i \in DOMAIN Append(R, p) : ~InTime(o, Append(R, p)[i])
  <2>1. \A i \in 1 .. Len(R) : i \in 1 .. Len(R) + 1
    BY <1>9
  <2> QED BY <1>9, <2>1
<1>11. ~InTime(o, p) => \E i \in DOMAIN Append(R, p) : ~InTime(o, Append(R, p)[i])
  <2>1. Len(R) + 1 \in 1 .. Len(R) + 1
    BY <1>9
  <2> QED BY <1>9, <2>1
<1>12. /\ <<p>> \in Seq(Frames)
       /\ KeysOf(<<p>>) = {} <=> ~p.key
       /\ p.key => Keyed(<<p>>) = <<p>>
       /\ ~p.key => Keyed(<<p>>) = <<>>
       /\ DOMAIN <<p>> = {1} /\ <<p>>[1] = p
  BY <1>1, KeyedOne
<1>13. /\ Keyed(Append(R, p)) = IF KeysOf(R) = {} THEN Keyed(<<p>>)
                                ELSE Keyed(R) \o <<p>>
       /\ KeysOf(Append(R, p)) = {} <=> KeysOf(R) = {} /\ KeysOf(<<p>>) = {}
       /\ Keyed(R) \in Seq(Frames) /\ (KeysOf(R) = {} => Keyed(R) = <<>>)
  <2> DEFINE q == <<p>>
  <2>1. q \in Seq(Frames) /\ Append(R, p) = R \o q /\ R \in Seq(Frames)
    BY <1>4, <1>9, <1>12
  <2> HIDE DEF q
  <2>2. Keyed(R \o q) = IF KeysOf(R) = {} THEN Keyed(q) ELSE Keyed(R) \o q
    BY <2>1, KeyedConcat
  <2>3. KeysOf(R \o q) = {} <=> KeysOf(R) = {} /\ KeysOf(q) = {}
    BY <2>1, KeysConcat
  <2>4. Keyed(R) \in Seq(Frames)
    BY <2>1, KeyedType
  <2>5. KeysOf(R) = {} => Keyed(R) = <<>>
    BY DEF Keyed
  <2> QED BY <2>1, <2>2, <2>3, <2>4, <2>5 DEF q
<1>14. CASE x.last = NoPts /\ ~p.key
  <2>1. r = x
    BY <1>14, <1>d DEF do_streamcopy
  <2>2. CopiedOn(o, r, Append(R, p))
    BY <1>8, <1>10, <1>12, <1>13, <1>14, <2>1 DEF CopiedOn
  <2>3. r.finished # {} => "enc" \in r.finished
    BY <1>1, <2>1 DEF OstType
  <2> QED BY <2>2, <2>3, <1>a, <1>b, <1>c, <1>d, <1>e
<1>15. CASE ~(x.last = NoPts /\ ~p.key) /\ ~InTime(o, p)
  <2>1. r = [x EXCEPT !.finished = @ \cup {"enc"}]
    BY <1>1, <1>15, <1>d DEF do_streamcopy
  <2>2. "enc" \in r.finished /\ r.out = x.out
    BY <1>1, <2>1 DEF OstType
  <2>3. Data(x.out) = Expected(o, s)
    <3>1. CASE "enc" \in x.finished
      BY <1>8, <1>a, <3>1 DEF CopiedOn
    <3>2. CASE "enc" \notin x.finished
      <4>1. Data(x.out) = Keyed(R) /\ AllInTime(o, Keyed(R))
        BY <1>8, <3>2 DEF CopiedOn
      <4>2. PICK y \in Seq(Frames) : /\ Keyed(R \o W) = Keyed(R) \o y
                                     /\ \A j \in DOMAIN y : ~InTime(o, y[j])
        <5>1. CASE KeysOf(R) = {}
          <6>1. Keyed(W) \in Seq(Frames) /\ Keyed(R \o W) = Keyed(W)
            BY <1>4, <5>1, KeyedConcat, KeyedType
          <6>2. Keyed(R) \o Keyed(W) = Keyed(W)
            BY <1>13, <5>1, <6>1, ConcatEmptySeq
          <6>3. \A j \in DOMAIN Keyed(W) : ~InTime(o, Keyed(W)[j])
            <7>1. \A j \in DOMAIN Keyed(W) : \E k \in DOMAIN W : Keyed(W)[j] = W[k]
              BY <1>4, KeyedType
            <7> QED BY <1>6, <1>15, <7>1
          <6> QED BY <6>1, <6>2, <6>3
        <5>2. CASE KeysOf(R) # {}
          <6>1. Keyed(R \o W) = Keyed(R) \o W
            BY <1>4, <5>2, KeyedConcat
          <6> QED BY <1>4, <1>6, <1>15, <6>1
        <5> QED BY <5>1, <5>2
      <4>3. Only({q \in Packet : InTime(o, q)}, Keyed(R) \o y) = Keyed(R)
        BY <1>1, <1>13, <4>1, <4>2, OnlyInTime
      <4>4. Expected(o, s) = Only({q \in Packet : InTime(o, q)}, Keyed(Holds(s)))
        BY <1>a, ExpectedIs
      <4> QED BY <1>4, <4>1, <4>2, <4>3, <4>4
    <3> QED BY <3>1, <3>2
  <2>4. CopiedOn(o, r, Append(R, p))
    BY <1>11, <1>15, <1>a, <2>2, <2>3 DEF CopiedOn
  <2> QED BY <2>2, <2>4, <1>a, <1>b, <1>c, <1>d, <1>e
<1>16. CASE ~(x.last = NoPts /\ ~p.key) /\ InTime(o, p)
  <2> DEFINE x1 == [x EXCEPT !.last = p.pts]
  <2>1. x1.out = x.out /\ x1.finished = x.finished /\ x1.last = p.pts /\ x1 \in OstType
    BY <1>1, <1>2 DEF OstType
  <2>2. r = of_output_packet(o, x1, <<p>>)
    BY <1>1, <1>16, <1>d DEF do_streamcopy
  <2> HIDE DEF x1
  <2>3. End \notin {<<p>>[i] : i \in DOMAIN <<p>>}
    BY <1>1, <1>12, FramesAre
  <2>4. r = [x1 EXCEPT !.out = @ \o <<p>>, !.finished = @]
    BY <1>1, <2>1, <2>2, <2>3 DEF of_output_packet
  <2>5. r.out = x.out \o <<p>> /\ r.finished = x.finished /\ r.last = p.pts
    BY <2>1, <2>4 DEF OstType
  <2>6. "enc" \notin x.finished
    BY <1>4, <1>6, <1>7, <1>8, <1>16 DEF CopiedOn
  <2>7. r.finished = {}
    BY <1>1, <2>5, <2>6 DEF OstType
  <2>8. /\ Data(x.out) = Keyed(R) /\ AllInTime(o, Keyed(R))
        /\ x.last = NoPts <=> KeysOf(R) = {}
    BY <1>8, <2>6 DEF CopiedOn
  <2>9. Data(r.out) = Append(Keyed(R), p)
    <3>1. x.out \in Seq(Frames \cup {End})
      BY <1>1 DEF OstType
    <3> QED BY <1>1, <2>5, <2>8, <3>1, DataAppend
  <2>10. Keyed(Append(R, p)) = Keyed(R) \o <<p>>
    <3>1. CASE KeysOf(R) = {}
      <4>1. p.key
        BY <1>16, <2>8, <3>1
      <4>2. <<>> \o <<p>> = <<p>>
        BY <1>12, ConcatEmptySeq
      <4> QED BY <1>12, <1>13, <3>1, <4>1, <4>2
    <3>2. CASE KeysOf(R) # {}
      BY <1>13, <3>2
    <3> QED BY <3>1, <3>2
  <2>11. Data(r.out) = Keyed(Append(R, p))
    <3>1. Append(Keyed(R), p) = Keyed(R) \o <<p>>
      BY <1>1, <1>13, AppendIsConcat
    <3> QED BY <2>9, <2>10, <3>1
  <2>12. AllInTime(o, Keyed(Append(R, p)))
    <3>1. AllInTime(o, <<p>>)
      BY <1>12, <1>16 DEF AllInTime
    <3>2. AllInTime(o, Keyed(R) \o <<p>>)
      <4> DEFINE q == <<p>>
                 k == Keyed(R)
      <4>1. q \in Seq(Frames) /\ k \in Seq(Frames) /\ AllInTime(o, k) /\ AllInTime(o, q)
        BY <1>12, <1>13, <2>8, <3>1
      <4> HIDE DEF q, k
      <4>2. AllInTime(o, k \o q)
        BY <4>1, ConcatInTime
      <4> QED BY <4>2 DEF q, k
    <3> QED BY <2>10, <3>2
  <2>13. r.last # NoPts /\ KeysOf(Append(R, p)) # {}
    <3>1. r.last # NoPts
      BY <1>2, <2>5 DEF NoPts
    <3>2. KeysOf(R) # {} \/ KeysOf(<<p>>) # {}
      BY <1>12, <1>16, <2>8
    <3> QED BY <1>13, <3>1, <3>2
  <2>14. CopiedOn(o, r, Append(R, p))
    BY <2>7, <2>11, <2>12, <2>13 DEF CopiedOn
  <2> QED BY <2>7, <2>14, <1>a, <1>b, <1>c, <1>d, <1>e
<1> QED BY <1>14, <1>15, <1>16

(* What is known of a copy is about what it was given only.                *)
LEMMA CopiedSame ==
  ASSUME NEW o, NEW a, NEW b, NEW q, SameCopy(a, b), CopiedOn(o, a, q)
  PROVE  CopiedOn(o, b, q)
BY DEF SameCopy, CopiedOn

(* What files hold and limits are is the same after a step.                *)
LEMMA CopiedStays ==
  ASSUME content' = content, recording_time' = recording_time,
         NEW o \in Copies, NEW r, NEW q, r = ost'[o], q = ReadOf(Source[o])',
         CopiedOn(o, r, q)
  PROVE  CopiedOn(o, ost[o], ReadOf(Source[o]))'
<1>1. Expected(o, Source[o])' = Expected(o, Source[o])
  BY ExpectedStays
<1>2. \A p : InTime(o, p)' <=> InTime(o, p)
  BY DEF InTime
<1>3. /\ "enc" \in ost'[o].finished =>
           /\ Data(ost'[o].out) = Expected(o, Source[o])'
           /\ \E i \in DOMAIN ReadOf(Source[o])' : ~InTime(o, ReadOf(Source[o])[i])'
      /\ "enc" \notin ost'[o].finished =>
           /\ Data(ost'[o].out) = Keyed(ReadOf(Source[o])')
           /\ \A i \in DOMAIN Keyed(ReadOf(Source[o])') :
                 InTime(o, Keyed(ReadOf(Source[o]))[i])'
           /\ ost'[o].last = NoPts <=> KeysOf(ReadOf(Source[o])') = {}
  <2>1. /\ "enc" \in r.finished =>
             /\ Data(r.out) = Expected(o, Source[o])
             /\ \E i \in DOMAIN q : ~InTime(o, q[i])
        /\ "enc" \notin r.finished =>
             /\ Data(r.out) = Keyed(q)
             /\ \A i \in DOMAIN Keyed(q) : InTime(o, Keyed(q)[i])
             /\ r.last = NoPts <=> KeysOf(q) = {}
    BY DEF CopiedOn, AllInTime
  <2>2. \A i : /\ InTime(o, ReadOf(Source[o])[i])' <=> InTime(o, q[i])
               /\ InTime(o, Keyed(ReadOf(Source[o]))[i])' <=> InTime(o, Keyed(q)[i])
    BY DEF InTime, Keyed, KeysOf
  <2> QED BY <1>1, <2>1, <2>2
<1> QED BY <1>3 DEF CopiedOn, AllInTime

(* The end of a stream is no packet of it.                                 *)
LEMMA CopyTold ==
  ASSUME content \in Contents, NEW o, NEW r \in OstType, NEW q,
         OutFile[o] \notin muxer_ended, CopiedOn(o, r, q)
  PROVE  /\ CopiedOn(o, of_output_packet(o, r, <<End>>), q)
         /\ "enc" \in r.finished => "enc" \in of_output_packet(o, r, <<End>>).finished
<1>a. PICK t : t = of_output_packet(o, r, <<End>>)
  OBVIOUS
<1>1. CASE "mux" \in r.finished
  BY <1>1 DEF of_output_packet
<1>2. CASE "mux" \notin r.finished
  <2>1. \E f \in {r.finished, r.finished \cup {"mux"}} :
          t = [r EXCEPT !.out = @ \o <<End>>, !.finished = f]
    BY <1>2, <1>a DEF of_output_packet
  <2>2. /\ t.out = r.out \o <<End>> /\ t.last = r.last
        /\ "enc" \in t.finished <=> "enc" \in r.finished
    BY <2>1 DEF OstType
  <2>3. Data(t.out) = Data(r.out)
    <3>1. r.out \in Seq(Frames \cup {End})
      BY DEF OstType
    <3> QED BY <2>2, <3>1, DataAppend
  <2> QED BY <1>a, <2>2, <2>3 DEF CopiedOn
<1> QED BY <1>1, <1>2

(* The copies go on.                                                       *)
LEMMA CopyKept ==
  ASSUME IInv, LeftInv, CopyInv, TypeOK', [Next]_vars
  PROVE  CopyInv'
<1>1. /\ content' = content /\ recording_time' = recording_time
      /\ muxer_ended \subseteq muxer_ended' /\ TypeOK /\ content \in Contents
  BY Constant DEF IInv, TypeOK
<1> SUFFICES ASSUME NEW o \in Copies, OutFile[o] \notin muxer_ended',
                    InOrder(Source[o])'
             PROVE  CopiedOn(o, ost[o], ReadOf(Source[o]))' /\ CopyEnds(o)'
  BY DEF CopyInv
<1>a. PICK s : s = Source[o]
  OBVIOUS
<1>b. PICK x : x = ost[o]
  OBVIOUS
<1>c. PICK y : y = ost'[o]
  OBVIOUS
<1>d. PICK q : q = ReadOf(s)
  OBVIOUS
<1>e. PICK q1 : q1 = ReadOf(s)'
  OBVIOUS
<1>2. /\ OutFile[o] \notin muxer_ended /\ InOrder(s)
      /\ s \in Ists /\ o \in Outs /\ FileOf[s] \in InFiles
  BY <1>1, <1>a, ExpectedStays, Sets, OutputAssumption
<1>3. CopiedOn(o, x, q) /\ CopyEnds(o)
  BY <1>2, <1>a, <1>b, <1>d DEF CopyInv
<1>4. x \in OstType
  BY <1>1, <1>2, <1>b DEF TypeOK
<1>5. CopiedBy(o)
  BY CopySteps
<1>6. \/ q1 = q /\ ~(InputPacket /\ Message(cur).ist = s)
      \/ InputPacket /\ Message(cur).ist = s /\ q1 = Append(q, Message(cur))
  BY <1>2, <1>d, <1>e, ReadMore
<1>7. read[FileOf[s]] = Len(content[FileOf[s]])
        => read'[FileOf[s]] = Len(content'[FileOf[s]])
  <2>1. Len(content[FileOf[s]]) \in Nat
    BY <1>1, <1>2, ContentIs
  <2>2. read \in [InFiles -> Nat]
    BY <1>1 DEF TypeOK
  <2>3. CASE read' = read
    BY <1>1, <2>3
  <2>4. CASE /\ cur \in InFiles /\ read[cur] < Len(content[cur])
             /\ read' = [read EXCEPT ![cur] = @ + 1]
    BY <1>1, <1>2, <2>1, <2>2, <2>4
  <2> QED BY <2>3, <2>4, Reads
<1>8. (~received_sigterm' => ~received_sigterm) /\ (~failed' => ~failed)
  BY WhereTo
<1>9. CASE SameCopy(x, y) /\ q1 = q
  <2>1. CopiedOn(o, y, q1)
    BY <1>3, <1>9, CopiedSame
  <2>2. CopiedOn(o, ost[o], ReadOf(Source[o]))'
    BY <1>1, <1>a, <1>c, <1>e, <2>1, CopiedStays
  <2>3. CopyEnds(o)'
    BY <1>3, <1>7, <1>8, <1>9, <1>a, <1>b, <1>c DEF CopyEnds, SameCopy
  <2> QED BY <2>2, <2>3
<1>10. CASE /\ InputPacket /\ Message(cur).ist = s /\ q1 = Append(q, Message(cur))
  <2>1. SameCopy(do_streamcopy(o, x, Message(cur)), y)
    <3>1. CASE /\ InputPacket /\ Message(cur).ist = Source[o]
               /\ SameCopy(do_streamcopy(o, ost[o], Message(cur)), ost'[o])
      BY <3>1, <1>b, <1>c
    <3>2. CASE StreamGives \/ StreamEnds
      <4>1. pc = "input" /\ pc \in {"eof", "drain"}
        BY <1>10, <3>2 DEF InputPacket, StreamGives, StreamEnds
      <4> QED BY <4>1
    <3>3. ost' = Available([p \in Outs |->
                   IF p \in Copies /\ Source[p] = Message(cur).ist
                   THEN do_streamcopy(p, ost[p], Message(cur)) ELSE ost[p]])
      BY <1>10 DEF InputPacket
    <3>4. y = [do_streamcopy(o, x, Message(cur)) EXCEPT !.unavailable = FALSE]
      BY <1>2, <1>10, <1>a, <1>b, <1>c, <3>3 DEF Available
    <3>5. do_streamcopy(o, x, Message(cur)) \in OstType
      <4>1. ~HasEnd(ost[o].out) /\ Message(cur) \in Frames
        BY <1>10, <1>a, CopyBefore
      <4>2. Good(o, do_streamcopy(o, ost[o], Message(cur)))
        BY <1>1, <1>2, <4>1, CopyIsQuiet DEF IInv, Quiet, Grows
      <4> QED BY <1>b, <4>2 DEF Good
    <3> QED BY <3>4, <3>5 DEF SameCopy, OstType
  <2>2. /\ CopiedOn(o, do_streamcopy(o, x, Message(cur)), q1)
        /\ do_streamcopy(o, x, Message(cur)).finished # {} =>
             "enc" \in do_streamcopy(o, x, Message(cur)).finished
    BY <1>2, <1>3, <1>10, <1>a, <1>b, <1>d, CopyGoesOn
  <2>3. CopiedOn(o, y, q1)
    BY <2>1, <2>2, CopiedSame
  <2>4. CopiedOn(o, ost[o], ReadOf(Source[o]))'
    BY <1>1, <1>a, <1>c, <1>e, <2>3, CopiedStays
  <2>5. CopyEnds(o)'
    BY <1>c, <2>1, <2>2 DEF CopyEnds, SameCopy
  <2> QED BY <2>4, <2>5
<1>11. CASE /\ StreamGives \/ StreamEnds
            /\ pc \in {"eof", "drain"} /\ todo # {} /\ s = Min(todo)
            /\ SameCopy(of_output_packet(o, x, <<End>>), y) /\ q1 = q
  <2>1. /\ CopiedOn(o, of_output_packet(o, x, <<End>>), q)
        /\ "enc" \in x.finished => "enc" \in of_output_packet(o, x, <<End>>).finished
    BY <1>1, <1>2, <1>3, <1>4, CopyTold
  <2>2. CopiedOn(o, y, q1)
    BY <1>11, <2>1, CopiedSame
  <2>3. CopiedOn(o, ost[o], ReadOf(Source[o]))'
    BY <1>1, <1>a, <1>c, <1>e, <2>2, CopiedStays
  <2>4. CopyEnds(o)'
    <3> SUFFICES ASSUME ~received_sigterm', ~failed'
                 PROVE  \/ "enc" \in ost'[o].finished
                        \/ read'[FileOf[s]] = Len(content'[FileOf[s]])
      BY <1>a DEF CopyEnds
    <3>1. CASE pc = "eof"
      <4>1. s \in todo
        BY <1>11, NextIs
      <4>2. FileOf[s] = cur /\ read[cur] = Len(content[cur])
        BY <3>1, <4>1 DEF IInv, PlaceInv
      <4> QED BY <1>7, <4>2
    <3>2. CASE pc = "drain"
      <4>1. x.finished # {}
        BY <1>2, <1>8, <1>b, <3>2 DEF LeftInv, Unfinished
      <4>2. "enc" \in x.finished \/ read[FileOf[s]] = Len(content[FileOf[s]])
        BY <1>3, <1>8, <1>a, <1>b, <4>1 DEF CopyEnds
      <4>3. "enc" \in x.finished => "enc" \in ost'[o].finished
        BY <1>11, <1>c, <2>1 DEF SameCopy
      <4> QED BY <1>7, <4>2, <4>3
    <3> QED BY <1>11, <3>1, <3>2
  <2> QED BY <2>3, <2>4
<1>12. \/ SameCopy(x, y) /\ q1 = q
       \/ /\ InputPacket /\ Message(cur).ist = s /\ q1 = Append(q, Message(cur))
       \/ /\ StreamGives \/ StreamEnds
          /\ pc \in {"eof", "drain"} /\ todo # {} /\ s = Min(todo)
          /\ SameCopy(of_output_packet(o, x, <<End>>), y) /\ q1 = q
  BY <1>5, <1>6, <1>a, <1>b, <1>c DEF CopiedBy
<1> QED BY <1>9, <1>10, <1>11, <1>12

(* At the start nothing is copied.                                         *)
LEMMA CopyStarts ==
  ASSUME Init, IInv
  PROVE  CopyInv
<1>1. \A o \in Outs : /\ ost[o].finished = {} /\ ost[o].out = <<>>
                      /\ ost[o].last = NoPts
  BY DEF Init
<1>2. DOMAIN <<>> = {}
  OBVIOUS
<1>3. Data(<<>>) = <<>> /\ KeysOf(<<>>) = {} /\ Keyed(<<>>) = <<>>
  BY <1>2, OnlyEmpty DEF Data, KeysOf, Keyed
<1> SUFFICES ASSUME NEW o \in Copies
             PROVE  CopiedOn(o, ost[o], ReadOf(Source[o])) /\ CopyEnds(o)
  BY DEF CopyInv
<1>4. o \in Outs /\ Source[o] \in Ists /\ FileOf[Source[o]] \in InFiles
  BY Sets, OutputAssumption
<1>5. ReadOf(Source[o]) = <<>>
  <2>a. PICK c : c = content[FileOf[Source[o]]]
    OBVIOUS
  <2>1. read[FileOf[Source[o]]] = 0
    BY <1>4 DEF Init
  <2>2. SubSeq(c, 1, 0) = <<>>
    BY SubSeqEmpty
  <2> QED BY <2>1, <2>2, <2>a, OfIstEmpty DEF ReadOf
<1>6. AllInTime(o, Keyed(<<>>))
  BY <1>2, <1>3 DEF AllInTime
<1> QED BY <1>1, <1>3, <1>4, <1>5, <1>6 DEF CopiedOn, CopyEnds

(* Always.                                                                 *)
CompleteIInv == FlowIInv /\ CopyInv

(* All that is known of outputs is always true.                            *)
LEMMA CompleteInvariant == Spec => []CompleteIInv
<1>1. Init => FlowIInv /\ CopyInv
  BY Starts, FlowStarts, CopyStarts DEF FlowIInv
<1>2. FlowIInv /\ FlowIInv' /\ CopyInv /\ [Next]_vars => CopyInv'
  BY CopyKept DEF FlowIInv, IInv
<1> QED BY <1>1, <1>2, FlowInvariant, PTL DEF Spec, CompleteIInv

(* In a sequence that has an end and nothing else behind it, there are     *)
(* only ends behind the packets.                                           *)
LEMMA EndsBehind ==
  ASSUME content \in Contents, NEW q \in Seq(Frames \cup {End}),
         EndIsLast(q), HasEnd(q)
  PROVE  /\ Len(Data(q)) < Len(q)
         /\ \A i \in Len(Data(q)) + 1 .. Len(q) : q[i] = End
<1> DEFINE S == Frames \cup {End}
           T == {i \in DOMAIN q : q[i] = End}
<1>1. q \in Seq(S) /\ DOMAIN q = 1 .. Len(q) /\ Len(q) \in Nat
  BY LenProperties
<1>2. PICK k \in T : \A i \in T : k <= i
  <2>1. T # {} /\ T \subseteq Nat
    BY <1>1 DEF HasEnd
  <2> HIDE DEF T
  <2> QED BY <2>1, Least
<1>a. PICK n : n = k - 1
  OBVIOUS
<1>3. k \in 1 .. Len(q) /\ n \in 0 .. Len(q) /\ n + 1 = k /\ n < Len(q) /\ n \in Nat
  BY <1>1, <1>a
<1>4. \A i \in 1 .. n : q[i] # End
  <2>1. \A i \in 1 .. n : i \in DOMAIN q /\ ~(k <= i)
    BY <1>1, <1>3
  <2> QED BY <1>2, <2>1
<1>5. \A i \in k .. Len(q) : q[i] = End
  <2>1. \A i \in k .. Len(q) : i \in DOMAIN q /\ k <= i
    BY <1>1, <1>3
  <2> QED BY <1>2, <2>1 DEF EndIsLast
<1> HIDE DEF S, T
<1> DEFINE a == SubSeq(q, 1, n)
           b == SubSeq(q, n + 1, Len(q))
<1>6. /\ a \in Seq(S) /\ Len(a) = n /\ \A i \in 1 .. n : a[i] = q[i]
      /\ b \in Seq(S) /\ Len(b) = Len(q) - n
      /\ \A i \in 1 .. Len(q) - n : b[i] = q[n + i]
  BY <1>1, <1>3, CutOff, Prefix, ZenonT(60)
<1>7. a \o b = q
  <2>1. 1 \in 1 .. Len(q) + 1 /\ n \in 1 - 1 .. Len(q) /\ Len(q) \in n .. Len(q)
    BY <1>1, <1>3
  <2>2. a \o b = SubSeq(q, 1, Len(q))
    BY <1>1, <1>3, <2>1, ConcatAdjacentSubSeq
  <2> QED BY <1>1, <2>2, SubSeqFull
<1> HIDE DEF a, b
<1>8. \A i \in DOMAIN a : a[i] \in Packet
  <2>1. DOMAIN a = 1 .. n
    BY <1>6, LenProperties
  <2>2. \A i \in 1 .. n : a[i] \in S /\ a[i] # End
    BY <1>4, <1>6, ElementOfSeq
  <2> QED BY <2>1, <2>2, FramesPackets DEF S
<1>9. \A i \in DOMAIN b : b[i] \notin Packet
  <2>1. DOMAIN b = 1 .. Len(q) - n
    BY <1>6, LenProperties
  <2>2. \A i \in 1 .. Len(q) - n : n + i \in k .. Len(q)
    BY <1>1, <1>3
  <2>3. \A i \in 1 .. Len(q) - n : b[i] = End
    BY <1>5, <1>6, <2>2
  <2> QED BY <2>1, <2>3, FramesPackets
<1>10. Data(q) = a
  <2>1. Only(Packet, a) = a
    BY <1>6, <1>8, OnlyAll
  <2>2. Only(Packet, b) = <<>>
    BY <1>6, <1>9, OnlyNone
  <2>3. Only(Packet, a \o b) = Only(Packet, a) \o Only(Packet, b)
    <3>1. a \in Seq(S) /\ b \in Seq(S)
      BY <1>6
    <3> QED BY <3>1, OnlyConcat
  <2>4. a \o <<>> = a
    BY <1>6, ConcatEmptySeq
  <2> QED BY <1>7, <2>1, <2>2, <2>3, <2>4 DEF Data
<1> QED BY <1>3, <1>5, <1>6, <1>10

(* A run that nobody interrupts and where nothing fails is complete:       *)
(* transcode() leaves its loop only when all streams are finished; a       *)
(* stream is finished by the first packet behind the recording time, or    *)
(* when its file, or its graph, has nothing more to give, and              *)
(* flush_encoders outputs the rest.                                        *)
THEOREM OutputsAreComplete == Spec => []CompleteAtEnd
<1>1. CompleteIInv => CompleteAtEnd
  <2> SUFFICES ASSUME CompleteIInv, pc = "done", ~received_sigterm, ~failed,
                      muxer_ended = {}, NEW o \in Outs
               PROVE  /\ LET n == Len(Data(ost[o].out)) IN
                           /\ n < Len(ost[o].out)
                           /\ \A i \in n + 1 .. Len(ost[o].out) : ost[o].out[i] = End
                      /\ o \in Copies /\ InOrder(Source[o]) =>
                           Data(ost[o].out) = Expected(o, Source[o])
                      /\ /\ o \in Encoded /\ GraphOf[o] \notin lossy
                         /\ \A s \in Inputs[GraphOf[o]] : InOrder(s)
                         => \A s \in Inputs[GraphOf[o]] :
                              OfIst(s, ost[o].out) = Expected(o, s)
    BY DEF CompleteAtEnd
  <2>1. /\ TypeOK /\ content \in Contents /\ recording_time \in Limits
        /\ ost[o] \in OstType /\ ost[o].finished # {} /\ ost[o].out \in Seq(Frames \cup {End})
        /\ HasEnd(ost[o].out) /\ EndIsLast(ost[o].out)
    <3>1. TypeOK /\ Good(o, ost[o]) /\ HasEnd(ost[o].out)
      BY DEF CompleteIInv, FlowIInv, IInv, OstInv, EndInv
    <3>2. ost[o].finished # {}
      BY DEF CompleteIInv, FlowIInv, LeftInv, Unfinished
    <3> QED BY <3>1, <3>2 DEF TypeOK, Good, OstType
  <2>2. /\ Len(Data(ost[o].out)) < Len(ost[o].out)
        /\ \A i \in Len(Data(ost[o].out)) + 1 .. Len(ost[o].out) : ost[o].out[i] = End
    BY <2>1, EndsBehind
  <2>3. ASSUME o \in Copies, InOrder(Source[o])
        PROVE  Data(ost[o].out) = Expected(o, Source[o])
    <3>a. PICK s : s = Source[o]
      OBVIOUS
    <3>1. CopiedOn(o, ost[o], ReadOf(s)) /\ CopyEnds(o) /\ s \in Ists
      BY <2>3, <3>a, OutputAssumption DEF CompleteIInv, CopyInv
    <3>2. CASE "enc" \in ost[o].finished
      BY <3>1, <3>2, <3>a DEF CopiedOn
    <3>3. CASE "enc" \notin ost[o].finished
      <4>1. read[FileOf[s]] = Len(content[FileOf[s]])
        BY <2>1, <3>1, <3>3, <3>a DEF CopyEnds
      <4>2. ReadOf(s) = Holds(s) /\ Holds(s) \in Seq(Frames)
        <5>1. /\ ReadOf(s) \in Seq(Frames) /\ Unread(s) = <<>>
              /\ ReadOf(s) \o Unread(s) = Holds(s) /\ Holds(s) \in Seq(Frames)
          BY <2>1, <3>1, <4>1, ReadIs
        <5>2. ReadOf(s) \o <<>> = ReadOf(s)
          BY <5>1, ConcatEmptySeq
        <5> QED BY <5>1, <5>2
      <4>3. Data(ost[o].out) = Keyed(Holds(s)) /\ AllInTime(o, Keyed(Holds(s)))
        BY <3>1, <3>3, <4>2 DEF CopiedOn
      <4> DEFINE x == Keyed(Holds(s))
      <4>4. x \in Seq(Frames)
        BY <4>2, KeyedType
      <4>5. x \o <<>> = x /\ <<>> \in Seq(Frames) /\ DOMAIN <<>> = {}
        <5> HIDE DEF x
        <5> QED BY <4>4, ConcatEmptySeq, EmptySeq
      <4>6. AllInTime(o, x)
        BY <4>3
      <4>7. Expected(o, s) = Only({p \in Packet : InTime(o, p)}, x)
        BY <2>3, <3>a, ExpectedIs
      <4> HIDE DEF x
      <4>8. Only({p \in Packet : InTime(o, p)}, x \o <<>>) = x
        BY <2>1, <4>4, <4>5, <4>6, OnlyInTime
      <4> QED BY <3>a, <4>3, <4>5, <4>7, <4>8 DEF x
    <3> QED BY <3>2, <3>3
  <2>4. ASSUME o \in Encoded, GraphOf[o] \notin lossy,
               \A s \in Inputs[GraphOf[o]] : InOrder(s),
               NEW s \in Inputs[GraphOf[o]]
        PROVE  OfIst(s, ost[o].out) = Expected(o, s)
    <3>1. HasAll(o)
      BY <2>4 DEF CompleteIInv, FlowIInv, FlowInv
    <3>2. GivesAll(o, ost[o].out)
      BY <2>1, <2>4, <3>1 DEF HasAll, Ordered
    <3> QED BY <2>4, <3>2 DEF GivesAll
  <2> QED BY <2>2, <2>3, <2>4
<1> QED BY <1>1, CompleteInvariant, PTL
=============================================================================
