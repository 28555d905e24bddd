----------------------------- MODULE VideoSync -----------------------------
(***************************************************************************)
(* do_video_out of fftools/ffmpeg.c: an encoded video stream gets filtered *)
(* frames with any times and turns them into frames of a given rate, by    *)
(* repeating the previous frame, repeating or dropping the new one.        *)
(*                                                                         *)
(* Times are integers, Frame of them for a frame of the encoder.  Filtered *)
(* frames have even times, and adjust_frame_pts_to_encoder_tb moves them   *)
(* by one, so that no comparison below meets a midpoint: the code does the *)
(* same with 1 / 2^17 of a frame.  Forced keyframes are left out.          *)
(***************************************************************************)
EXTENDS Integers, Sequences, FiniteSets, FiniteSetsExt

CONSTANTS
  Frame,       (* the length of a frame in units of time                   *)
  Methods,     (* values of ost->vsync_method                              *)
  Gaps,        (* from one filtered frame to the next                      *)
  Durations,   (* of the filtered frames                                   *)
  DropBelow,   (* values of frame_drop_threshold, 0 for none               *)
  MaxRepeat,   (* dts_error_threshold * 30                                 *)
  Limits,      (* values of of->recording_time, in frames                  *)
  MaxFrames    (* bound: filtered frames                                   *)

ASSUME UnitAssumption ==
  /\ Frame \in Nat /\ Frame % 20 = 0 /\ Frame > 0
  /\ \A x \in Gaps \cup Durations \cup DropBelow : x \in Int /\ x % 2 = 0
ASSUME LimitAssumption ==
  /\ MaxRepeat \in Nat /\ Limits \subseteq Nat /\ MaxFrames \in Nat
  /\ Methods \subseteq {"vscfr", "cfr", "vfr", "drop", "passthrough"}

VARIABLES
  vsync_method, frame_drop_threshold, recording_time,
  duration,            (* of a frame, by the rate of the filter graph      *)
  pts,                 (* the time of the last filtered frame              *)
  given,               (* filtered frames so far                           *)
  next_pts, vsync_frame_number,
  last_frame,          (* the number of the frame kept, 0 for none         *)
  last_dropped, last_nb0_frames,
  nb_frames_dup, nb_frames_drop,
  finished,
  out,                 (* history: what was encoded, [frame, pts]          *)
  pc,                  (* "run" until the filter graph has ended           *)
  steady,              (* history: the times of the frames never went back *)
  skipped              (* history: a duplication was too large             *)

options == <<vsync_method, frame_drop_threshold, recording_time, duration>>
vars == <<options, pts, given, next_pts, vsync_frame_number, last_frame,
          last_dropped, last_nb0_frames, nb_frames_dup, nb_frames_drop,
          finished, out, pc, steady, skipped>>

Init ==
  /\ vsync_method \in Methods /\ frame_drop_threshold \in DropBelow
  /\ recording_time \in Limits /\ duration \in Durations
  /\ pts = 0 /\ given = 0
  /\ next_pts = 0 /\ vsync_frame_number = 0
  /\ last_frame = 0 /\ last_dropped = FALSE /\ last_nb0_frames = <<0, 0, 0>>
  /\ nb_frames_dup = 0 /\ nb_frames_drop = 0
  /\ finished = FALSE /\ out = <<>> /\ pc = "run"
  /\ steady = TRUE /\ skipped = FALSE

-----------------------------------------------------------------------------
Tenths(n) == (n * Frame) \div 10
lrint(x) == (x + Frame \div 2) \div Frame

(* The time of a frame in units of the encoder.                            *)
adjust_frame_pts(t) == IF t > 0 THEN t + 1 ELSE t - 1

(* video_sync_process for a frame at time t: [sync_ipts, delta0, delta],   *)
(* with a frame that begins in the past moved to the present.  Variant:    *)
(* it is not moved.                                                        *)
Delta_NoClip(t) ==
  LET sync == adjust_frame_pts(t) IN
  [sync_ipts |-> sync, delta0 |-> sync - next_pts * Frame,
   delta |-> sync - next_pts * Frame + duration]

Delta(t) ==
  LET sync   == adjust_frame_pts(t)
      delta0 == sync - next_pts * Frame
      delta  == delta0 + duration
      clip   == /\ delta0 < 0 /\ delta > 0
                /\ vsync_method \notin {"passthrough", "drop"} IN
  [sync_ipts |-> IF clip THEN next_pts * Frame ELSE sync,
   delta0    |-> IF clip THEN 0 ELSE delta0,
   delta     |-> delta]

(* Initial frames are not repeated with vscfr.                             *)
StartsLate(d) ==
  vsync_method = "vscfr" /\ vsync_frame_number = 0 /\ d.delta0 >= Tenths(5)

(* How often the previous and the new frame are shown, and from when.      *)
(* Variant: a late frame is shown once, without what is missing before it. *)
cfr_NoRepeat(d) ==
  [nb |-> IF d.delta < -Tenths(11) THEN 0 ELSE 1, prev |-> 0, next |-> next_pts]

cfr(d) ==
  LET dropped == \/ /\ frame_drop_threshold # 0
                    /\ d.delta < frame_drop_threshold
                    /\ vsync_frame_number # 0
                 \/ d.delta < -Tenths(11) IN
  [nb   |-> IF dropped THEN 0
            ELSE IF d.delta > Tenths(11) THEN lrint(d.delta) ELSE 1,
   prev |-> IF ~dropped /\ d.delta > Tenths(11) /\ d.delta0 > Tenths(11)
            THEN lrint(d.delta0 - Tenths(6)) ELSE 0,
   next |-> next_pts]

video_sync_process(t) ==
  LET d == Delta(t) IN
  CASE StartsLate(d) ->
         [cfr([d EXCEPT !.delta0 = 0, !.delta = duration])
            EXCEPT !.next = lrint(d.sync_ipts)]
    [] vsync_method \in {"vscfr", "cfr"} /\ ~StartsLate(d) -> cfr(d)
    [] vsync_method = "vfr" ->
         [nb |-> IF d.delta <= -Tenths(6) THEN 0 ELSE 1, prev |-> 0,
          next |-> IF d.delta > Tenths(6) THEN lrint(d.sync_ipts) ELSE next_pts]
    [] OTHER -> [nb |-> 1, prev |-> 0, next |-> lrint(d.sync_ipts)]

(* At the end the last frame is repeated as often as the median of the     *)
(* last three times.                                                       *)
mid_pred ==
  LET n == last_nb0_frames IN
  Max({Min({n[1], n[2]}), Min({n[2], n[3]}), Min({n[1], n[3]})})

-----------------------------------------------------------------------------
(* What is encoded, from time first: up to the recording time.             *)
Pictures(new, s) ==
  LET shown == [i \in 1 .. s.nb |->
        [frame |-> IF i <= s.prev /\ last_frame # 0 THEN last_frame ELSE new,
         pts |-> s.next + i - 1]]
      valid == {n \in 0 .. s.nb : \A i \in 1 .. n :
                  shown[i].frame # 0 /\ shown[i].pts < recording_time} IN
  SubSeq(shown, 1, Max(valid))

Known(s) == IF s.prev > 0 /\ last_dropped THEN 1 ELSE 0
New(s)   == IF s.nb > s.prev THEN 1 ELSE 0

(* A frame that was kept and never shown is dropped; frames shown again    *)
(* are counted.                                                            *)
Dropped(s) == IF s.prev = 0 /\ last_dropped THEN 1 ELSE 0

Repeated(s) ==
  IF s.nb > Known(s) + New(s) THEN s.nb - Known(s) - New(s) ELSE 0

TooMany(s) == s.nb > Known(s) + New(s) /\ s.nb > MaxRepeat

(* do_video_out with frame new, 0 at the end.                              *)
SkipFrame(s) ==
  /\ TooMany(s)
  /\ nb_frames_drop' = nb_frames_drop + Dropped(s) + 1
  /\ next_pts' = s.next
  /\ skipped' = TRUE
  /\ UNCHANGED <<nb_frames_dup, last_dropped, out, vsync_frame_number, finished,
                 last_frame>>

ShowFrames(new, s) ==
  LET p == Pictures(new, s) IN
  /\ ~TooMany(s)
  /\ nb_frames_drop' = nb_frames_drop + Dropped(s)
  /\ nb_frames_dup' = nb_frames_dup + Repeated(s)
  /\ last_dropped' = (s.nb = s.prev /\ new # 0)
  /\ out' = out \o p
  /\ next_pts' = s.next + Len(p)
  /\ vsync_frame_number' = vsync_frame_number + Len(p)
  /\ finished' = (finished \/ /\ Len(p) < s.nb
                              /\ s.next + Len(p) >= recording_time)
  /\ last_frame' = IF Len(p) < s.nb THEN last_frame ELSE new
  /\ UNCHANGED skipped

do_video_out(new, s) ==
  /\ last_nb0_frames' = <<s.prev, last_nb0_frames[1], last_nb0_frames[2]>>
  /\ SkipFrame(s) \/ ShowFrames(new, s)

(* reap_filters hands frames on until the stream is finished, ...          *)
FilteredFrame ==
  /\ pc = "run" /\ ~finished
  /\ given < MaxFrames
  /\ \E gap \in Gaps :
       /\ pts' = pts + gap
       /\ steady' = (steady /\ gap >= 0)
       /\ do_video_out(given + 1, video_sync_process(pts + gap))
  /\ given' = given + 1
  /\ UNCHANGED <<options, pc>>

(* ... and the end of the graph in any case.                               *)
GraphEnds ==
  /\ pc = "run"
  /\ pc' = "ended"
  /\ do_video_out(0, [nb |-> mid_pred, prev |-> mid_pred, next |-> next_pts])
  /\ UNCHANGED <<options, pts, given, steady>>

Over == pc = "ended" /\ UNCHANGED vars

Next == FilteredFrame \/ GraphEnds \/ Over

Spec == Init /\ [][Next]_vars

-----------------------------------------------------------------------------
(* Every variable keeps its type.                                          *)
TypeOK ==
  /\ vsync_method \in Methods /\ frame_drop_threshold \in DropBelow
  /\ recording_time \in Limits /\ duration \in Durations
  /\ pts \in Int /\ given \in 0 .. MaxFrames
  /\ next_pts \in Int /\ vsync_frame_number = Len(out)
  /\ last_frame \in 0 .. given /\ last_dropped \in BOOLEAN
  /\ last_nb0_frames \in [1 .. 3 -> Nat]
  /\ nb_frames_dup \in Nat /\ nb_frames_drop \in 0 .. 2 * MaxFrames
  /\ finished \in BOOLEAN /\ out \in Seq([frame : 1 .. given, pts : Int])
  /\ pc \in {"run", "ended"} /\ steady \in BOOLEAN /\ skipped \in BOOLEAN

(* The encoder gets times that grow and frames in their order; with a      *)
(* constant rate no time is left out.                                      *)
TimesGrow ==
  \A i \in 1 .. Len(out) - 1 :
    /\ out[i].frame <= out[i + 1].frame
    /\ vsync_method \in {"cfr", "vscfr", "vfr"} => out[i].pts < out[i + 1].pts
    /\ vsync_method \in {"cfr", "vscfr"} => out[i].pts + 1 = out[i + 1].pts

(* With a constant rate the output does not drift: what is shown ends at   *)
(* most half a frame before the last frame does, and at most 2.1 frames    *)
(* and its jitter behind.                                                  *)
KeepsUp ==
  LET behind == adjust_frame_pts(pts) + duration - next_pts * Frame IN
  /\ vsync_method = "cfr" /\ steady /\ ~skipped /\ ~finished
  /\ given > 0 /\ pc = "run"
  => behind <= Frame \div 2 /\ behind >= -(Tenths(21) + 2)
=============================================================================
