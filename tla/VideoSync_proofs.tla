-------------------------- MODULE VideoSync_proofs --------------------------
(***************************************************************************)
(* VideoSync for every length of a frame, every set of gaps, durations,    *)
(* thresholds and recording times, and any number of frames: the encoder's *)
(* times grow.                                                             *)
(***************************************************************************)
EXTENDS VideoSync, SequenceTheorems, WellFoundedInduction, TLAPS

-----------------------------------------------------------------------------
Picture == [frame : Nat, pts : Int]
Steady == {"cfr", "vscfr"}
Timed == Steady \cup {"vfr"}
Latest == out[Len(out)]

Types ==
  /\ vsync_method \in Timed \cup {"drop", "passthrough"}
  /\ frame_drop_threshold \in Int /\ recording_time \in Nat /\ duration \in Int
  /\ pts \in Int /\ given \in Nat /\ next_pts \in Int
  /\ vsync_frame_number = Len(out)
  /\ last_frame \in 0 .. given
  /\ last_nb0_frames \in Nat \X Nat \X Nat
  /\ finished \in BOOLEAN /\ out \in Seq(Picture) /\ pc \in {"run", "ended"}

(* What is encoded next comes after what was encoded: in time, and, until  *)
(* the recording time is reached, in the order of frames.                  *)
Paced ==
  /\ out # <<>> =>
       /\ vsync_method \in Timed => Latest.pts < next_pts
       /\ vsync_method \in Steady => Latest.pts + 1 = next_pts
       /\ pc = "run" /\ ~finished => Latest.frame <= last_frame
  /\ pc = "run" /\ finished => next_pts >= recording_time

Inv == Types /\ Paced /\ TimesGrow

-----------------------------------------------------------------------------
(* A set of naturals up to n has its greatest element.                     *)
LEMMA Maximum ==
  ASSUME NEW n \in Nat, NEW S, S \subseteq 0 .. n, S # {}
  PROVE  Max(S) \in S /\ \A y \in S : Max(S) >= y
<1> DEFINE T == {n - x : x \in S}
<1>1. T \subseteq Nat /\ T # {}
  <2>1. \A x \in S : n - x \in Nat
    OBVIOUS
  <2>2. PICK x : x \in S
    OBVIOUS
  <2> QED BY <2>1, <2>2
<1>2. PICK t \in T : \A y \in T : t <= y
  <2> HIDE DEF T
  <2>1. PICK t \in T : \A y \in T : <<y, t>> \notin OpToRel(<, Nat)
    BY <1>1, WFMin, NatLessThanWellFounded, Zenon
  <2>2. \A y \in T : ~ (y < t)
    BY <1>1, <2>1 DEF OpToRel
  <2> QED BY <1>1, <2>2
<1>3. PICK m \in S : t = n - m
  OBVIOUS
<1>4. \A y \in S : m >= y
  <2> SUFFICES ASSUME NEW y \in S PROVE m >= y
    OBVIOUS
  <2>1. n - y \in T /\ n - y \in Nat /\ t \in Nat
    BY <1>1
  <2>2. t <= n - y
    BY <1>2, <2>1
  <2> QED BY <1>3, <2>2
<1> QED BY <1>3, <1>4 DEF Max

(* Rounding a time that is not before frame q gives no frame before q.     *)
LEMMA Rounds ==
  ASSUME NEW q \in Int, NEW x \in Int, x >= q * Frame
  PROVE  lrint(x) \in Int /\ lrint(x) >= q
<1> DEFINE h == Frame \div 2
           k == (x + h) \div Frame
<1>1. Frame \in Nat /\ Frame > 0
  BY UnitAssumption
<1>2. h \in Nat
  BY <1>1
<1>3. k \in Int /\ x + h < (k + 1) * Frame
  BY <1>1, <1>2
<1>4. lrint(x) = k
  BY DEF lrint
<1> HIDE DEF h, k
<1>5. k >= q
  <2> SUFFICES ASSUME k < q PROVE FALSE
    BY <1>3
  <2>1. q - (k + 1) \in Nat
    BY <1>3
  <2>2. (q - (k + 1)) * Frame >= 0
    BY <1>1, <2>1
  <2>3. (q - (k + 1)) * Frame = q * Frame - (k + 1) * Frame
    BY <1>1, <1>3
  <2>4. q * Frame \in Int /\ (k + 1) * Frame \in Int
    BY <1>1, <1>3
  <2> QED BY <1>2, <1>3, <2>2, <2>3, <2>4
<1> QED BY <1>3, <1>4, <1>5

(* The median of three counts is a count.                                  *)
LEMMA Median ==
  ASSUME Types PROVE mid_pred \in Nat
<1>1. \A a, b \in Nat : Min({a, b}) \in Nat
  <2> SUFFICES ASSUME NEW a \in Nat, NEW b \in Nat PROVE Min({a, b}) \in Nat
    OBVIOUS
  <2>1. \E x \in {a, b} : \A y \in {a, b} : x =< y
    OBVIOUS
  <2> QED BY <2>1 DEF Min
<1>2. \A a, b, c \in Nat : Max({a, b, c}) \in Nat
  <2> SUFFICES ASSUME NEW a \in Nat, NEW b \in Nat, NEW c \in Nat
               PROVE  Max({a, b, c}) \in Nat
    OBVIOUS
  <2>1. \E x \in {a, b, c} : \A y \in {a, b, c} : x >= y
    OBVIOUS
  <2> QED BY <2>1 DEF Max
<1>3. /\ last_nb0_frames[1] \in Nat /\ last_nb0_frames[2] \in Nat
      /\ last_nb0_frames[3] \in Nat
  BY DEF Types
<1> QED BY <1>1, <1>2, <1>3 DEF mid_pred

(* How many frames a time is shown for, and from where: after what was     *)
(* encoded, and with a constant rate right after it.                       *)
LEMMA Synchronizes ==
  ASSUME Types, NEW t \in Int, NEW s, s = video_sync_process(t)
  PROVE  /\ s.nb \in Nat /\ s.prev \in Nat /\ s.next \in Int
         /\ vsync_method = "vfr" => s.next >= next_pts
         /\ vsync_method \in Steady /\ out # <<>> => s.next = next_pts
<1> DEFINE d == Delta(t)
<1>0. /\ Frame \in Nat /\ next_pts \in Int /\ next_pts * Frame \in Int
      /\ \A n \in Int : Tenths(n) \in Int
      /\ Tenths(6) >= 0 /\ Tenths(11) >= Tenths(6)
  BY UnitAssumption DEF Types, Tenths
<1>1. /\ d.sync_ipts \in Int /\ d.delta0 \in Int /\ d.delta \in Int
      /\ d.delta > 0 /\ vsync_method \notin {"passthrough", "drop"} =>
           d.sync_ipts >= next_pts * Frame
  <2>1. PICK q \in Int : q = next_pts * Frame
    BY <1>0
  <2>2. adjust_frame_pts(t) \in Int /\ duration \in Int
    BY DEF adjust_frame_pts, Types
  <2>3. /\ d.delta0 \in Int /\ d.sync_ipts \in Int
        /\ d.delta = (adjust_frame_pts(t) - q) + duration
        /\ d.sync_ipts = q \/ d.sync_ipts = adjust_frame_pts(t)
        /\ (/\ adjust_frame_pts(t) - q < 0 /\ d.delta > 0
            /\ vsync_method \notin {"passthrough", "drop"})
             => d.sync_ipts = q
    BY <2>1, <2>2 DEF Delta
  <2> HIDE DEF d
  <2> QED BY <2>1, <2>2, <2>3
<1>2. \A x \in Int : /\ lrint(x) \in Int
                     /\ x >= 0 => lrint(x) \in Nat
                     /\ x >= next_pts * Frame => lrint(x) >= next_pts
  <2> SUFFICES ASSUME NEW x \in Int
               PROVE  /\ lrint(x) \in Int
                      /\ x >= 0 => lrint(x) \in Nat
                      /\ x >= next_pts * Frame => lrint(x) >= next_pts
    OBVIOUS
  <2>1. lrint(x) \in Int
    BY UnitAssumption DEF lrint
  <2>2. x >= 0 => lrint(x) \in Nat
    BY <2>1, <1>0, Rounds
  <2>3. x >= next_pts * Frame => lrint(x) >= next_pts
    BY <1>0, Rounds
  <2> QED BY <2>1, <2>2, <2>3
<1>3. ASSUME NEW e, e.delta \in Int, e.delta0 \in Int
      PROVE  /\ cfr(e).nb \in Nat /\ cfr(e).prev \in Nat
             /\ cfr(e).next = next_pts
             /\ cfr(e) = [nb |-> cfr(e).nb, prev |-> cfr(e).prev, next |-> next_pts]
  BY <1>0, <1>2, <1>3 DEF cfr
<1> HIDE DEF d
<1>4. CASE StartsLate(d)
  <2> DEFINE e == [d EXCEPT !.delta0 = 0, !.delta = duration]
  <2>0. /\ vsync_method = "vscfr" /\ out = <<>>
    BY <1>4, EmptySeq DEF StartsLate, Types
  <2>1. e.delta \in Int /\ e.delta0 \in Int
    BY DEF d, Delta, Types
  <2> HIDE DEF e
  <2>2. s = [cfr(e) EXCEPT !.next = lrint(d.sync_ipts)]
    BY <1>4, <2>0 DEF video_sync_process, d, e
  <2>3. s.nb = cfr(e).nb /\ s.prev = cfr(e).prev /\ s.next = lrint(d.sync_ipts)
    BY <1>3, <2>1, <2>2
  <2> QED BY <1>1, <1>2, <1>3, <2>0, <2>1, <2>3
<1>5. CASE vsync_method \in Steady /\ ~StartsLate(d)
  <2>1. s = cfr(d)
    BY <1>5 DEF video_sync_process, d, Steady
  <2> QED BY <1>0, <1>1, <1>3, <1>5, <2>1 DEF Steady
<1>6. CASE vsync_method = "vfr"
  <2>1. ~StartsLate(d)
    BY <1>6 DEF StartsLate
  <2>2. s = [nb |-> IF d.delta <= -Tenths(6) THEN 0 ELSE 1, prev |-> 0,
             next |-> IF d.delta > Tenths(6) THEN lrint(d.sync_ipts) ELSE next_pts]
    BY <1>6, <2>1 DEF video_sync_process, d
  <2> QED BY <1>0, <1>1, <1>2, <1>6, <2>2 DEF Steady
<1>7. CASE vsync_method \in {"drop", "passthrough"}
  <2>1. ~StartsLate(d)
    BY <1>7 DEF StartsLate
  <2>2. s = [nb |-> 1, prev |-> 0, next |-> lrint(d.sync_ipts)]
    BY <1>7, <2>1 DEF video_sync_process, d
  <2>3. lrint(d.sync_ipts) \in Int
    BY <1>1, <1>2
  <2>4. s.nb = 1 /\ s.prev = 0 /\ s.next = lrint(d.sync_ipts)
    BY <2>2
  <2> QED BY <1>7, <2>3, <2>4 DEF Steady
<1> QED BY <1>4, <1>5, <1>6, <1>7 DEF Types, Timed, Steady

(* The frames that are encoded: the kept one, then the new one, at times   *)
(* one after the other, until there is none or the recording time is       *)
(* reached.                                                                *)
LEMMA PicturesAre ==
  ASSUME Types, NEW new \in Nat, NEW s,
         s.nb \in Nat, s.prev \in Nat, s.next \in Int
  PROVE  LET p == Pictures(new, s) IN
         /\ p \in Seq(Picture) /\ Len(p) \in 0 .. s.nb
         /\ \A i \in 1 .. Len(p) :
              /\ p[i].frame = IF i <= s.prev /\ last_frame # 0
                                THEN last_frame ELSE new
              /\ p[i].frame # 0
              /\ p[i].pts = s.next + i - 1 /\ p[i].pts < recording_time
         /\ new # 0 /\ Len(p) < s.nb => s.next + Len(p) >= recording_time
<1> DEFINE shown == [i \in 1 .. s.nb |->
             [frame |-> IF i <= s.prev /\ last_frame # 0 THEN last_frame ELSE new,
              pts |-> s.next + i - 1]]
           valid == {n \in 0 .. s.nb : \A i \in 1 .. n :
                       shown[i].frame # 0 /\ shown[i].pts < recording_time}
           m == Max(valid)
           p == SubSeq(shown, 1, m)
<1>0. Pictures(new, s) = p
  BY DEF Pictures
<1>1. m \in valid /\ \A n \in valid : m >= n
  <2>1. 0 \in valid
    OBVIOUS
  <2>2. valid \subseteq 0 .. s.nb /\ valid # {}
    BY <2>1
  <2> HIDE DEF valid
  <2> QED BY <2>2, Maximum
<1> HIDE DEF m
<1>2. m \in 0 .. s.nb
  BY <1>1
<1>5. \A i \in 1 .. s.nb : shown[i] \in Picture
  BY DEF Types, Picture
<1>6. \A i \in 1 .. s.nb :
        /\ shown[i].frame = IF i <= s.prev /\ last_frame # 0
                              THEN last_frame ELSE new
        /\ shown[i].pts = s.next + i - 1
  OBVIOUS
<1> HIDE DEF shown
<1>3. \A i \in 1 .. m : shown[i].frame # 0 /\ shown[i].pts < recording_time
  BY <1>1
<1>4. m < s.nb =>
        shown[m + 1].frame = 0 \/ ~(shown[m + 1].pts < recording_time)
  <2> SUFFICES ASSUME m < s.nb, shown[m + 1].frame # 0,
                      shown[m + 1].pts < recording_time
               PROVE  FALSE
    OBVIOUS
  <2>1. m + 1 \in 0 .. s.nb /\ \A i \in 1 .. m + 1 : i \in 1 .. m \/ i = m + 1
    BY <1>2
  <2>2. \A i \in 1 .. m + 1 : shown[i].frame # 0 /\ shown[i].pts < recording_time
    BY <1>3, <2>1
  <2>3. m + 1 \in valid
    BY <2>1, <2>2
  <2> HIDE DEF valid
  <2> QED BY <1>1, <1>2, <2>3
<1> HIDE DEF valid
<1>9. \A i \in 1 .. m : i \in 1 .. s.nb
  BY <1>2
<1>7. \A i \in 1 .. m : shown[i] \in Picture
  BY <1>5, <1>9
<1>8. /\ p \in Seq(Picture) /\ Len(p) = m
      /\ \A i \in 1 .. m : p[i] = shown[i]
  <2>1. /\ 1 \in Int /\ m \in Int /\ \A i \in 1 .. m : shown[i] \in Picture
    BY <1>2, <1>7
  <2>2. /\ SubSeq(shown, 1, m) \in Seq(Picture)
        /\ Len(SubSeq(shown, 1, m)) = IF 1 <= m THEN m - 1 + 1 ELSE 0
        /\ \A i \in 1 .. m - 1 + 1 : SubSeq(shown, 1, m)[i] = shown[1 + i - 1]
    BY <2>1, SubSeqProperties
  <2> QED BY <1>2, <2>2
<1> HIDE DEF p
<1>10. new # 0 /\ m < s.nb => s.next + m >= recording_time
  <2> SUFFICES ASSUME new # 0, m < s.nb PROVE s.next + m >= recording_time
    OBVIOUS
  <2>1. m + 1 \in 1 .. s.nb
    BY <1>2
  <2>2. shown[m + 1].frame # 0 /\ shown[m + 1].pts = s.next + m
    BY <1>2, <1>6, <2>1
  <2> QED BY <1>2, <1>4, <2>2 DEF Types
<1> QED BY <1>0, <1>2, <1>3, <1>6, <1>8, <1>9, <1>10

(* A picture has a number and a time.                                      *)
LEMMA PictureAt ==
  ASSUME NEW q \in Seq(Picture), NEW i \in 1 .. Len(q)
  PROVE  q[i].frame \in Nat /\ q[i].pts \in Int
<1>1. q[i] \in Picture
  BY ElementOfSeq
<1> QED BY <1>1 DEF Picture

(* So has the one encoded last.                                            *)
LEMMA LatestAt ==
  ASSUME Types, out # <<>>
  PROVE  Len(out) \in Nat \ {0} /\ Latest.frame \in Nat /\ Latest.pts \in Int
<1>1. out \in Seq(Picture) /\ Len(out) \in Nat \ {0}
  BY EmptySeq DEF Types
<1>2. Len(out) \in 1 .. Len(out)
  BY <1>1
<1> QED BY <1>1, <1>2, PictureAt DEF Latest

(* Pictures that continue what was encoded keep times and frames growing.  *)
LEMMA Continues ==
  ASSUME Types, TimesGrow, NEW p \in Seq(Picture), out' = out \o p,
         vsync_method' = vsync_method,
         \A i \in 1 .. Len(p) - 1 :
           /\ p[i].frame <= p[i + 1].frame /\ p[i].pts + 1 = p[i + 1].pts,
         Len(p) > 0 /\ out # <<>> =>
           /\ Latest.frame <= p[1].frame
           /\ vsync_method \in Timed => Latest.pts < p[1].pts
           /\ vsync_method \in Steady => Latest.pts + 1 = p[1].pts
  PROVE  /\ TimesGrow' /\ out' \in Seq(Picture) /\ Len(out') = Len(out) + Len(p)
         /\ Len(p) = 0 => out' = out
         /\ Len(p) > 0 => Latest' = p[Len(p)]
<1>1. /\ out \in Seq(Picture) /\ Len(out) \in Nat /\ Len(p) \in Nat
      /\ out' \in Seq(Picture) /\ Len(out') = Len(out) + Len(p)
      /\ \A i \in 1 .. Len(out) + Len(p) :
           out'[i] = IF i <= Len(out) THEN out[i] ELSE p[i - Len(out)]
  BY ConcatProperties, LenProperties DEF Types
<1>2. Len(p) = 0 => out' = out
  BY <1>1, EmptySeq, ConcatEmptySeq
<1>3. Len(p) > 0 => Latest' = p[Len(p)]
  <2> SUFFICES ASSUME Len(p) > 0 PROVE out'[Len(out')] = p[Len(p)]
    BY DEF Latest
  <2>1. Len(out') \in 1 .. Len(out) + Len(p) /\ ~(Len(out') <= Len(out))
        /\ Len(out') - Len(out) = Len(p)
    BY <1>1
  <2> QED BY <1>1, <2>1
<1>4. /\ \A i \in 1 .. Len(out) : out[i].frame \in Int /\ out[i].pts \in Int
      /\ \A i \in 1 .. Len(p) : p[i].frame \in Int /\ p[i].pts \in Int
  BY <1>1, PictureAt
<1>5. ASSUME NEW i \in 1 .. Len(out') - 1
      PROVE  /\ out'[i].frame <= out'[i + 1].frame
             /\ vsync_method \in Timed => out'[i].pts < out'[i + 1].pts
             /\ vsync_method \in Steady => out'[i].pts + 1 = out'[i + 1].pts
  <2>1. CASE i < Len(out)
    <3>1. /\ i \in 1 .. Len(out) - 1 /\ out'[i] = out[i]
          /\ out'[i + 1] = out[i + 1]
      BY <1>1, <2>1
    <3> QED BY <3>1 DEF TimesGrow, Timed, Steady
  <2>2. CASE i = Len(out)
    <3>1. /\ Len(p) > 0 /\ out # <<>> /\ out'[i] = Latest /\ out'[i + 1] = p[1]
      BY <1>1, <2>2, EmptySeq DEF Latest
    <3> QED BY <3>1
  <2>3. CASE i > Len(out)
    <3> DEFINE j == i - Len(out)
    <3>1. /\ j \in 1 .. Len(p) - 1 /\ out'[i] = p[j] /\ out'[i + 1] = p[j + 1]
      <4>1. /\ i + 1 \in 1 .. Len(out) + Len(p) /\ i \in 1 .. Len(out) + Len(p)
            /\ ~(i <= Len(out)) /\ ~(i + 1 <= Len(out))
            /\ (i + 1) - Len(out) = j + 1 /\ j \in 1 .. Len(p) - 1
        BY <1>1, <2>3
      <4> QED BY <1>1, <4>1
    <3>2. j \in 1 .. Len(p) /\ j + 1 \in 1 .. Len(p)
      BY <1>1, <3>1
    <3> HIDE DEF j
    <3>3. p[j].pts + 1 = p[j + 1].pts /\ p[j].frame <= p[j + 1].frame
      BY <3>1
    <3>4. p[j].pts < p[j + 1].pts
      BY <1>4, <3>2, <3>3
    <3> QED BY <3>1, <3>3, <3>4
  <2> QED BY <1>1, <2>1, <2>2, <2>3
<1>6. TimesGrow'
  BY <1>5 DEF TimesGrow, Timed, Steady
<1> QED BY <1>1, <1>2, <1>3, <1>6

(* do_video_out for a filtered frame while the stream is not finished, or  *)
(* at the end of the graph.                                                *)
LEMMA VideoOut ==
  ASSUME Inv, pc = "run", UNCHANGED options, pts' \in Int,
         pc' \in {"run", "ended"}, NEW new \in Nat, NEW s,
         s.nb \in Nat, s.prev \in Nat, s.next \in Int,
         vsync_method = "vfr" => s.next >= next_pts,
         vsync_method \in Steady /\ out # <<>> => s.next = next_pts,
         \/ ~finished /\ new = given + 1 /\ given' = new
         \/ /\ new = 0 /\ s.nb = s.prev /\ s.next = next_pts
            /\ given' = given /\ pc' = "ended",
         do_video_out(new, s)
  PROVE  Inv'
<1>1. /\ given' \in Nat /\ given <= given' /\ new <= given'
      /\ last_nb0_frames' \in Nat \X Nat \X Nat
      /\ vsync_method' = vsync_method /\ recording_time' = recording_time
      /\ frame_drop_threshold' = frame_drop_threshold /\ duration' = duration
  BY DEF Inv, Types, do_video_out, options
<1>2. CASE SkipFrame(s)
  <2>1. /\ next_pts' = s.next
        /\ UNCHANGED <<out, vsync_frame_number, finished, last_frame>>
    BY <1>2 DEF SkipFrame
  <2>2. Types'
    BY <1>1, <2>1 DEF Inv, Types
  <2>3. TimesGrow'
    BY <1>1, <2>1 DEF Inv, TimesGrow
  <2>4. Paced'
    <3>1. out # <<>> => Latest.pts \in Int
      BY LatestAt DEF Inv
    <3>2. Latest' = Latest
      BY <2>1 DEF Latest
    <3>3. next_pts \in Int /\ finished \in BOOLEAN
      BY DEF Inv, Types
    <3>4. pc' = "run" => ~finished /\ ~finished'
      BY <2>1
    <3>5. ASSUME out # <<>>, vsync_method \in Timed PROVE s.next >= next_pts
      BY <3>3, <3>5 DEF Timed
    <3>6. out' # <<>> =>
            /\ vsync_method' \in Timed => Latest'.pts < next_pts'
            /\ vsync_method' \in Steady => Latest'.pts + 1 = next_pts'
      BY <1>1, <2>1, <3>1, <3>2, <3>3, <3>5 DEF Inv, Paced
    <3>7. out' # <<>> /\ pc' = "run" /\ ~finished' => Latest'.frame <= last_frame'
      BY <2>1, <3>2, <3>4 DEF Inv, Paced
    <3> QED BY <3>4, <3>6, <3>7 DEF Paced
  <2> QED BY <2>2, <2>3, <2>4 DEF Inv
<1>3. CASE ShowFrames(new, s)
  <2> DEFINE p == Pictures(new, s)
  <2>1. /\ out' = out \o p /\ next_pts' = s.next + Len(p)
        /\ vsync_frame_number' = vsync_frame_number + Len(p)
        /\ finished' = (finished \/ /\ Len(p) < s.nb
                                    /\ s.next + Len(p) >= recording_time)
        /\ last_frame' = IF Len(p) < s.nb THEN last_frame ELSE new
    BY <1>3 DEF ShowFrames
  <2>2. /\ p \in Seq(Picture) /\ Len(p) \in 0 .. s.nb
        /\ \A i \in 1 .. Len(p) :
             /\ p[i].frame = IF i <= s.prev /\ last_frame # 0
                               THEN last_frame ELSE new
             /\ p[i].frame # 0
             /\ p[i].pts = s.next + i - 1 /\ p[i].pts < recording_time
        /\ new # 0 /\ Len(p) < s.nb => s.next + Len(p) >= recording_time
    BY PicturesAre DEF Inv
  <2> HIDE DEF p
  <2>3. /\ last_frame \in Nat /\ last_frame <= given /\ given \in Nat
        /\ next_pts \in Int /\ recording_time \in Nat
        /\ Len(p) \in Nat
        /\ out # <<>> => Latest.frame \in Nat /\ Latest.pts \in Int
    BY <2>2, LatestAt DEF Inv, Types
  <2>4. new = 0 => \A i \in 1 .. Len(p) : p[i].frame = last_frame
    BY <2>2
  <2>5. new # 0 => ~finished /\ new = given + 1 /\ last_frame <= new
    BY <2>3
  <2>6. \A i \in 1 .. Len(p) - 1 :
          p[i].frame <= p[i + 1].frame /\ p[i].pts + 1 = p[i + 1].pts
    <3> SUFFICES ASSUME NEW i \in 1 .. Len(p) - 1
                 PROVE  /\ p[i].frame <= p[i + 1].frame
                        /\ p[i].pts + 1 = p[i + 1].pts
      OBVIOUS
    <3>1. i \in 1 .. Len(p) /\ i + 1 \in 1 .. Len(p)
      BY <2>2
    <3>2. p[i].pts + 1 = p[i + 1].pts
      BY <2>2, <3>1
    <3>3. p[i].frame <= p[i + 1].frame
      <4>1. CASE new = 0
        BY <2>3, <2>4, <3>1, <4>1
      <4>2. CASE new # 0
        <5>1. last_frame \in Nat /\ new \in Nat /\ last_frame <= new
          BY <2>3, <2>5, <4>2
        <5>2. p[i].frame = last_frame \/ p[i + 1].frame = new
          <6>1. p[i].frame = IF i <= s.prev /\ last_frame # 0
                               THEN last_frame ELSE new
            BY <2>2, <3>1
          <6>2. p[i + 1].frame = IF i + 1 <= s.prev /\ last_frame # 0
                                   THEN last_frame ELSE new
            BY <2>2, <3>1
          <6>3. i \in Int /\ s.prev \in Int
            BY <3>1
          <6>4. i + 1 <= s.prev => i <= s.prev
            BY <6>3
          <6> QED
            BY <6>1, <6>2, <6>4
        <5>3. p[i].frame \in {last_frame, new} /\ p[i + 1].frame \in {last_frame, new}
          BY <2>2, <3>1
        <5> QED
          BY <5>1, <5>2, <5>3
      <4> QED
        BY <4>1, <4>2
    <3> QED BY <3>2, <3>3
  <2>7. ASSUME Len(p) > 0, out # <<>>
        PROVE  /\ Latest.frame <= p[1].frame
               /\ vsync_method \in Timed => Latest.pts < p[1].pts
               /\ vsync_method \in Steady => Latest.pts + 1 = p[1].pts
    <3>1. /\ p[1].pts = s.next /\ p[1].pts < recording_time
          /\ p[1].frame = last_frame \/ p[1].frame = new
      BY <2>2, <2>7
    <3>2. ~finished
      <4>1. CASE new = 0
        BY <4>1, <2>3, <3>1 DEF Inv, Paced
      <4> QED BY <4>1, <2>5
    <3>3. Latest.frame <= last_frame
      BY <2>7, <3>2 DEF Inv, Paced
    <3>4. Latest.frame <= p[1].frame
      <4>1. CASE new = 0
        BY <4>1, <2>2, <2>4, <2>7, <3>3
      <4> QED BY <4>1, <2>3, <2>5, <2>7, <3>1, <3>3
    <3>5. vsync_method \in Timed => s.next >= next_pts
      BY <2>3, <2>7 DEF Timed
    <3> QED
      BY <2>3, <2>7, <3>1, <3>4, <3>5 DEF Inv, Paced, Timed, Steady
  <2>8. /\ TimesGrow' /\ out' \in Seq(Picture) /\ Len(out') = Len(out) + Len(p)
        /\ Len(p) = 0 => out' = out
        /\ Len(p) > 0 => Latest' = p[Len(p)]
    BY <1>1, <2>1, <2>2, <2>6, <2>7, Continues DEF Inv
  <2>9. Types'
    <3>1. last_frame' \in 0 .. given'
      BY <1>1, <2>1, <2>3
    <3>2. next_pts' \in Int /\ finished' \in BOOLEAN
      BY <2>1, <2>2 DEF Inv, Types
    <3> QED BY <1>1, <2>1, <2>8, <3>1, <3>2 DEF Inv, Types
  <2>10. Paced'
    <3>1. pc' = "run" => new # 0
      BY <2>3
    <3>2. pc' = "run" /\ finished' => next_pts' >= recording_time'
      BY <1>1, <2>1, <2>5, <3>1
    <3>3. CASE Len(p) = 0
      <4>0. out' = out /\ next_pts' = s.next
        BY <2>1, <2>8, <3>3
      <4>1. out' = out /\ Latest' = Latest /\ next_pts' = s.next
        BY <4>0 DEF Latest
      <4>2. pc' = "run" /\ ~finished' =>
              last_frame' = last_frame \/ last_frame' = new
        BY <2>1
      <4> QED
        BY <1>1, <2>3, <2>5, <3>1, <3>2, <4>1, <4>2
        DEF Inv, Paced, Timed, Steady
    <3>4. CASE Len(p) > 0
      <4> DEFINE n == Len(p)
      <4>1. /\ n \in 1 .. Len(p) /\ Latest' = p[n]
        BY <2>2, <2>8, <3>4
      <4>2. Latest'.pts = s.next + n - 1 /\ next_pts' = s.next + n
        BY <2>1, <2>2, <4>1
      <4>3. Latest'.pts + 1 = next_pts' /\ Latest'.pts < next_pts'
        BY <2>3, <4>2
      <4>4. ASSUME pc' = "run", ~finished' PROVE Latest'.frame <= last_frame'
        <5>1. ~(Len(p) < s.nb)
          BY <2>1, <2>2, <3>1, <4>4
        <5>2. last_frame' = new
          BY <2>1, <5>1
        <5>3. Latest'.frame = last_frame \/ Latest'.frame = new
          BY <2>2, <4>1
        <5> QED BY <2>3, <2>5, <3>1, <4>4, <5>2, <5>3
      <4> QED BY <3>2, <4>3, <4>4 DEF Paced
    <3> QED BY <2>2, <3>3, <3>4
  <2> QED BY <2>8, <2>9, <2>10 DEF Inv
<1> QED BY <1>2, <1>3 DEF do_video_out

-----------------------------------------------------------------------------
(* Init: nothing is encoded.                                               *)
LEMMA InitInv == Init => Inv
<1> SUFFICES ASSUME Init PROVE Inv
  OBVIOUS
<1>1. out = <<>> /\ Len(out) = 0 /\ out \in Seq(Picture)
  BY EmptySeq DEF Init
<1>2. /\ vsync_method \in Timed \cup {"drop", "passthrough"}
      /\ frame_drop_threshold \in Int /\ duration \in Int /\ recording_time \in Nat
  <2>1. vsync_method \in Methods /\ Methods \subseteq Timed \cup {"drop", "passthrough"}
    BY LimitAssumption DEF Init, Timed, Steady
  <2>2. frame_drop_threshold \in DropBelow /\ duration \in Durations
    BY DEF Init
  <2>3. frame_drop_threshold \in Int /\ duration \in Int
    BY <2>2, UnitAssumption
  <2>4. recording_time \in Nat
    BY LimitAssumption DEF Init
  <2> QED BY <2>1, <2>3, <2>4
<1>3. Types
  <2>1. /\ pts \in Int /\ given \in Nat /\ next_pts \in Int
        /\ last_frame \in 0 .. given /\ vsync_frame_number = 0
    BY DEF Init
  <2>2. last_nb0_frames \in Nat \X Nat \X Nat
    BY DEF Init
  <2>3. finished \in BOOLEAN /\ pc \in {"run", "ended"}
    BY DEF Init
  <2> QED BY <1>1, <1>2, <2>1, <2>2, <2>3 DEF Types
<1>4. Paced /\ TimesGrow
  BY <1>1 DEF Init, Paced, TimesGrow
<1> QED BY <1>3, <1>4 DEF Inv

(* Every step is one of do_video_out, or changes nothing.                  *)
LEMMA NextInv ==
  ASSUME Inv, [Next]_vars PROVE Inv'
<1>1. CASE FilteredFrame
  <2>1. PICK gap \in Gaps :
          /\ pts' = pts + gap
          /\ do_video_out(given + 1, video_sync_process(pts + gap))
    BY <1>1 DEF FilteredFrame
  <2>2. gap \in Int /\ pts \in Int /\ given \in Nat /\ pts + gap \in Int
    BY UnitAssumption DEF Inv, Types
  <2>3. PICK s : s = video_sync_process(pts + gap)
    OBVIOUS
  <2>4. /\ s.nb \in Nat /\ s.prev \in Nat /\ s.next \in Int
        /\ vsync_method = "vfr" => s.next >= next_pts
        /\ vsync_method \in Steady /\ out # <<>> => s.next = next_pts
    BY <2>2, <2>3, Synchronizes DEF Inv
  <2>5. /\ pc = "run" /\ ~finished /\ given' = given + 1 /\ pc' = pc
        /\ UNCHANGED options
    BY <1>1 DEF FilteredFrame
  <2>6. given + 1 \in Nat /\ pts' \in Int /\ do_video_out(given + 1, s)
    BY <2>1, <2>2, <2>3
  <2> QED BY <2>4, <2>5, <2>6, VideoOut
<1>2. CASE GraphEnds
  <2>1. PICK s : s = [nb |-> mid_pred, prev |-> mid_pred, next |-> next_pts]
    OBVIOUS
  <2>2. /\ s.nb \in Nat /\ s.prev = s.nb /\ s.next = next_pts /\ next_pts \in Int
    BY <2>1, Median DEF Inv, Types
  <2>3. /\ pc = "run" /\ pc' = "ended" /\ given' = given /\ pts' = pts
        /\ UNCHANGED options /\ do_video_out(0, s) /\ pts \in Int
    BY <1>2, <2>1 DEF GraphEnds, Inv, Types
  <2>4. 0 \in Nat /\ next_pts >= next_pts
    BY <2>2
  <2> QED BY <2>2, <2>3, <2>4, VideoOut
<1>3. CASE UNCHANGED vars
  BY <1>3 DEF vars, options, Inv, Types, Paced, TimesGrow, Latest
<1> QED BY <1>1, <1>2, <1>3 DEF Next, Over

(* Frames that come early, late, twice or out of order are repeated and    *)
(* dropped, and still the encoder's times grow and frames keep their       *)
(* order; with a constant rate every time is used once.                    *)
THEOREM EncoderTimesGrow == Spec => []TimesGrow
<1>1. Inv => TimesGrow
  BY DEF Inv
<1> QED
  BY <1>1, InitInv, NextInv, PTL DEF Spec

-----------------------------------------------------------------------------
(* What KeepsUp asks of the constants: durations are not negative, and     *)
(* -frame_drop_threshold drops no frame that lasts more than half a frame  *)
(* longer than what was shown before it.                                   *)
Punctual == Durations \subseteq Nat /\ \A x \in DropBelow : x <= Frame \div 2

Behind == adjust_frame_pts(pts) + duration - next_pts * Frame

(* Nothing was encoded before the first frame, and KeepsUp.                *)
OnTime ==
  /\ Inv /\ duration \in Nat /\ frame_drop_threshold <= Frame \div 2
  /\ given = 0 /\ pc = "run" => pts = 0 /\ next_pts = 0
  /\ KeepsUp

(* Frame is a multiple of 20, so that tenths and halves of it are exact.   *)
LEMMA Units ==
  \E k \in Nat \ {0} :
    /\ Frame = 20 * k /\ Frame \div 2 = 10 * k
    /\ Tenths(11) = 22 * k /\ Tenths(21) = 42 * k
<1>1. Frame \in Nat /\ Frame % 20 = 0 /\ Frame > 0
  BY UnitAssumption
<1>2. PICK k \in Int : k = Frame \div 20
  BY <1>1
<1>3. k \in Nat \ {0} /\ Frame = 20 * k
  BY <1>1, <1>2
<1>4. Frame \div 2 = 10 * k
  BY <1>3
<1>5. 11 * Frame = 220 * k /\ 21 * Frame = 420 * k
  BY <1>3
<1>6. (220 * k) \div 10 = 22 * k /\ (420 * k) \div 10 = 42 * k
  BY <1>3
<1>7. Tenths(11) = 22 * k /\ Tenths(21) = 42 * k
  BY <1>5, <1>6 DEF Tenths
<1> QED BY <1>3, <1>4, <1>7

(* adjust_frame_pts_to_encoder_tb keeps the order of times.                *)
LEMMA AdjustKeepsOrder ==
  ASSUME NEW t \in Int, NEW u \in Int, t <= u
  PROVE  /\ adjust_frame_pts(t) \in Int /\ adjust_frame_pts(u) \in Int
         /\ adjust_frame_pts(t) <= adjust_frame_pts(u)
         /\ t >= 0 => adjust_frame_pts(t) >= -1
  BY DEF adjust_frame_pts

(* With a constant rate a frame that is e behind is dropped, shown once,   *)
(* or shown, with the one before it, until it ends in time.                *)
LEMMA ConstantRate ==
  ASSUME Types, vsync_method = "cfr", frame_drop_threshold <= Frame \div 2,
         NEW t \in Int, NEW e \in Int,
         e = adjust_frame_pts(t) - next_pts * Frame + duration
  PROVE  LET s == video_sync_process(t) IN
         /\ s.nb \in Nat /\ s.next = next_pts
         /\ \/ s.nb = 0 /\ e <= Frame \div 2
            \/ s.nb > 0 /\ /\ e - s.nb * Frame <= Frame \div 2
                           /\ e - s.nb * Frame >= -Tenths(21)
<1> DEFINE d == Delta(t)
           s == video_sync_process(t)
           late == d.delta > Tenths(11)
           dropped == \/ /\ frame_drop_threshold # 0
                         /\ d.delta < frame_drop_threshold
                         /\ vsync_frame_number # 0
                      \/ d.delta < -Tenths(11)
<1>1. d.delta = e
  <2>1. adjust_frame_pts(t) \in Int /\ duration \in Int /\ next_pts * Frame \in Int
    BY UnitAssumption DEF adjust_frame_pts, Types
  <2>2. d.delta = adjust_frame_pts(t) - next_pts * Frame + duration
    BY DEF Delta
  <2> QED BY <2>2
<1>2. s = cfr(d)
  <2>1. ~StartsLate(d)
    BY DEF StartsLate
  <2> HIDE DEF d
  <2> QED BY <2>1 DEF video_sync_process, d
<1> HIDE DEF d
<1>3. /\ s.nb = IF dropped THEN 0 ELSE IF late THEN lrint(d.delta) ELSE 1
      /\ s.next = next_pts
  BY <1>2 DEF cfr
<1>a. SUFFICES
        /\ s.nb \in Nat /\ s.next = next_pts
        /\ \/ s.nb = 0 /\ e <= Frame \div 2
           \/ s.nb > 0 /\ /\ e - s.nb * Frame <= Frame \div 2
                          /\ e - s.nb * Frame >= -Tenths(21)
  OBVIOUS
<1> HIDE DEF s
<1>4. PICK k \in Nat \ {0} :
        /\ Frame = 20 * k /\ Frame \div 2 = 10 * k
        /\ Tenths(11) = 22 * k /\ Tenths(21) = 42 * k
  BY Units
<1>5. CASE dropped
  <2>1. s.nb = 0
    BY <1>3, <1>5
  <2>2. e <= 10 * k
    BY <1>1, <1>4, <1>5 DEF Types
  <2> QED BY <1>3, <1>4, <2>1, <2>2
<1>6. CASE ~dropped /\ ~late
  <2>1. s.nb = 1
    BY <1>3, <1>6
  <2>2. e <= 22 * k /\ e >= -(22 * k)
    BY <1>1, <1>4, <1>6
  <2>3. s.nb * Frame = 20 * k
    BY <1>4, <2>1
  <2> QED BY <1>3, <1>4, <2>1, <2>2, <2>3
<1>7. CASE ~dropped /\ late
  <2>1. s.nb = (e + 10 * k) \div (20 * k) /\ e > 22 * k
    BY <1>1, <1>3, <1>4, <1>7 DEF lrint
  <2>2. PICK n \in Int : n = (e + 10 * k) \div (20 * k)
    BY <1>4
  <2>3. n * (20 * k) <= e + 10 * k /\ e + 10 * k < n * (20 * k) + 20 * k
    BY <1>4, <2>2
  <2>4. n > 0
    <3> SUFFICES ASSUME n <= 0 PROVE FALSE
      OBVIOUS
    <3>1. (-n) * (20 * k) >= 0 /\ (-n) * (20 * k) = -(n * (20 * k))
      BY <1>4
    <3>2. n * (20 * k) \in Int
      BY <1>4
    <3> QED BY <1>4, <2>1, <2>3, <3>1, <3>2
  <2>5. n * (20 * k) \in Int /\ s.nb = n
    BY <1>4, <2>1, <2>2
  <2>6. e - n * (20 * k) <= 10 * k /\ e - n * (20 * k) >= -(42 * k)
    BY <1>4, <2>3, <2>5
  <2>7. s.nb * Frame = n * (20 * k)
    BY <1>4, <2>5
  <2>8. e - s.nb * Frame <= Frame \div 2 /\ e - s.nb * Frame >= -Tenths(21)
    BY <1>4, <2>6, <2>7
  <2>9. s.nb \in Nat /\ s.nb > 0 /\ s.next = next_pts
    BY <1>3, <2>4, <2>5
  <2> QED BY <2>8, <2>9
<1> QED BY <1>5, <1>6, <1>7

(* Initially.                                                              *)
LEMMA InitOnTime ==
  ASSUME Init, Punctual
  PROVE  OnTime
<1>1. duration \in Nat /\ frame_drop_threshold <= Frame \div 2
  BY DEF Init, Punctual
<1>2. given = 0 /\ pts = 0 /\ next_pts = 0
  BY DEF Init
<1> QED BY <1>1, <1>2, InitInv DEF OnTime, KeepsUp

(* A filtered frame.                                                       *)
LEMMA FrameOnTime ==
  ASSUME OnTime, FilteredFrame, vsync_method' = "cfr", steady', ~skipped', ~finished'
  PROVE  Behind' <= Frame \div 2 /\ Behind' >= -(Tenths(21) + 2)
<1>1. PICK gap \in Gaps :
        /\ pts' = pts + gap /\ steady' = (steady /\ gap >= 0)
        /\ do_video_out(given + 1, video_sync_process(pts + gap))
  BY DEF FilteredFrame
<1> DEFINE t == pts + gap
           s == video_sync_process(t)
           p == Pictures(given + 1, s)
           e == adjust_frame_pts(t) - next_pts * Frame + duration
<1>2. /\ gap \in Int /\ gap >= 0 /\ t \in Int /\ pts \in Int /\ pts <= t /\ steady
      /\ given \in Nat /\ next_pts \in Int /\ duration \in Nat /\ Types
      /\ next_pts * Frame \in Int /\ duration' = duration /\ vsync_method = "cfr"
      /\ pc = "run" /\ frame_drop_threshold <= Frame \div 2 /\ ~finished
  <2>1. Types /\ gap \in Int /\ Frame \in Nat
    BY UnitAssumption DEF OnTime, Inv
  <2>2. pts \in Int /\ next_pts \in Int /\ given \in Nat
    BY <2>1 DEF Types
  <2>3. gap >= 0 /\ steady
    BY <1>1
  <2>4. UNCHANGED options /\ pc = "run" /\ ~finished
    BY DEF FilteredFrame
  <2> QED BY <2>1, <2>2, <2>3, <2>4 DEF OnTime, options
<1>3. /\ adjust_frame_pts(t) \in Int /\ adjust_frame_pts(pts) \in Int
      /\ adjust_frame_pts(pts) <= adjust_frame_pts(t)
      /\ pts >= 0 => adjust_frame_pts(pts) >= -1
  BY <1>2, AdjustKeepsOrder
<1>4. e \in Int
  BY <1>2, <1>3
<1>5. /\ s.nb \in Nat /\ s.next = next_pts
      /\ \/ s.nb = 0 /\ e <= Frame \div 2
         \/ s.nb > 0 /\ /\ e - s.nb * Frame <= Frame \div 2
                        /\ e - s.nb * Frame >= -Tenths(21)
  BY <1>2, <1>4, ConstantRate
<1>6. s.prev \in Nat
  BY <1>2, Synchronizes
<1>7. /\ next_pts' = s.next + Len(p) /\ ~skipped
      /\ ~(Len(p) < s.nb /\ s.next + Len(p) >= recording_time)
  <2>1. do_video_out(given + 1, s)
    BY <1>1
  <2> HIDE DEF s
  <2>2. ShowFrames(given + 1, s)
    BY <2>1 DEF do_video_out, SkipFrame
  <2>3. next_pts' = s.next + Len(p) /\ ~skipped
    BY <2>2 DEF ShowFrames
  <2>4. finished' = (finished \/ /\ Len(p) < s.nb
                                 /\ s.next + Len(p) >= recording_time)
    BY <2>2 DEF ShowFrames
  <2> QED BY <2>3, <2>4
<1>8. Len(p) \in 0 .. s.nb /\ (Len(p) < s.nb => s.next + Len(p) >= recording_time)
  <2>1. given + 1 \in Nat /\ given + 1 # 0 /\ s.next \in Int
    BY <1>2, <1>5
  <2> HIDE DEF s
  <2> QED BY <1>2, <1>5, <1>6, <2>1, PicturesAre
<1> HIDE DEF s, p
<1>9. Len(p) = s.nb /\ next_pts' = next_pts + s.nb
  BY <1>5, <1>7, <1>8
<1>10. Behind' = e - s.nb * Frame
  <2>1. Behind' = adjust_frame_pts(t) + duration - (next_pts + s.nb) * Frame
    BY <1>1, <1>2, <1>9 DEF Behind, adjust_frame_pts
  <2>2. /\ (next_pts + s.nb) * Frame = next_pts * Frame + s.nb * Frame
        /\ s.nb * Frame \in Int
    <3>1. ASSUME NEW a \in Int, NEW b \in Int, NEW c \in Int
          PROVE  (a + b) * c = a * c + b * c /\ b * c \in Int
      OBVIOUS
    <3>2. s.nb \in Int /\ Frame \in Int /\ next_pts \in Int
      BY <1>2, <1>5, UnitAssumption
    <3> QED BY <3>1, <3>2
  <2> QED BY <1>2, <1>3, <2>1, <2>2
<1>11. e >= -(Tenths(21) + 2)
  <2>1. Tenths(21) \in Nat
    BY Units
  <2>2. CASE given = 0
    <3>1. adjust_frame_pts(t) >= -1 /\ next_pts * Frame = 0
      BY <1>2, <1>3, <2>2, UnitAssumption DEF OnTime
    <3> QED BY <1>2, <1>3, <2>1, <3>1
  <2>3. CASE given # 0
    <3>1. given > 0
      BY <1>2, <2>3
    <3>2. Behind >= -(Tenths(21) + 2)
      BY <1>2, <1>7, <3>1 DEF OnTime, KeepsUp, Behind
    <3>3. Behind = adjust_frame_pts(pts) + duration - next_pts * Frame
      BY DEF Behind
    <3> QED BY <1>2, <1>3, <2>1, <3>2, <3>3
  <2> QED BY <2>2, <2>3
<1>12. Tenths(21) \in Nat /\ s.nb * Frame \in Int
  BY Units, <1>5, UnitAssumption
<1>13. CASE s.nb = 0
  <2>1. Behind' = e
    BY <1>4, <1>10, <1>13, UnitAssumption
  <2> QED BY <1>5, <1>11, <1>13, <2>1
<1>14. CASE s.nb > 0
  <2>1. e - s.nb * Frame >= -Tenths(21)
    BY <1>5, <1>14
  <2>2. e - s.nb * Frame >= -(Tenths(21) + 2)
    BY <1>4, <1>12, <2>1
  <2> QED BY <1>5, <1>10, <1>14, <2>2
<1> QED BY <1>5, <1>13, <1>14

(* Every step.                                                             *)
LEMMA StepOnTime ==
  ASSUME OnTime, [Next]_vars
  PROVE  OnTime'
<1>1. Inv'
  BY NextInv DEF OnTime
<1>2. (duration \in Nat /\ frame_drop_threshold <= Frame \div 2)'
  BY DEF OnTime, Next, FilteredFrame, GraphEnds, Over, vars, options
<1>3. (given = 0 /\ pc = "run" => pts = 0 /\ next_pts = 0)'
  <2>1. CASE FilteredFrame
    <3>1. given' = given + 1 /\ given \in Nat
      BY <2>1 DEF FilteredFrame, OnTime, Inv, Types
    <3> QED BY <3>1
  <2>2. CASE GraphEnds
    BY <2>2 DEF GraphEnds
  <2>3. CASE UNCHANGED vars
    BY <2>3 DEF vars, OnTime
  <2> QED BY <2>1, <2>2, <2>3 DEF Next, Over
<1>4. KeepsUp'
  <2>1. CASE FilteredFrame
    BY <2>1, FrameOnTime DEF KeepsUp, Behind
  <2>2. CASE GraphEnds
    BY <2>2 DEF GraphEnds, KeepsUp
  <2>3. CASE UNCHANGED vars
    BY <2>3 DEF vars, options, OnTime, KeepsUp, adjust_frame_pts
  <2> QED BY <2>1, <2>2, <2>3 DEF Next, Over
<1> QED BY <1>1, <1>2, <1>3, <1>4 DEF OnTime

(* video_sync_process: with a constant rate the output does not drift,     *)
(* whatever the gaps between frames, their number and their durations, if  *)
(* the times do not go back and the threshold drops no frame that lasts    *)
(* more than half a frame longer than what was shown before it.            *)
THEOREM DoesNotDrift ==
  ASSUME Punctual
  PROVE  Spec => []KeepsUp
<1>1. Init => OnTime
  BY InitOnTime
<1>2. OnTime /\ [Next]_vars => OnTime'
  BY StepOnTime
<1>3. OnTime => KeepsUp
  BY DEF OnTime
<1> QED BY <1>1, <1>2, <1>3, PTL DEF Spec

=============================================================================
