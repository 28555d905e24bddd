---------------------------- MODULE MCSyncQueue ----------------------------
(* SyncQueue with streams of a few frames.                                 *)
EXTENDS SyncQueue, TLC

FrameAt(p) == [pts |-> p, duration |-> 1]
MCUntimed  == [pts |-> NoTs, duration |-> 0]
MCFrames   == {FrameAt(0), FrameAt(2), MCUntimed}
MCMore     == {FrameAt(0), FrameAt(1), FrameAt(2)}

ThreeTb == 0 :> 1 @@ 1 :> 2 @@ 2 :> 1
OneTb   == 0 :> 1 @@ 1 :> 1

Limits(a, b, c) == 0 :> a @@ 1 :> b @@ 2 :> c
StreamOptions ==
  {[limiting |-> {0, 1, 2}, framesMax |-> Limits(NoLimit, NoLimit, NoLimit)],
   [limiting |-> {0, 1, 2}, framesMax |-> Limits(NoLimit, 1, NoLimit)],
   [limiting |-> {0, 1},    framesMax |-> Limits(2, 1, NoLimit)],
   [limiting |-> {0},       framesMax |-> Limits(1, NoLimit, NoLimit)]}

(* -shortest, -frames for some streams, and both, for either client.       *)
MCOptions ==
  {[limiting |-> o.limiting, framesMax |-> o.framesMax, perStream |-> p] :
     o \in StreamOptions, p \in BOOLEAN}

OnlyLast ==
  {[limiting |-> {1}, framesMax |-> 0 :> NoLimit @@ 1 :> 2,
    perStream |-> FALSE]}
=============================================================================
