----------------------------- MODULE MCDemuxer -----------------------------
(* Demuxer on a file of two streams with different time bases.             *)
EXTENDS Demuxer, TLC

MCTb        == 0 :> 2 @@ 1 :> 3
MCLastFrame == 0 :> 3 @@ 1 :> 2
MCAudioSets == {{}, {0}, {0, 1}}

P(s, t) == [stream |-> s, pts |-> t]

(* The first stream is longer, the second one is, one has no packet, the   *)
(* times of the first one wrap, there is nothing.                          *)
MCFiles == {<<P(0, 0), P(1, 0), P(0, 5)>>, <<P(1, 1), P(0, 0), P(1, 6)>>,
            <<P(1, 2), P(1, 4)>>, <<P(0, 14), P(1, 0), P(0, 1)>>, <<>>}
MCLoops == {0, 1, -1}
=============================================================================
