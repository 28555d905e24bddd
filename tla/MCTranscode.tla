---------------------------- MODULE MCTranscode ----------------------------
(* Transcode with two input files: the first one is encoded through a      *)
(* graph of its own, mixed with the second one, and copied.                *)
EXTENDS Transcode, TLC

MCFileOf  == 1 :> 1 @@ 2 :> 1 @@ 3 :> 2
MCOutFile == 1 :> 1 @@ 2 :> 1 @@ 3 :> 2 @@ 4 :> 2
MCSource  == 3 :> 1 @@ 4 :> 3
MCInputs  == "video" :> {1} @@ "mix" :> {2, 3}
MCGraphOf == 1 :> "video" @@ 2 :> "mix"
MCLatency == "video" :> 1 @@ "mix" :> 0

P(s, t, f, k) == [ist |-> s, pts |-> t, fmt |-> f, key |-> k]

(* Plain files; a change of format; a stream without packets and a second  *)
(* file that starts again.                                                 *)
Plain   == 1 :> <<P(1, 0, 1, TRUE), P(2, 0, 1, TRUE), P(1, 2, 1, FALSE),
                  P(2, 2, 1, TRUE), P(1, 4, 1, FALSE), P(1, 6, 1, FALSE),
                  P(1, 8, 1, FALSE)>>
        @@ 2 :> <<P(3, 1, 1, TRUE), P(3, 3, 1, TRUE), P(3, 5, 1, TRUE),
                  P(3, 7, 1, TRUE)>>
Changes == 1 :> <<P(1, 0, 1, FALSE), P(1, 1, 1, TRUE), P(1, 2, 2, FALSE),
                  P(2, 2, 1, TRUE)>>
        @@ 2 :> <<P(3, 0, 1, TRUE)>>
Loops   == 1 :> <<P(1, 0, 1, TRUE), P(1, 4, 1, TRUE)>>
        @@ 2 :> <<P(3, 0, 1, TRUE), Mark, P(3, 2, 1, TRUE), P(3, 4, 1, TRUE)>>
MCContents == {Plain, Changes, Loops}
MCLimits ==
  {[f \in OutFiles |-> 10], [f \in OutFiles |-> IF f = 1 THEN 2 ELSE 10]}
=============================================================================
