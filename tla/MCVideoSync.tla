---------------------------- MODULE MCVideoSync ----------------------------
(* VideoSync with frames of 20 units that come early, in time, late, very  *)
(* late, twice at a time, or go back.                                      *)
EXTENDS VideoSync

MCGaps == {-14, 0, 6, 20, 26, 48, 70}
MCDropBelow == {0, -10}
=============================================================================
