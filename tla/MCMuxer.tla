------------------------------ MODULE MCMuxer ------------------------------
(* Muxer on a file with two streams.                                       *)
EXTENDS Muxer

CONSTANTS o1, o2

MCObjs == {o1, o2}
=============================================================================
