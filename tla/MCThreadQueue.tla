--------------------------- MODULE MCThreadQueue ---------------------------
(* ThreadQueue on two streams sent by two threads.                         *)
EXTENDS ThreadQueue, TLC

CONSTANTS main, other, a, b, o1, o2, o3, mux

MCSenders == {main, other}
MCOwner   == 0 :> main @@ 1 :> other
MCObjs    == {o1, o2, o3}
MCItems   == {a, b}

(* Addresses and payloads are interchangeable.                             *)
Symmetric == Permutations(MCObjs) \cup Permutations(MCItems)
=============================================================================
