----------------------------- MODULE MCSession -----------------------------
(* Session with two activities and two downloads of one file.              *)
EXTENDS Session, TLC

CONSTANTS a1, a2, video, again

MCFileOf == (video :> "7.mp4") @@ (again :> "7.mp4")
Symmetry == Permutations(Activities)
MCDirOf == (video :> "noMarkVideo") @@ (again :> "noMarkVideo")
=============================================================================
