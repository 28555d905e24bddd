----------------------------- MODULE MCObfCache -----------------------------
(* ObfCache with the three hooks of zuiyouLite that look classes up.       *)
EXTENDS ObfCache, TLC

MCHookSeq  == <<"RemoveZyBuff", "NoMark", "AudioDownload">>
MCObf      == [RemoveZyBuff |-> {"ZyBuff"}, NoMark |-> {"CommentVideo"},
               AudioDownload |-> {"AIO1", "AIO2", "AIO3"}]
MCAlways   == {"RemoveZyBuff"}
MCRescans  == {"RemoveZyBuff", "NoMark"}
MCReloads  == {"NoMark"}
MCFiltered == {"CommentVideo", "AIO1"}
MCTakesFirst == {"AIO2", "AIO3"}
MCLoads    == [RemoveZyBuff |-> {"ZyBuff"}, NoMark |-> {"CommentVideo"},
               AudioDownload |-> {"AIO3"}]

Classes(a, b, c, d, e) ==
  [ZyBuff |-> a, CommentVideo |-> b, AIO1 |-> c, AIO2 |-> d, AIO3 |-> e]
MCNames == {"a", "b", "c", "d", "e", "f", "g"}

(* Each version names all its classes anew, ...                            *)
FreshNames       == <<Classes("a", "b", "c", "d", "e"),
                      Classes("f", "g", "c", "d", "e")>>
FreshLoads       == <<{"a", "b", "c", "d", "e"}, {"f", "g", "c", "d", "e"}>>

(* ... or the obfuscator gives an old name to another class.               *)
ReusedNames      == <<Classes("a", "b", "c", "d", "e"),
                      Classes("b", "a", "c", "d", "e")>>
ReusedLoads      == <<{"a", "b", "c", "d", "e"}, {"a", "b", "c", "d", "e"}>>
=============================================================================
