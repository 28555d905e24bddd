--------------------------- MODULE StreamChannel ---------------------------
(***************************************************************************)
(* What thread_queue.h promises its clients, without objects, locks or     *)
(* threads: a bounded FIFO shared by several streams, where either side    *)
(* may end a stream on its own.  "closed" is the producer's word,          *)
(* "refused" the consumer's.                                               *)
(***************************************************************************)
EXTENDS Integers, Sequences

CONSTANTS Streams, Items, Capacity

VARIABLES
  chan,       (* packets on their way, oldest first                        *)
  closed,     (* streams the producer has ended                            *)
  refused,    (* streams the consumer wants nothing more of                *)
  told,       (* streams whose end was announced to the consumer           *)
  delivered,  (* everything handed to the consumer, in order               *)
  done        (* the consumer was told that all streams are done           *)

chanVars == <<chan, closed, refused, told, delivered, done>>

Init ==
  /\ chan = <<>> /\ delivered = <<>>
  /\ closed = {} /\ refused = {} /\ told = {}
  /\ done = FALSE

(* An item is accepted only on a stream neither side has ended.            *)
Put(s, x) ==
  /\ s \notin closed \cup refused
  /\ Len(chan) < Capacity
  /\ chan' = Append(chan, [stream |-> s, item |-> x])
  /\ UNCHANGED <<closed, refused, told, delivered, done>>

Take ==
  /\ chan # <<>>
  /\ chan' = Tail(chan)
  /\ delivered' = Append(delivered, Head(chan))
  /\ UNCHANGED <<closed, refused, told, done>>

Close(s) ==
  /\ closed' = closed \cup {s}
  /\ UNCHANGED <<chan, refused, told, delivered, done>>

Refuse(s) ==
  /\ refused' = refused \cup {s}
  /\ UNCHANGED <<chan, closed, told, delivered, done>>

(* The end of a stream is announced once, after all of its items.          *)
Announce(s) ==
  /\ chan = <<>>
  /\ s \in closed \ refused
  /\ s \notin told
  /\ refused' = refused \cup {s}
  /\ told' = told \cup {s}
  /\ UNCHANGED <<chan, closed, delivered, done>>

AllDone ==
  /\ chan = <<>>
  /\ Streams \subseteq closed \cap refused
  /\ done' = TRUE
  /\ UNCHANGED <<chan, closed, refused, told, delivered>>

Next ==
  \/ \E s \in Streams, x \in Items : Put(s, x)
  \/ Take
  \/ \E s \in Streams : Close(s) \/ Refuse(s) \/ Announce(s)
  \/ AllDone

Spec == Init /\ [][Next]_chanVars
=============================================================================
