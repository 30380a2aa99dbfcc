------------------------------ MODULE FetchPool ------------------------------
(***************************************************************************)
(* What the fetch slots of the attachment cache promise: at most Limit     *)
(* calls are served at once, nobody waits while a place is free, and the   *)
(* places are given in the order in which the calls arrived.               *)
(***************************************************************************)
EXTENDS Naturals, Sequences, FiniteSets

CONSTANT Limit

VARIABLES serving,  \* the calls that have a place
          queue     \* the calls that wait for one, in the order of arrival

vars == <<serving, queue>>

Init == serving = {} /\ queue = <<>>

\* One turn of the event loop: calls leave and arrive, and the first n of the
\* line are admitted.  The others keep their order, newcomers stand behind
\* them, and while one of them waits nobody else is admitted.
Turn ==
  /\ \E n \in 0..Len(queue) :
       LET admitted == {queue[i] : i \in 1..n}
           waiting == SubSeq(queue, n + 1, Len(queue))
       IN  /\ admitted \subseteq serving'
           /\ Len(waiting) <= Len(queue') /\ SubSeq(queue', 1, Len(waiting)) = waiting
           /\ waiting # <<>> => serving' \subseteq serving \cup admitted
  /\ Cardinality(serving') <= Limit
  /\ queue' # <<>> => Cardinality(serving') = Limit

Spec == Init /\ [][Turn]_vars
===============================================================================
