------------------------------- MODULE MCJobs -------------------------------
(* Small instances of Jobs for TLC. *)
EXTENDS Jobs, TLC

CONSTANTS g1, g2

MCGraphs == {g1, g2}

\* Two requests that differ in their start only, both without a stop.
TwoArgs == {[graph |-> g1, start |-> s, stop |-> 0] : s \in {0, 5}}

\* One kind of request, where the cache plays no part.
OneArg == {[graph |-> g1, start |-> 0, stop |-> 0]}

\* Pairs of requests that differ in the graph, in the stop, in the start.
FourArgs == {[graph |-> g1, start |-> 0, stop |-> 0],
             [graph |-> g1, start |-> 5, stop |-> 0],
             [graph |-> g1, start |-> 5, stop |-> 9],
             [graph |-> g2, start |-> 5, stop |-> 9]}

Symmetry == Permutations(Clients) \cup Permutations(Managers)

=============================================================================
