------------------------------- MODULE Journal -------------------------------
(***************************************************************************)
(* What a server promises of the writes it was sent.  Commands and         *)
(* transactions are executed one after the other, each as a whole and      *)
(* under the next numbers.  When the server stops, writes at the end may   *)
(* be lost, and only there.  Among them is none that is settled, unless    *)
(* the server is exposed.  Buffers, files, the rewriting of files and the  *)
(* restart of the server are not seen.                                     *)
(***************************************************************************)
EXTENDS Integers, Sequences

CONSTANT DBs

VARIABLES stored,  \* the writes that a client can read, now or after a restart
          settled, \* the numbers of writes that were answered for good
          exposed  \* what is settled may be lost all the same

jvars == <<stored, settled, exposed>>

Init == stored = << >> /\ settled = {} /\ exposed = FALSE

Upto(n) == {i \in settled : i <= n}

\* A command, or a transaction of two.
Execute ==
  /\ LET n == Len(stored) IN
       \/ \E d \in DBs : stored' = stored \o <<[id |-> n + 1, db |-> d, last |-> TRUE]>>
       \/ \E d, e \in DBs :
            stored' = stored \o <<[id |-> n + 1, db |-> d, last |-> FALSE],
                                  [id |-> n + 2, db |-> e, last |-> TRUE]>>
  /\ UNCHANGED <<settled, exposed>>

\* Replies are sent, or early ones become safe.
Settle ==
  /\ settled \subseteq settled' /\ \A i \in settled' : i <= Len(stored)
  /\ exposed' \in {exposed, FALSE}
  /\ UNCHANGED stored

Expose == exposed' = TRUE /\ UNCHANGED <<stored, settled>>

\* The first n writes remain.
Lose(n) ==
  /\ exposed \/ Upto(n) = settled
  /\ stored' = SubSeq(stored, 1, n) /\ settled' = Upto(n)
  /\ UNCHANGED exposed

Next == Execute \/ Settle \/ Expose \/ \E n \in 0..Len(stored) : Lose(n)

Spec == Init /\ [][Next]_jvars

=============================================================================
