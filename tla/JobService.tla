----------------------------- MODULE JobService -----------------------------
(***************************************************************************)
(* What the job system promises to the browsers that use it: a job is      *)
(* accepted once with its arguments and finishes at most once, and a       *)
(* request is answered only by the result of a finished job whose          *)
(* arguments agree with what was asked.  Who runs the jobs, how often, and *)
(* what the table shows meanwhile is left open.                            *)
(***************************************************************************)
CONSTANTS Clients, Job, Args, Agrees(_, _)

VARIABLES accepted,  \* the jobs the service has accepted
          argsOf,    \* argsOf[j]: the arguments of job j
          done,      \* the jobs with a result
          want,      \* want[c]: the arguments c has asked for
          got        \* got[c]: the job whose result answered c, 0 for none

svars == <<accepted, argsOf, done, want, got>>

Init ==
  /\ accepted = {} /\ done = {}
  /\ argsOf \in [Job -> Args]
  /\ want \in [Clients -> Args]
  /\ got = [c \in Clients |-> 0]

Answers(a) == {j \in done : Agrees(argsOf[j], a)}

\* A request may be answered at once by a job that is already done.
Ask(c, a) ==
  /\ want' = [want EXCEPT ![c] = a]
  /\ \E j \in Answers(a) \cup {0} : got' = [got EXCEPT ![c] = j]
  /\ UNCHANGED <<accepted, argsOf, done>>

Accept(j, a) ==
  /\ j \notin accepted
  /\ accepted' = accepted \cup {j}
  /\ argsOf' = [argsOf EXCEPT ![j] = a]
  /\ UNCHANGED <<done, want, got>>

Finish(j) ==
  /\ j \in accepted \ done
  /\ done' = done \cup {j}
  /\ UNCHANGED <<accepted, argsOf, want, got>>

Answer(c) ==
  /\ got[c] = 0
  /\ \E j \in Answers(want[c]) : got' = [got EXCEPT ![c] = j]
  /\ UNCHANGED <<accepted, argsOf, done, want>>

Next ==
  \/ \E c \in Clients : Answer(c) \/ \E a \in Args : Ask(c, a)
  \/ \E j \in Job : Finish(j) \/ \E a \in Args : Accept(j, a)

Spec == Init /\ [][Next]_svars

=============================================================================
