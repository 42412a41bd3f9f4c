--------------------------- MODULE JobsRefinement ---------------------------
(* Jobs implements JobService, for every number of clients, managers and    *)
(* jobs and for every set of faults.                                        *)
EXTENDS JobsProofs

\* The abstract state, one name for each variable of JobService.
Accepted == {j \in Job : jobs[j].status # "none"}
ArgsOf == [j \in Job |-> jobs[j].args]
Done == {j \in Job : jobs[j].response # NoResult}
Want == [c \in Clients |-> client[c].args]
Got == [c \in Clients |-> client[c].result.job]

LEMMA ServiceInit == Init => Service!Init
<1>1. SUFFICES ASSUME Init PROVE Service!Init
  OBVIOUS
<1>2. TypeOK
  BY <1>1, InitType
<1>3. Accepted = {} /\ Done = {}
  BY <1>1 DEF Init, Accepted, Done
<1>4. ArgsOf \in [Job -> Args] /\ Want \in [Clients -> Args]
  BY <1>2 DEF TypeOK, Row, ClientState, ArgsOf, Want
<1>5. Got = [c \in Clients |-> 0]
  BY <1>1 DEF Init, Got, NoResult
<1>6. QED
  BY <1>3, <1>4, <1>5 DEF Service!Init, Accepted, ArgsOf, Done, Want, Got

\* A step that changes nothing a browser can see is a stutter.
LEMMA Invisible ==
  ASSUME \A j \in Job : /\ jobs'[j].status # "none" <=> jobs[j].status # "none"
                        /\ jobs'[j].args = jobs[j].args
                        /\ jobs'[j].response # NoResult <=> jobs[j].response # NoResult,
         \A c \in Clients : /\ client'[c].args = client[c].args
                            /\ client'[c].result = client[c].result
  PROVE  UNCHANGED Service!svars
BY DEF Service!svars

\* A request that ends without a result: browsers see no answer.
LEMMA NoAnswer ==
  ASSUME IInv, NEW c \in Clients, client[c].pc # "idle", NEW k \in Replies,
         Reply(c, k, NoResult)
  PROVE  \A d \in Clients : /\ client'[d].args = client[d].args
                            /\ client'[d].result = client[d].result
<1>1. client[c].result = NoResult
  BY DEF IInv, ClientOK
<1>2. QED
  BY <1>1, ReplyType, ResultFacts DEF IInv

\* create_job answers from the cache, or not yet.
LEMMA ServiceAsk ==
  ASSUME IInv, NEW c \in Clients, NEW a \in Args, NEW h \in BOOLEAN,
         CreateJob(c, a, h)
  PROVE  Service!Ask(c, a)
<1>1. TypeOK /\ client \in [Clients -> ClientState] /\ UNCHANGED jobs
  BY DEF IInv, TypeOK, CreateJob
<1>2. \E r \in JobOrNone :
        /\ r = 0 \/ (r \in Done /\ Agrees(ArgsOf[r], a))
        /\ client'[c].args = a /\ client'[c].result.job = r
        /\ \A d \in Clients \ {c} : client'[d] = client[d]
  <2> DEFINE started == [pc |-> "insert", job |-> nextId, args |-> a, handle |-> h,
                         polls |-> 0, reply |-> "none", result |-> NoResult]
  <2>1. CASE client' = [client EXCEPT ![c] = started]
    BY <1>1, <2>1, ZeroInBounds DEF NoResult
  <2>2. CASE \E j \in CacheHits(a) :
               client' = [client EXCEPT ![c] = [started EXCEPT !.pc = "idle",
                                                  !.reply = "cached",
                                                  !.result = jobs[j].response]]
    <3>1. PICK j \in CacheHits(a) :
               client' = [client EXCEPT ![c] = [started EXCEPT !.pc = "idle",
                                                  !.reply = "cached",
                                                  !.result = jobs[j].response]]
      BY <2>2
    <3>2. client'[c].args = a /\ client'[c].result = jobs[j].response
      BY <1>1, <3>1
    <3>3. j \in Job /\ jobs[j].status = "complete" /\ Agrees(jobs[j].args, a)
      BY <1>1, CacheHitsAgree DEF CacheHits, Recent, WithStatus
    <3>4. /\ jobs[j].response # NoResult /\ jobs[j].response.job = j
          /\ j \in JobOrNone
      BY <3>3, CacheHitsAgree DEF Job, JobOrNone
    <3>5. j \in Done /\ ArgsOf[j] = jobs[j].args
      BY <3>3, <3>4 DEF Done, ArgsOf
    <3>6. QED
      BY <1>1, <3>1, <3>2, <3>3, <3>4, <3>5
  <2>3. QED
    BY <2>1, <2>2 DEF CreateJob
<1>3. PICK r \in JobOrNone :
        /\ r = 0 \/ (r \in Done /\ Agrees(ArgsOf[r], a))
        /\ client'[c].args = a /\ client'[c].result.job = r
        /\ \A d \in Clients \ {c} : client'[d] = client[d]
  BY <1>2
<1>4. /\ Want' = [Want EXCEPT ![c] = a]
      /\ Got' = [Got EXCEPT ![c] = r]
      /\ UNCHANGED <<Accepted, ArgsOf, Done>>
  BY <1>1, <1>3 DEF Want, Got, Accepted, ArgsOf, Done
<1>5. r \in Service!Answers(a) \cup {0}
  BY <1>3 DEF Service!Answers, Done, ArgsOf
<1>6. QED
  BY <1>4, <1>5 DEF Service!Ask, Want, Got, Accepted, ArgsOf, Done

\* The insert of create_job accepts the job.
LEMMA ServiceAccept ==
  ASSUME IInv, NEW c \in Clients, InsertJob(c)
  PROVE  \E j \in Job, a \in Args : Service!Accept(j, a)
<1>0. PICK j \in Job, a \in Args : j = client[c].job /\ a = client[c].args
  BY DEF IInv, TypeOK, ClientState, InsertJob
<1>1. /\ TypeOK /\ jobs \in [Job -> Row] /\ client[c].pc = "insert"
      /\ client[c].result = NoResult /\ j \in Job /\ jobs[j].status = "none"
  BY <1>0 DEF IInv, TypeOK, InsertJob, ClientOK
<1>2. jobs[j].response = NoResult
  BY <1>1 DEF IInv, RowOK
<1>3. /\ jobs'[j].status = "waiting" /\ jobs'[j].args = a
      /\ jobs'[j].response = NoResult
      /\ \A k \in Job \ {j} : jobs'[k] = jobs[k]
  BY <1>0, <1>1 DEF InsertJob
<1>4. \A d \in Clients : /\ client'[d].args = client[d].args
                         /\ client'[d].result = client[d].result
  BY <1>1, AfterInsertType DEF InsertJob
<1>5. /\ Accepted' = Accepted \cup {j} /\ j \notin Accepted
      /\ ArgsOf' = [ArgsOf EXCEPT ![j] = a]
      /\ UNCHANGED <<Done, Want, Got>>
  BY <1>1, <1>2, <1>3, <1>4 DEF Accepted, ArgsOf, Done, Want, Got
<1>6. QED
  BY <1>5 DEF Service!Accept, Accepted, ArgsOf, Done, Want, Got

\* The polling loop answers with the result of its own, finished job.
LEMMA ServiceAnswer ==
  ASSUME IInv, NEW c \in Clients, PollComplete(c)
  PROVE  Service!Answer(c)
<1> DEFINE j == client[c].job
           r == jobs[client[c].job].response
<1>1. /\ TypeOK /\ client[c].pc = "poll" /\ client[c].result = NoResult
      /\ j \in Job /\ jobs[j].status = "complete" /\ jobs[j].args = client[c].args
      /\ UNCHANGED jobs
  BY DEF IInv, TypeOK, PollComplete, ClientOK
<1>2. r # NoResult /\ r \in Results /\ r.job = j
  <2>1. r # NoResult /\ r \in ResultsOf(j) /\ r \in Results
        /\ ranBy[j] \subseteq Managers
    BY <1>1 DEF IInv, RowOK, TypeOK, Row
  <2>2. QED
    BY <1>1, <2>1, ResultFacts DEF ResultsOf
<1>3. Reply(c, "complete", r) /\ "complete" \in Replies
  BY DEF PollComplete, Replies
<1>4. /\ client'[c].result.job = j /\ client'[c].args = client[c].args
      /\ \A d \in Clients \ {c} : client'[d] = client[d]
  <2> HIDE DEF r
  <2>1. QED
    BY <1>1, <1>2, <1>3, ReplyType
<1>5. j \in Service!Answers(client[c].args)
  BY <1>1, <1>2 DEF Service!Answers, Agrees
<1> HIDE DEF j, r
<1>6. /\ Got' = [Got EXCEPT ![c] = j] /\ Got[c] = 0
      /\ Want[c] = client[c].args
      /\ UNCHANGED <<Accepted, ArgsOf, Done, Want>>
  <2>1. client[c].result.job = 0
    BY <1>1 DEF NoResult
  <2>2. QED
    BY <1>1, <1>4, <2>1 DEF Want, Got, Accepted, ArgsOf, Done
<1>7. QED
  BY <1>5, <1>6 DEF Service!Answer, Accepted, ArgsOf, Done, Want, Got

\* The first update of a job finishes it; a second one changes the stored
\* result, which JobService does not tell apart.
LEMMA ServiceFinish ==
  ASSUME IInv, NEW m \in Managers, UpdateJob(m)
  PROVE  (\E j \in Job : Service!Finish(j)) \/ UNCHANGED Service!svars
<1> DEFINE j == manager[m].current
<1>1. /\ TypeOK /\ jobs \in [Job -> Row] /\ jobs[j] \in Row
      /\ manager[m].pc = "update" /\ j \in Job /\ UNCHANGED client
  BY DEF IInv, TypeOK, UpdateJob
<1>2. j \in Held(manager[m])
  BY <1>1 DEF Held, Job
<1>3. jobs[j].status # "none" /\ Result(j, m) # NoResult
  BY <1>1, <1>2, HandFacts, ResultFacts
<1>4. jobs' = [jobs EXCEPT ![j] = [jobs[j] EXCEPT !.status = "complete",
                                                  !.response = Result(j, m)]]
  BY DEF UpdateJob
<1> HIDE DEF j
<1>5. /\ jobs'[j].status = "complete" /\ jobs'[j].response # NoResult
      /\ jobs'[j].args = jobs[j].args
      /\ \A k \in Job \ {j} : jobs'[k] = jobs[k]
  BY <1>1, <1>3, <1>4 DEF Row
<1>6. CASE jobs[j].response = NoResult
  <2>1. /\ Done' = Done \cup {j} /\ j \in Accepted \ Done
        /\ UNCHANGED <<Accepted, ArgsOf, Want, Got>>
    BY <1>1, <1>3, <1>5, <1>6 DEF Accepted, ArgsOf, Done, Want, Got
  <2>2. QED
    BY <1>1, <2>1 DEF Service!Finish, Accepted, ArgsOf, Done, Want, Got
<1>7. CASE jobs[j].response # NoResult
  BY <1>1, <1>3, <1>5, <1>7, Invisible
<1>8. QED
  BY <1>6, <1>7

\* The steps of a request that show browsers nothing, and the insert and the
\* answer that do.
LEMMA ServiceClientStep ==
  ASSUME IInv, NEW c \in Clients, ClientStep(c)
  PROVE  Service!Next \/ UNCHANGED Service!svars
<1>1. CASE InsertJob(c)
  BY <1>1, ServiceAccept DEF Service!Next
<1>2. CASE PollComplete(c)
  BY <1>2, ServiceAnswer DEF Service!Next
<1>3. CASE \/ InsertRefused(c) \/ InsertLost(c)
           \/ PollMissing(c) \/ PollAgain(c) \/ PollLost(c)
  <2>1. UNCHANGED jobs
    BY <1>3 DEF InsertRefused, InsertLost, PollMissing, PollAgain, PollLost
  <2>2. \A d \in Clients : /\ client'[d].args = client[d].args
                           /\ client'[d].result = client[d].result
    <3>1. /\ client[c].pc # "idle" /\ client \in [Clients -> ClientState]
          /\ client[c].result = NoResult /\ TypeOK
      BY <1>3 DEF IInv, TypeOK, ClientOK, InsertRefused, InsertLost, PollMissing,
                  PollAgain, PollLost
    <3>2. CASE \E k \in Replies : Reply(c, k, NoResult)
      BY <3>1, <3>2, NoAnswer
    <3>3. CASE InsertLost(c)
      BY <3>1, <3>3, AfterInsertType DEF InsertLost
    <3>4. CASE client' = [client EXCEPT
                            ![c] = [client[c] EXCEPT !.polls = client[c].polls + 1]]
      BY <3>1, <3>4 DEF ClientState
    <3>5. QED
      BY <1>3, <3>2, <3>3, <3>4
         DEF InsertRefused, PollMissing, PollAgain, PollLost, Replies
  <2>3. QED
    BY <2>1, <2>2, Invisible
<1>4. QED
  BY <1>1, <1>2, <1>3 DEF ClientStep

LEMMA ServiceManagerStep ==
  ASSUME IInv, NEW m \in Managers, ManagerStep(m) \/ CrashManager(m)
  PROVE  Service!Next \/ UNCHANGED Service!svars
<1>1. CASE UpdateJob(m)
  BY <1>1, ServiceFinish DEF Service!Next
<1>2. CASE GetJobMark(m)
  <2>1. TypeOK /\ ManagerOK(m) /\ jobs \in [Job -> Row] /\ UNCHANGED client
    BY <1>2 DEF IInv, TypeOK, GetJobMark
  <2>2. PICK j \in manager[m].todo :
           jobs' = [jobs EXCEPT ![j] = [jobs[j] EXCEPT !.status = "working"]]
    BY <1>2 DEF GetJobMark
  <2>3. j \in Job /\ jobs[j].status # "none"
    BY <2>1, HandFacts DEF ManagerOK, Held
  <2>4. \A k \in Job : /\ jobs'[k].status # "none" <=> jobs[k].status # "none"
                       /\ jobs'[k].args = jobs[k].args
                       /\ jobs'[k].response = jobs[k].response
    BY <2>1, <2>2, <2>3 DEF Row
  <2>5. QED
    BY <2>1, <2>4, Invisible
<1>3. CASE UNCHANGED <<jobs, client>>
  BY <1>3, Invisible
<1>4. QED
  BY <1>1, <1>2, <1>3 DEF ManagerStep, StartManager, CrashManager, GetJobSelect,
     GetJobMarkLost, GetJobReply, LoseReply, Run, RunThrows, EndRound, UpdateJobLost

\* Browsers see the service of JobService: a request is answered only with the
\* result of a finished job that agrees with it, a job is accepted once and
\* finishes once, whatever the managers do to the table.
THEOREM Refinement == Spec => ImplementsService
<1>1. Init => Service!Init
  BY ServiceInit
<1>2. IInv /\ [Next]_vars => [Service!Next]_(Service!svars)
  <2>1. SUFFICES ASSUME IInv, [Next]_vars
                 PROVE  Service!Next \/ UNCHANGED Service!svars
    OBVIOUS
  <2>2. ASSUME NEW c \in Clients, NEW a \in Args, NEW h \in BOOLEAN, CreateJob(c, a, h)
        PROVE  Service!Next
    BY <2>1, <2>2, ServiceAsk DEF Service!Next
  <2>3. ASSUME NEW c \in Clients, ClientStep(c)
        PROVE  Service!Next \/ UNCHANGED Service!svars
    BY <2>1, <2>3, ServiceClientStep
  <2>4. ASSUME NEW m \in Managers, ManagerStep(m) \/ CrashManager(m)
        PROVE  Service!Next \/ UNCHANGED Service!svars
    BY <2>1, <2>4, ServiceManagerStep
  <2>5. CASE Expire \/ (\E f \in FlagValues : SetFlag(f)) \/ UNCHANGED vars
    <3>1. UNCHANGED <<jobs, client>>
      BY <2>5 DEF Expire, SetFlag, vars
    <3>2. QED
      BY <3>1, Invisible
  <2>6. QED
    BY <2>1, <2>2, <2>3, <2>4, <2>5 DEF Next
<1>3. QED
  BY <1>1, <1>2, InvariantHolds, PTL DEF Spec, ImplementsService, Service!Spec

=============================================================================
