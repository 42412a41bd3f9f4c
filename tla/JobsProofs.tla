----------------------------- MODULE JobsProofs -----------------------------
(* Theorems about Jobs, for every number of clients, managers and jobs and *)
(* for every set of faults.                                                *)
EXTENDS Jobs, TLAPS

\* What a manager's record says of the jobs in its hands.
ManagerOK(m) ==
  LET s == manager[m]
  IN  /\ s.todo \subseteq s.batch
      /\ s.pc # "marking" => s.todo = {}
      /\ s.pc \in {"off", "fetch"} => s.batch = {}
      /\ s.pc = "update" => s.current \in Job
      /\ s.pc # "update" => s.current = 0
      /\ s.pc = "update" => s.current \notin s.batch /\ m \in ranBy[s.current]
      /\ \A j \in Held(s) : jobs[j].status # "none"
      /\ \A j \in Held(s) \ (s.todo \cup faulty) :
           jobs[j].status \in {"working", "complete"}

\* The results that can be in the row of j: those of the managers that ran it.
ResultsOf(j) == {NoResult} \cup {Result(j, m) : m \in ranBy[j]}

\* A job that ran has left the queue; a complete job has a result of its own.
RowOK(j) ==
  /\ j \notin faulty /\ ranBy[j] # {} => jobs[j].status \in {"working", "complete"}
  /\ jobs[j].response \in ResultsOf(j)
  /\ jobs[j].status = "complete" => jobs[j].response # NoResult
  /\ jobs[j].response # NoResult => jobs[j].status \notin {"none", "waiting"}
  /\ j >= nextId => jobs[j].status = "none"

\* An open request has a job of its own, and its row is what it inserted.
ClientOK(c) ==
  LET s == client[c]
  IN  /\ s.pc # "idle" => s.job \in Job /\ s.job < nextId /\ s.result = NoResult
      /\ s.pc = "insert" => jobs[s.job].status = "none"
      /\ s.pc = "poll" /\ jobs[s.job].status = "none" => s.job \in faulty
      /\ s.pc = "poll" /\ jobs[s.job].status # "none" => jobs[s.job].args = s.args
      /\ s.reply = "cached" => /\ s.result.job \in Job
                               /\ jobs[s.result.job].status # "none"
      /\ s.result # NoResult => /\ s.result.job \in Job
                                /\ s.result \in ResultsOf(s.result.job)
      /\ s.pc # "idle" => s.reply = "none"
      /\ \A d \in Clients \ {c} :
           s.pc # "idle" /\ client[d].pc # "idle" => s.job # client[d].job

\* The inductive invariant.
IInv ==
  /\ TypeOK
  /\ \A m \in Managers : ManagerOK(m)
  /\ \A j \in Job : RowOK(j)
  /\ \A c \in Clients : ClientOK(c)
  /\ WorkingIsHeld
  /\ NoSecondRun
  /\ AnswerIsOwn
  /\ CachedAnswerAgrees
  /\ AnswerStands

-----------------------------------------------------------------------------
(* Types                                                                   *)

LEMMA AnyArgsType == AnyArgs \in Args
BY ArgsAssumption DEF AnyArgs

LEMMA ZeroInBounds ==
  0 \in JobOrNone /\ 0 \in 0..MaxPolls /\ 0 \in 0..MaxRounds
BY BoundsAssumption DEF JobOrNone

\* Results name the run they come from: no two are equal.
LEMMA ResultFacts ==
  /\ NoResult \in Results
  /\ \A j \in Job, m \in Managers :
       /\ Result(j, m) \in Results
       /\ Result(j, m) # NoResult
       /\ Result(j, m).job = j
       /\ \A n \in Managers : Result(j, m) = Result(j, n) => m = n
<1>1. 0 \in JobOrNone /\ \A j \in Job : j \in JobOrNone /\ j # 0
  BY BoundsAssumption DEF JobOrNone, Job
<1>2. NoResult \in Results
  BY <1>1 DEF NoResult, Results
<1>3. ASSUME NEW j \in Job, NEW m \in Managers
      PROVE  /\ Result(j, m) \in Results /\ Result(j, m) # NoResult
             /\ Result(j, m).job = j
  BY <1>1 DEF NoResult, Results, Result
<1>4. ASSUME NEW j \in Job, NEW m \in Managers, NEW n \in Managers,
             Result(j, m) = Result(j, n)
      PROVE  m = n
  <2>1. {m} = {n}
    BY <1>4 DEF Result
  <2>2. QED
    BY <2>1
<1>5. QED
  BY <1>2, <1>3, <1>4

LEMMA OffType == Off \in ManagerState
BY BoundsAssumption DEF Off, ManagerState, JobOrNone, Job

\* The next round starts, or the manager ends, with nothing in hand.
LEMMA NextRoundType ==
  ASSUME NEW s \in ManagerState
  PROVE  /\ NextRound(s) \in ManagerState
         /\ NextRound(s).pc \in {"off", "fetch"}
         /\ NextRound(s).todo = {}
         /\ NextRound(s).batch = {}
         /\ NextRound(s).current = 0
<1>1. CASE s.round + 1 < MaxRounds
  <2>1. s.round + 1 \in 0..MaxRounds
    BY <1>1, BoundsAssumption DEF ManagerState
  <2>2. NextRound(s) = [pc |-> "fetch", todo |-> {}, batch |-> {},
                        current |-> 0, round |-> s.round + 1]
    BY <1>1 DEF NextRound, Off
  <2>3. QED
    BY <2>1, <2>2, BoundsAssumption DEF ManagerState, JobOrNone, Job
<1>2. CASE ~ (s.round + 1 < MaxRounds)
  BY <1>2, OffType DEF NextRound, Off
<1>3. QED
  BY <1>1, <1>2

LEMMA InitType == Init => TypeOK
<1>1. SUFFICES ASSUME Init PROVE TypeOK
  OBVIOUS
<1>2. jobs \in [Job -> Row]
  BY <1>1, AnyArgsType, ResultFacts DEF Init, Row, Statuses
<1>3. /\ client \in [Clients -> ClientState]
      /\ \A c \in Clients : client[c].pc = "idle"
  <2> DEFINE s == [pc |-> "idle", job |-> 0, args |-> AnyArgs, handle |-> FALSE,
                   polls |-> 0, reply |-> "none", result |-> NoResult]
  <2>1. s \in ClientState
    BY AnyArgsType, ZeroInBounds, ResultFacts DEF ClientState, Replies
  <2>2. client = [c \in Clients |-> s] /\ s.pc = "idle"
    BY <1>1 DEF Init
  <2>3. QED
    <3> HIDE DEF s
    <3>1. QED
      BY <2>1, <2>2
<1>4. /\ manager \in [Managers -> ManagerState]
      /\ \A m \in Managers : manager[m].pc = "off"
  BY <1>1, OffType DEF Init, Off
<1>5. nextId \in 1..(MaxJobs + 1) /\ clock \in Nat /\ horizon \in Nat
  BY <1>1, BoundsAssumption DEF Init
<1>6. flag \in FlagValues /\ faulty \subseteq Job /\ ranBy \in [Job -> SUBSET Managers]
  BY <1>1 DEF Init
<1>7. QED
  BY <1>2, <1>3, <1>4, <1>5, <1>6 DEF TypeOK

\* One client's record is replaced by another of the same type.
LEMMA ClientUpdate ==
  ASSUME TypeOK, NEW c \in Clients, NEW s \in ClientState,
         s.pc # "idle" => s.job \in Job,
         client' = [client EXCEPT ![c] = s]
  PROVE  /\ client' \in [Clients -> ClientState]
         /\ \A d \in Clients : client'[d].pc # "idle" => client'[d].job \in Job
         /\ client'[c] = s
         /\ \A d \in Clients \ {c} : client'[d] = client[d]
BY DEF TypeOK

\* One manager's record is replaced by another of the same type.
LEMMA ManagerUpdate ==
  ASSUME TypeOK, NEW m \in Managers, NEW s \in ManagerState,
         s.pc = "update" => s.current \in Job,
         manager' = [manager EXCEPT ![m] = s]
  PROVE  /\ manager' \in [Managers -> ManagerState]
         /\ \A n \in Managers :
               manager'[n].pc = "update" => manager'[n].current \in Job
         /\ manager'[m] = s
         /\ \A n \in Managers \ {m} : manager'[n] = manager[n]
BY DEF TypeOK

LEMMA HeldInJob ==
  ASSUME TypeOK, NEW m \in Managers
  PROVE  Held(manager[m]) \subseteq Job
BY DEF TypeOK, ManagerState, Held, Job, JobOrNone

\* A request that ends gets a record of the right type.
LEMMA ReplyType ==
  ASSUME TypeOK, NEW c \in Clients, NEW k \in Replies, NEW r \in Results,
         Reply(c, k, r)
  PROVE  /\ client' \in [Clients -> ClientState]
         /\ \A d \in Clients : client'[d].pc # "idle" => client'[d].job \in Job
         /\ client'[c].pc = "idle" /\ client'[c].reply = k /\ client'[c].result = r
         /\ client'[c].job = client[c].job /\ client'[c].args = client[c].args
         /\ \A d \in Clients \ {c} : client'[d] = client[d]
<1> DEFINE s == [client[c] EXCEPT !.pc = "idle", !.reply = k, !.result = r]
<1>1. /\ s \in ClientState /\ s.pc = "idle" /\ s.reply = k /\ s.result = r
      /\ s.job = client[c].job /\ s.args = client[c].args
  BY DEF TypeOK, ClientState
<1>2. client' = [client EXCEPT ![c] = s]
  BY DEF Reply
<1> HIDE DEF s
<1>3. QED
  BY <1>1, <1>2, ClientUpdate

\* The record of a request that has inserted its job.
LEMMA AfterInsertType ==
  ASSUME TypeOK, NEW c \in Clients, client[c].pc = "insert", AfterInsert(c)
  PROVE  /\ client' \in [Clients -> ClientState]
         /\ \A d \in Clients : client'[d].pc # "idle" => client'[d].job \in Job
         /\ \A d \in Clients \ {c} : client'[d] = client[d]
         /\ client'[c].job = client[c].job /\ client'[c].args = client[c].args
         /\ \/ /\ client'[c].pc = "poll" /\ client'[c].reply = client[c].reply
               /\ client'[c].result = client[c].result
            \/ /\ client'[c].pc = "idle" /\ client'[c].reply = "created"
               /\ client'[c].result = NoResult
<1>1. CASE client[c].handle
  <2> DEFINE s == [client[c] EXCEPT !.pc = "poll"]
  <2>1. /\ s \in ClientState /\ s.job \in Job /\ s.job = client[c].job
        /\ s.args = client[c].args /\ s.pc = "poll"
        /\ s.reply = client[c].reply /\ s.result = client[c].result
    BY DEF TypeOK, ClientState
  <2>2. client' = [client EXCEPT ![c] = s]
    BY <1>1 DEF AfterInsert
  <2> HIDE DEF s
  <2>3. QED
    BY <2>1, <2>2, ClientUpdate
<1>2. CASE ~ client[c].handle
  <2>1. "created" \in Replies
    BY DEF Replies
  <2>2. Reply(c, "created", NoResult)
    BY <1>2 DEF AfterInsert
  <2>3. QED
    BY <2>1, <2>2, ReplyType, ResultFacts
<1>3. QED
  BY <1>1, <1>2

-----------------------------------------------------------------------------
(* What a step leaves alone keeps its part of the invariant                *)

\* A step of a client that does not touch the table.
LEMMA TableKept ==
  ASSUME IInv, TypeOK', UNCHANGED <<jobs, manager, ranBy>>,
         faulty \subseteq faulty', nextId <= nextId'
  PROVE  /\ \A m \in Managers : ManagerOK(m)'
         /\ \A j \in Job : RowOK(j)'
         /\ WorkingIsHeld'
         /\ NoSecondRun'
<1>1. ASSUME NEW m \in Managers PROVE ManagerOK(m)'
  <2>1. ManagerOK(m)
    BY DEF IInv
  <2>2. QED
    BY <2>1 DEF ManagerOK, Held
<1>2. ASSUME NEW j \in Job PROVE RowOK(j)'
  <2>1. RowOK(j)
    BY DEF IInv
  <2>2. j \in Int /\ nextId \in Int /\ nextId' \in Int
    BY BoundsAssumption DEF TypeOK, IInv, Job
  <2>3. j >= nextId' => j >= nextId
    BY <2>2
  <2>4. QED
    BY <2>1, <2>3 DEF RowOK, ResultsOf
<1>3. WorkingIsHeld'
  BY DEF IInv, WorkingIsHeld, WithStatus, Fetchers, Held
<1>4. NoSecondRun'
  BY DEF IInv, NoSecondRun
<1>5. QED
  BY <1>1, <1>2, <1>3, <1>4

\* A step of a manager: no row appears or changes its arguments.
LEMMA ClientsKept ==
  ASSUME IInv, UNCHANGED <<client, nextId>>, faulty \subseteq faulty',
         \A j \in Job : /\ jobs'[j].status = "none" <=> jobs[j].status = "none"
                        /\ jobs'[j].args = jobs[j].args,
         \A j \in Job : ranBy[j] \subseteq ranBy'[j]
  PROVE  /\ \A c \in Clients : ClientOK(c)'
         /\ AnswerIsOwn'
         /\ CachedAnswerAgrees'
<1>1. ASSUME NEW c \in Clients PROVE ClientOK(c)'
  <2>1. ClientOK(c)
    BY DEF IInv
  <2>2. \A j \in Job : ResultsOf(j) \subseteq ResultsOf(j)'
    BY DEF ResultsOf
  <2>3. QED
    BY <2>1, <2>2 DEF ClientOK
<1>2. AnswerIsOwn'
  BY DEF IInv, AnswerIsOwn
<1>3. CachedAnswerAgrees'
  BY DEF IInv, CachedAnswerAgrees, Agrees
<1>4. QED
  BY <1>1, <1>2, <1>3

\* The managers that do not move, while rows that exist keep existing and rows
\* that left the queue stay out of it.
LEMMA OthersKept ==
  ASSUME IInv, NEW n \in Managers, manager'[n] = manager[n],
         faulty \subseteq faulty',
         \A j \in Job :
           /\ ranBy[j] \subseteq ranBy'[j]
           /\ jobs[j].status # "none" => jobs'[j].status # "none"
           /\ jobs[j].status \in {"working", "complete"} =>
                jobs'[j].status \in {"working", "complete"}
  PROVE  ManagerOK(n)'
<1>1. ManagerOK(n)
  BY DEF IInv
<1>2. Held(manager[n]) \subseteq Job
  BY DEF IInv, TypeOK, ManagerState, Held, Job, JobOrNone
<1>3. QED
  BY <1>1, <1>2 DEF ManagerOK, Held

\* The rows, when a step only adds faults.
LEMMA RowsKept ==
  ASSUME IInv, UNCHANGED <<jobs, nextId, ranBy>>, faulty \subseteq faulty'
  PROVE  \A j \in Job : RowOK(j)'
<1>1. ASSUME NEW j \in Job PROVE RowOK(j)'
  <2>1. RowOK(j)
    BY DEF IInv
  <2>2. QED
    BY <2>1 DEF RowOK, ResultsOf
<1>2. QED
  BY <1>1

\* What browsers were told stands, when no response changes: nobody gets hold
\* of a job that has one, and a new answer is the response of its row.
LEMMA StandsKept ==
  ASSUME IInv,
         \A j \in Job : /\ jobs'[j].response = jobs[j].response
                        /\ ranBy[j] \subseteq ranBy'[j],
         \A m \in Managers : \A j \in Held(manager'[m]) :
           j \in Job /\ (j \in Held(manager[m]) \/ jobs[j].response = NoResult),
         \A c \in Clients :
           \/ client'[c].result \in {NoResult, client[c].result}
           \/ /\ client'[c].result.job \in Job
              /\ jobs[client'[c].result.job].response = client'[c].result
  PROVE  AnswerStands'
<1>1. ASSUME NEW m \in Managers, NEW j \in Held(manager'[m])
      PROVE  jobs'[j].response # Result(j, m)
  BY ResultFacts DEF IInv, AnswerStands
<1>2. ASSUME NEW c \in Clients, client'[c].result # NoResult
      PROVE  LET j == client'[c].result.job
             IN  \/ jobs'[j].response = client'[c].result
                 \/ \E m, n \in ranBy'[j] : m # n
  <2>1. CASE client'[c].result = client[c].result
    <3> DEFINE j == client[c].result.job
    <3>1. j \in Job
      BY <1>2, <2>1 DEF IInv, ClientOK
    <3>2. jobs[j].response = client[c].result \/ \E m, n \in ranBy[j] : m # n
      BY <1>2, <2>1 DEF IInv, AnswerStands
    <3>3. QED
      BY <2>1, <3>1, <3>2
  <2>2. CASE /\ client'[c].result.job \in Job
             /\ jobs[client'[c].result.job].response = client'[c].result
    BY <2>2
  <2>3. QED
    BY <1>2, <2>1, <2>2
<1>3. QED
  BY <1>1, <1>2 DEF AnswerStands

-----------------------------------------------------------------------------
(* The invariant holds initially and is kept by every step of a client     *)

LEMMA InitInv == Init => IInv
<1>1. SUFFICES ASSUME Init PROVE IInv
  OBVIOUS
<1>2. TypeOK
  BY <1>1, InitType
<1>3. ASSUME NEW m \in Managers
      PROVE  ManagerOK(m)
  BY <1>1 DEF Init, Off, ManagerOK, Held
<1>4. ASSUME NEW j \in Job PROVE RowOK(j)
  BY <1>1 DEF Init, RowOK, ResultsOf
<1>5. \A c \in Clients : /\ client[c].pc = "idle" /\ client[c].reply = "none"
                         /\ client[c].result = NoResult
  BY <1>1 DEF Init
<1>6. ASSUME NEW c \in Clients PROVE ClientOK(c)
  BY <1>5 DEF ClientOK
<1>7. WorkingIsHeld /\ NoSecondRun
  BY <1>1 DEF Init, WorkingIsHeld, NoSecondRun, WithStatus
<1>8. AnswerIsOwn /\ CachedAnswerAgrees
  BY <1>5 DEF AnswerIsOwn, CachedAnswerAgrees
<1>9. AnswerStands
  BY <1>1, <1>5 DEF Init, Off, Held, AnswerStands
<1>10. QED
  BY <1>2, <1>3, <1>4, <1>6, <1>7, <1>8, <1>9 DEF IInv

\* The rows the cache lookup accepts agree with the arguments asked for and
\* hold their own result.
LEMMA CacheHitsAgree ==
  ASSUME IInv, NEW a \in Args, NEW j \in CacheHits(a)
  PROVE  /\ j \in Job
         /\ jobs[j].status = "complete"
         /\ jobs[j].response # NoResult
         /\ jobs[j].response.job = j
         /\ jobs[j].response \in ResultsOf(j) \cap Results
         /\ Agrees(jobs[j].args, a)
<1>1. j \in Job /\ jobs[j].status = "complete" /\ ArgsMatch(jobs[j].args, a)
  BY DEF CacheHits, Recent, WithStatus
<1>2. /\ jobs[j].response # NoResult /\ jobs[j].response \in ResultsOf(j)
      /\ jobs[j].response \in Results /\ ranBy[j] \subseteq Managers
  BY <1>1 DEF IInv, RowOK, TypeOK, Row
<1>5. jobs[j].response.job = j
  BY <1>1, <1>2, ResultFacts DEF ResultsOf
<1>3. Agrees(jobs[j].args, a)
  BY <1>1 DEF ArgsMatch, StoredStart, Agrees
<1>4. QED
  BY <1>1, <1>2, <1>3, <1>5

LEMMA CreateJobInv ==
  ASSUME IInv, NEW c \in Clients, NEW a \in Args, NEW h \in BOOLEAN,
         CreateJob(c, a, h)
  PROVE  IInv'
<1> DEFINE started == [pc |-> "insert", job |-> nextId, args |-> a, handle |-> h,
                       polls |-> 0, reply |-> "none", result |-> NoResult]
           cached(j) == [started EXCEPT !.pc = "idle", !.reply = "cached",
                                        !.result = jobs[j].response]
<1>0. /\ nextId <= MaxJobs /\ nextId' = nextId + 1
      /\ UNCHANGED <<jobs, clock, horizon, manager, flag, faulty, ranBy>>
  BY DEF CreateJob
<1>1. TypeOK
  BY DEF IInv
<1>2. /\ nextId \in Job /\ nextId' \in 1..(MaxJobs + 1) /\ nextId <= nextId'
      /\ nextId \in JobOrNone /\ 0 \in JobOrNone
  <2>1. nextId \in 1..(MaxJobs + 1)
    BY <1>1 DEF TypeOK
  <2>2. QED
    BY <1>0, <2>1, BoundsAssumption DEF Job, JobOrNone
<1>3. PICK s \in {started} \cup {cached(j) : j \in CacheHits(a)} :
         client' = [client EXCEPT ![c] = s]
  BY DEF CreateJob
<1>4. /\ s.job = nextId /\ s.args = a
      /\ \/ s.pc = "insert" /\ s.reply = "none" /\ s.result = NoResult
         \/ \E j \in CacheHits(a) : /\ s.pc = "idle" /\ s.reply = "cached"
                                    /\ s.result = jobs[j].response
  <2>1. CASE s = started
    BY <2>1
  <2>2. ASSUME NEW j \in CacheHits(a), s = cached(j)
        PROVE  /\ s.job = nextId /\ s.args = a
               /\ s.pc = "idle" /\ s.reply = "cached"
               /\ s.result = jobs[j].response
    BY <2>2
  <2>3. QED
    BY <1>3, <2>1, <2>2
<1>5. s \in ClientState
  <2>1. started \in ClientState
    BY <1>2, ZeroInBounds, ResultFacts DEF ClientState, Replies
  <2>2. ASSUME NEW j \in CacheHits(a) PROVE cached(j) \in ClientState
    <3>1. jobs[j].response \in Results
      BY CacheHitsAgree
    <3>2. QED
      BY <2>1, <3>1 DEF ClientState, Replies
  <2>3. QED
    BY <1>3, <2>1, <2>2
<1> HIDE DEF started, cached
<1>6. /\ client' \in [Clients -> ClientState]
      /\ \A d \in Clients : client'[d].pc # "idle" => client'[d].job \in Job
      /\ client'[c] = s
      /\ \A d \in Clients \ {c} : client'[d] = client[d]
  BY <1>1, <1>2, <1>3, <1>4, <1>5, ClientUpdate
<1>7. TypeOK'
  BY <1>0, <1>1, <1>2, <1>6 DEF TypeOK
<1>8. /\ \A m \in Managers : ManagerOK(m)'
      /\ \A j \in Job : RowOK(j)'
      /\ WorkingIsHeld'
      /\ NoSecondRun'
  BY <1>0, <1>2, <1>7, TableKept
<1>9. ASSUME NEW d \in Clients PROVE ClientOK(d)'
  <2>0. \A e \in Clients : ClientOK(e)
    BY DEF IInv
  <2>1. jobs[nextId].status = "none"
    BY <1>2 DEF IInv, RowOK, Job
  <2>2. nextId \in Int /\ \A e \in Clients \ {c} :
          client[e].pc # "idle" => client[e].job \in Int /\ client[e].job < nextId
    BY <1>1, <1>2, <2>0 DEF ClientOK, TypeOK, Job
  <2>3. CASE d = c
    <3>1. CASE s.pc = "insert" /\ s.reply = "none" /\ s.result = NoResult
      BY <1>0, <1>2, <1>4, <1>6, <2>1, <2>2, <2>3, <3>1 DEF ClientOK
    <3>2. ASSUME NEW j \in CacheHits(a), s.pc = "idle", s.reply = "cached",
                 s.result = jobs[j].response
          PROVE  ClientOK(d)'
      <4>1. /\ s.result # NoResult /\ s.result.job = j /\ j \in Job
            /\ s.result \in ResultsOf(j) /\ jobs[j].status # "none"
        BY <3>2, CacheHitsAgree
      <4>2. ResultsOf(j)' = ResultsOf(j)
        BY <1>0 DEF ResultsOf
      <4>3. QED
        BY <1>0, <1>6, <2>3, <3>2, <4>1, <4>2 DEF ClientOK
    <3>3. QED
      BY <1>4, <3>1, <3>2
  <2>4. CASE d # c
    <3>1. ClientOK(d) /\ client'[d] = client[d]
      BY <1>6, <2>0, <2>4
    <3>2. nextId < nextId' /\ (client[d].pc # "idle" => client[d].job < nextId')
      BY <1>0, <1>2, <2>2, <2>4 DEF Job
    <3>3. ASSUME NEW e \in Clients \ {d}, client[d].pc # "idle",
                 client'[e].pc # "idle"
          PROVE  client[d].job # client'[e].job
      BY <1>4, <1>6, <2>2, <2>4, <3>1, <3>3 DEF ClientOK
    <3>4. \A j \in Job : ResultsOf(j)' = ResultsOf(j)
      BY <1>0 DEF ResultsOf
    <3>5. QED
      BY <1>0, <3>1, <3>2, <3>3, <3>4 DEF ClientOK
  <2>5. QED
    BY <2>3, <2>4
<1>10. AnswerIsOwn'
  BY <1>0, <1>4, <1>6 DEF IInv, AnswerIsOwn
<1>11. CachedAnswerAgrees'
  <2>1. ASSUME NEW d \in Clients, client'[d].reply = "cached"
        PROVE  /\ client'[d].result.job \in Job
               /\ Agrees(jobs[client'[d].result.job].args, client'[d].args)
    <3>1. CASE d = c
      BY <1>4, <1>6, <2>1, <3>1, CacheHitsAgree
    <3>2. CASE d # c
      BY <1>6, <2>1, <3>2 DEF IInv, CachedAnswerAgrees
    <3>3. QED
      BY <3>1, <3>2
  <2>2. QED
    BY <1>0, <2>1 DEF CachedAnswerAgrees, Agrees
<1>12. AnswerStands'
  <2>1. \A d \in Clients :
           \/ client'[d].result \in {NoResult, client[d].result}
           \/ /\ client'[d].result.job \in Job
              /\ jobs[client'[d].result.job].response = client'[d].result
    BY <1>4, <1>6, CacheHitsAgree
  <2>2. \A m \in Managers : Held(manager[m]) \subseteq Job
    BY <1>1, HeldInJob
  <2>3. QED
    BY <1>0, <2>1, <2>2, StandsKept
<1>13. QED
  BY <1>7, <1>8, <1>9, <1>10, <1>11, <1>12 DEF IInv

\* A request that ends without an answer from the cache.
LEMMA ReplyInv ==
  ASSUME IInv, TypeOK', NEW c \in Clients, client[c].pc # "idle",
         NEW k \in Replies \ {"none", "cached"}, NEW r \in Results, Reply(c, k, r),
         r # NoResult => r = jobs[client[c].job].response,
         k = "complete" => r.job = client[c].job,
         k = "missing" => client[c].job \in faulty',
         UNCHANGED <<jobs, nextId, manager, ranBy>>, faulty \subseteq faulty'
  PROVE  IInv'
<1>1. TypeOK /\ \A d \in Clients : ClientOK(d)
  BY DEF IInv
<1>2. k \in Replies /\ k \notin {"none", "cached"}
  OBVIOUS
<1>4. /\ client'[c].pc = "idle" /\ client'[c].reply = k /\ client'[c].result = r
      /\ client'[c].job = client[c].job
      /\ \A d \in Clients \ {c} : client'[d] = client[d]
  BY <1>1, <1>2, ReplyType
<1>5. /\ \A m \in Managers : ManagerOK(m)'
      /\ \A j \in Job : RowOK(j)'
      /\ WorkingIsHeld'
      /\ NoSecondRun'
  BY <1>1, TableKept DEF TypeOK
<1>9. /\ client[c].job \in Job
      /\ r # NoResult => r \in ResultsOf(client[c].job) /\ r.job = client[c].job
  <2>1. client[c].job \in Job
    BY <1>1 DEF ClientOK
  <2>2. jobs[client[c].job].response \in ResultsOf(client[c].job)
    BY <2>1 DEF IInv, RowOK
  <2>3. ranBy[client[c].job] \subseteq Managers
    BY <1>1, <2>1 DEF TypeOK
  <2>4. QED
    BY <2>1, <2>2, <2>3, ResultFacts DEF ResultsOf
<1>10. \A j \in Job : ResultsOf(j)' = ResultsOf(j)
  BY DEF ResultsOf
<1>6. ASSUME NEW d \in Clients PROVE ClientOK(d)'
  <2>1. CASE d = c
    BY <1>2, <1>4, <1>9, <1>10, <2>1 DEF ClientOK
  <2>2. CASE d # c
    <3>1. ClientOK(d) /\ client'[d] = client[d]
      BY <1>1, <1>4, <2>2
    <3>2. QED
      BY <1>4, <1>10, <2>2, <3>1 DEF ClientOK
  <2>3. QED
    BY <2>1, <2>2
<1>7. AnswerIsOwn'
  BY <1>2, <1>4 DEF IInv, AnswerIsOwn
<1>8. CachedAnswerAgrees'
  <2>1. ASSUME NEW d \in Clients, client'[d].reply = "cached"
        PROVE  d # c /\ client'[d] = client[d]
    BY <1>2, <1>4, <2>1
  <2>2. QED
    BY <2>1 DEF IInv, CachedAnswerAgrees, Agrees
<1>11. AnswerStands'
  <2>1. \A d \in Clients :
           \/ client'[d].result \in {NoResult, client[d].result}
           \/ /\ client'[d].result.job \in Job
              /\ jobs[client'[d].result.job].response = client'[d].result
    BY <1>4, <1>9
  <2>2. \A m \in Managers : Held(manager[m]) \subseteq Job
    BY <1>1, HeldInJob
  <2>3. QED
    BY <2>1, <2>2, StandsKept
<1>12. QED
  BY <1>5, <1>6, <1>7, <1>8, <1>11 DEF IInv

\* A request that has inserted its row, or believes it has.
LEMMA InsertInv ==
  ASSUME IInv, NEW c \in Clients, InsertJob(c) \/ InsertLost(c)
  PROVE  IInv'
<1> DEFINE i == client[c].job
<1>1. /\ TypeOK
      /\ \A d \in Clients : ClientOK(d)
      /\ client[c].pc = "insert" /\ AfterInsert(c)
      /\ UNCHANGED <<nextId, horizon, manager, flag, ranBy>>
  BY DEF IInv, InsertJob, InsertLost
<1>2. /\ i \in Job /\ i < nextId /\ jobs[i].status = "none"
      /\ client[c] \in ClientState /\ client[c].result = NoResult
      /\ jobs[i].response = NoResult
  <2>1. i \in Job /\ i < nextId /\ jobs[i].status = "none"
    BY <1>1 DEF ClientOK
  <2>2. RowOK(i)
    BY <2>1 DEF IInv
  <2>3. QED
    BY <1>1, <2>1, <2>2 DEF ClientOK, TypeOK, RowOK
<1>3. \/ /\ jobs' = [jobs EXCEPT ![i] =
                      [status |-> "waiting", args |-> client[c].args,
                       response |-> NoResult, created |-> clock + 1]]
         /\ clock' = clock + 1
         /\ faulty' = faulty
      \/ jobs' = jobs /\ clock' = clock /\ faulty' = faulty \cup {i}
  BY DEF InsertJob, InsertLost
<1>4. /\ jobs' \in [Job -> Row]
      /\ \A j \in Job \ {i} : jobs'[j] = jobs[j]
      /\ \/ /\ jobs'[i].status = "waiting" /\ jobs'[i].args = client[c].args
            /\ jobs'[i].response = NoResult /\ faulty' = faulty
         \/ jobs'[i] = jobs[i] /\ faulty' = faulty \cup {i}
  <2> DEFINE row == [status |-> "waiting", args |-> client[c].args,
                     response |-> NoResult, created |-> clock + 1]
  <2>1. row \in Row /\ row.status = "waiting" /\ row.args = client[c].args
        /\ row.response = NoResult
    BY <1>1, <1>2, ResultFacts DEF TypeOK, Row, Statuses, ClientState
  <2>3. CASE jobs' = [jobs EXCEPT ![i] = row] /\ faulty' = faulty
    <3> HIDE DEF row, i
    <3>1. QED
      BY <1>1, <1>2, <2>1, <2>3 DEF TypeOK
  <2>4. CASE jobs' = jobs /\ faulty' = faulty \cup {i}
    BY <1>1, <2>4 DEF TypeOK
  <2>5. QED
    BY <1>3, <2>3, <2>4
<1>5. /\ client' \in [Clients -> ClientState]
      /\ \A d \in Clients : client'[d].pc # "idle" => client'[d].job \in Job
      /\ \A d \in Clients \ {c} : client'[d] = client[d]
      /\ client'[c].job = i /\ client'[c].args = client[c].args
      /\ \/ /\ client'[c].pc = "poll" /\ client'[c].reply = client[c].reply
            /\ client'[c].result = client[c].result
         \/ /\ client'[c].pc = "idle" /\ client'[c].reply = "created"
            /\ client'[c].result = NoResult
  BY <1>1, <1>2, AfterInsertType
<1>6. TypeOK'
  BY <1>1, <1>2, <1>3, <1>4, <1>5 DEF TypeOK
<1>7. ASSUME NEW m \in Managers PROVE ManagerOK(m)'
  <2>1. ManagerOK(m) /\ Held(manager[m]) \subseteq Job
    BY DEF IInv, TypeOK, ManagerState, Held, Job, JobOrNone
  <2>2. i \notin Held(manager[m])
    BY <1>2, <2>1 DEF ManagerOK
  <2>3. QED
    BY <1>1, <1>4, <2>1, <2>2 DEF ManagerOK, Held
<1>8. ASSUME NEW j \in Job PROVE RowOK(j)'
  <2>1. RowOK(j)
    BY DEF IInv
  <2>2. ~ (i >= nextId)
    BY <1>1, <1>2, BoundsAssumption DEF TypeOK, Job
  <2>3. QED
    BY <1>1, <1>2, <1>4, <2>1, <2>2 DEF RowOK, ResultsOf
<1>14. \A j \in Job : ResultsOf(j)' = ResultsOf(j)
  BY <1>1 DEF ResultsOf
<1>9. ASSUME NEW d \in Clients PROVE ClientOK(d)'
  <2>1. ClientOK(d) /\ ClientOK(c)
    BY <1>1
  <2>2. CASE d = c
    BY <1>1, <1>2, <1>4, <1>5, <2>1, <2>2 DEF ClientOK
  <2>3. CASE d # c
    <3>1. client'[d] = client[d]
      BY <1>5, <2>3
    <3>2. client[d].pc # "idle" => client[d].job # i
      BY <1>1, <2>1, <2>3 DEF ClientOK
    <3>3. client[d].reply = "cached" => client[d].result.job # i
      BY <1>2, <2>1 DEF ClientOK
    <3>4. QED
      BY <1>1, <1>4, <1>5, <1>14, <2>1, <2>3, <3>1, <3>2, <3>3 DEF ClientOK
  <2>4. QED
    BY <2>2, <2>3
<1>10. WorkingIsHeld' /\ NoSecondRun'
  BY <1>1, <1>2, <1>4 DEF IInv, WorkingIsHeld, NoSecondRun, WithStatus, Fetchers, Held
<1>11. AnswerIsOwn'
  <2>1. client[c].reply = "none"
    BY <1>1 DEF ClientOK
  <2>2. QED
    BY <1>4, <1>5, <2>1 DEF IInv, AnswerIsOwn
<1>12. CachedAnswerAgrees'
  <2>1. client[c].reply = "none"
    BY <1>1 DEF ClientOK
  <2>2. ASSUME NEW d \in Clients, client'[d].reply = "cached"
        PROVE  /\ client'[d].result.job \in Job
               /\ Agrees(jobs'[client'[d].result.job].args, client'[d].args)
    <3>1. d # c /\ client'[d] = client[d] /\ client[d].result.job # i
      BY <1>1, <1>2, <1>5, <2>1, <2>2 DEF ClientOK
    <3>2. QED
      BY <1>4, <2>2, <3>1 DEF IInv, CachedAnswerAgrees
  <2>3. QED
    BY <2>2 DEF CachedAnswerAgrees, Agrees
<1>13. AnswerStands'
  <2>1. /\ \A j \in Job : jobs'[j].response = jobs[j].response
        /\ \A d \in Clients : client'[d].result \in {NoResult, client[d].result}
    BY <1>2, <1>4, <1>5
  <2>2. \A m \in Managers : Held(manager[m]) \subseteq Job
    BY <1>1, HeldInJob
  <2>3. QED
    BY <1>1, <2>1, <2>2, StandsKept
<1>15. QED
  BY <1>6, <1>7, <1>8, <1>9, <1>10, <1>11, <1>12, <1>13 DEF IInv

LEMMA ClientStepInv ==
  ASSUME IInv, NEW c \in Clients, ClientStep(c)
  PROVE  IInv'
<1>1. /\ TypeOK /\ ClientOK(c)
      /\ \A j \in Job : RowOK(j)
  BY DEF IInv
<1>2. CASE InsertJob(c) \/ InsertLost(c)
  BY <1>2, InsertInv
<1>3. CASE InsertRefused(c)
  <2>1. client[c].pc # "idle" /\ Reply(c, "failed", NoResult) /\ "failed" \in Replies
    BY <1>3 DEF InsertRefused, Replies
  <2>2. TypeOK'
    BY <1>1, <1>3, <2>1, ReplyType, ResultFacts DEF TypeOK, InsertRefused
  <2>3. QED
    BY <1>3, <2>1, <2>2, ReplyInv, ResultFacts DEF InsertRefused
<1>4. CASE PollMissing(c) \/ PollLost(c)
  <2>1. client[c].pc # "idle" /\ Reply(c, "missing", NoResult) /\ "missing" \in Replies
    BY <1>4 DEF PollMissing, PollLost, Replies
  <2>2. TypeOK'
    BY <1>1, <1>4, <2>1, ReplyType, ResultFacts DEF TypeOK, PollMissing, PollLost
  <2>3. client[c].job \in faulty'
    BY <1>1, <1>4 DEF PollMissing, PollLost, ClientOK
  <2>4. QED
    BY <1>4, <2>1, <2>2, <2>3, ReplyInv, ResultFacts DEF PollMissing, PollLost
<1>5. CASE PollComplete(c)
  <2> DEFINE r == jobs[client[c].job].response
  <2>1. /\ client[c].pc # "idle" /\ "complete" \in Replies
        /\ Reply(c, "complete", r) /\ r \in Results /\ r.job = client[c].job
    <3>1. /\ client[c].job \in Job /\ client[c].pc = "poll"
          /\ jobs[client[c].job].status = "complete" /\ Reply(c, "complete", r)
      BY <1>1, <1>5 DEF PollComplete, ClientOK
    <3>2. r \in ResultsOf(client[c].job) /\ r # NoResult /\ r \in Results
      BY <1>1, <3>1 DEF RowOK, TypeOK, Row
    <3>3. ranBy[client[c].job] \subseteq Managers
      BY <1>1, <3>1 DEF TypeOK
    <3>4. QED
      BY <3>1, <3>2, <3>3, ResultFacts DEF ResultsOf, Replies
  <2>2. TypeOK'
    BY <1>1, <1>5, <2>1, ReplyType DEF TypeOK, PollComplete
  <2>3. QED
    BY <1>5, <2>1, <2>2, ReplyInv DEF PollComplete
<1>6. CASE PollAgain(c)
  <2>1. CASE client[c].polls + 1 < MaxPolls
    <3> DEFINE s == [client[c] EXCEPT !.polls = client[c].polls + 1]
    <3>1. client[c] \in ClientState
      BY <1>1 DEF TypeOK
    <3>2. client[c].polls + 1 \in 0..MaxPolls
      BY <2>1, <3>1, BoundsAssumption DEF ClientState
    <3>3. s \in ClientState /\ \A f \in DOMAIN s \ {"polls"} : s[f] = client[c][f]
      BY <3>1, <3>2 DEF ClientState
    <3>4. /\ s.pc = client[c].pc /\ s.job = client[c].job /\ s.args = client[c].args
          /\ s.reply = client[c].reply /\ s.result = client[c].result
      BY <3>1 DEF ClientState
    <3>5. client' = [client EXCEPT ![c] = s]
      BY <1>6, <2>1 DEF PollAgain
    <3> HIDE DEF s
    <3>6. /\ client' \in [Clients -> ClientState]
          /\ \A d \in Clients : client'[d].pc # "idle" => client'[d].job \in Job
          /\ client'[c] = s
          /\ \A d \in Clients \ {c} : client'[d] = client[d]
      BY <1>1, <3>3, <3>4, <3>5, ClientUpdate DEF TypeOK
    <3>7. \A d \in Clients :
            /\ client'[d].pc = client[d].pc /\ client'[d].job = client[d].job
            /\ client'[d].args = client[d].args
            /\ client'[d].reply = client[d].reply
            /\ client'[d].result = client[d].result
      BY <3>4, <3>6
    <3>8. TypeOK'
      BY <1>1, <1>6, <3>6 DEF TypeOK, PollAgain
    <3>9. UNCHANGED <<jobs, nextId, manager, ranBy, faulty>> /\ nextId <= nextId'
      BY <1>1, <1>6 DEF PollAgain, TypeOK
    <3>10. ASSUME NEW d \in Clients PROVE ClientOK(d)'
      <4>1. ClientOK(d)
        BY DEF IInv
      <4>2. \A j \in Job : ResultsOf(j)' = ResultsOf(j)
        BY <3>9 DEF ResultsOf
      <4>3. QED
        BY <3>7, <3>9, <4>1, <4>2 DEF ClientOK
    <3>11. AnswerIsOwn' /\ CachedAnswerAgrees'
      BY <3>7, <3>9 DEF IInv, AnswerIsOwn, CachedAnswerAgrees, Agrees
    <3>12. AnswerStands'
      <4>1. \A m \in Managers : Held(manager[m]) \subseteq Job
        BY <1>1, HeldInJob
      <4>2. QED
        BY <3>7, <3>9, <4>1, StandsKept
    <3>13. QED
      BY <3>8, <3>9, <3>10, <3>11, <3>12, TableKept DEF IInv
  <2>2. CASE ~ (client[c].polls + 1 < MaxPolls)
    <3>1. client[c].pc # "idle" /\ Reply(c, "timeout", NoResult) /\ "timeout" \in Replies
      BY <1>6, <2>2 DEF PollAgain, Replies
    <3>2. TypeOK'
      BY <1>1, <1>6, <3>1, ReplyType, ResultFacts DEF TypeOK, PollAgain
    <3>3. QED
      BY <1>6, <3>1, <3>2, ReplyInv, ResultFacts DEF PollAgain
  <2>3. QED
    BY <2>1, <2>2
<1>7. QED
  BY <1>2, <1>3, <1>4, <1>5, <1>6 DEF ClientStep

-----------------------------------------------------------------------------
(* The invariant is kept by every step of a manager                        *)

\* The manager's record after each step that takes job j from a list.
LEMMA TakenTypes ==
  ASSUME TypeOK, NEW m \in Managers, NEW j \in Job
  PROVE  LET s == manager[m]
             t == [s EXCEPT !.todo = s.todo \ {j}]
             b == [s EXCEPT !.batch = s.batch \ {j}]
             u == [s EXCEPT !.pc = "update", !.batch = s.batch \ {j}, !.current = j]
         IN  /\ t \in ManagerState /\ b \in ManagerState /\ u \in ManagerState
             /\ t.pc = s.pc /\ t.todo = s.todo \ {j} /\ t.batch = s.batch
             /\ t.current = s.current
             /\ b.pc = s.pc /\ b.todo = s.todo /\ b.batch = s.batch \ {j}
             /\ b.current = s.current
             /\ u.pc = "update" /\ u.todo = s.todo /\ u.batch = s.batch \ {j}
             /\ u.current = j
<1> DEFINE s == manager[m]
           t == [s EXCEPT !.todo = s.todo \ {j}]
           b == [s EXCEPT !.batch = s.batch \ {j}]
           u == [s EXCEPT !.pc = "update", !.batch = s.batch \ {j}, !.current = j]
<1>1. s \in ManagerState /\ j \in JobOrNone
  BY DEF TypeOK, Job, JobOrNone
<1> HIDE DEF s
<1>2. /\ t \in ManagerState /\ t.pc = s.pc /\ t.todo = s.todo \ {j}
      /\ t.batch = s.batch /\ t.current = s.current
  BY <1>1 DEF ManagerState
<1>3. /\ b \in ManagerState /\ b.pc = s.pc /\ b.todo = s.todo
      /\ b.batch = s.batch \ {j} /\ b.current = s.current
  BY <1>1 DEF ManagerState
<1>4. /\ u \in ManagerState /\ u.pc = "update" /\ u.todo = s.todo
      /\ u.batch = s.batch \ {j} /\ u.current = j
  BY <1>1 DEF ManagerState
<1>5. QED
  BY <1>2, <1>3, <1>4 DEF s

\* A step that ends the work of m: what it held is faulty or was nothing.
LEMMA LetGoInv ==
  ASSUME IInv, NEW m \in Managers, NEW s \in ManagerState,
         manager' = [manager EXCEPT ![m] = s],
         s.pc \in {"off", "fetch"}, s.todo = {}, s.batch = {}, s.current = 0,
         Held(manager[m]) \subseteq faulty', faulty' \subseteq Job,
         UNCHANGED <<jobs, nextId, clock, horizon, client, flag, ranBy>>,
         faulty \subseteq faulty'
  PROVE  IInv'
<1>1. TypeOK
  BY DEF IInv
<1>2. /\ manager' \in [Managers -> ManagerState]
      /\ \A n \in Managers :
            manager'[n].pc = "update" => manager'[n].current \in Job
      /\ manager'[m] = s
      /\ \A n \in Managers \ {m} : manager'[n] = manager[n]
  BY <1>1, ManagerUpdate
<1>3. TypeOK'
  BY <1>1, <1>2 DEF TypeOK
<1>4. ASSUME NEW n \in Managers PROVE ManagerOK(n)'
  <2>1. CASE n = m
    BY <1>2, <2>1 DEF ManagerOK, Held
  <2>2. CASE n # m
    BY <1>2, <2>2, OthersKept
  <2>3. QED
    BY <2>1, <2>2
<1>5. /\ \A j \in Job : RowOK(j)'
      /\ \A c \in Clients : ClientOK(c)'
      /\ AnswerIsOwn' /\ CachedAnswerAgrees'
  BY RowsKept, ClientsKept
<1>6. WorkingIsHeld'
  <2>1. ASSUME NEW j \in WithStatus("working") \ faulty'
        PROVE  \E n \in Managers : j \in Held(manager'[n])
    <3>1. PICK n \in Managers : j \in Held(manager[n])
      BY <2>1 DEF IInv, WorkingIsHeld, Fetchers
    <3>2. n # m
      BY <2>1, <3>1
    <3>3. QED
      BY <1>2, <3>1, <3>2
  <2>2. QED
    BY <2>1 DEF WorkingIsHeld, WithStatus, Fetchers
<1>7. NoSecondRun'
  BY <1>2 DEF IInv, NoSecondRun
<1>8. AnswerStands'
  <2>1. \A n \in Managers : Held(manager'[n]) \subseteq Held(manager[n]) \cap Job
    <3>1. \A n \in Managers : Held(manager[n]) \subseteq Job
      BY <1>1, HeldInJob
    <3>2. Held(manager'[m]) = {}
      BY <1>2 DEF Held
    <3>3. QED
      BY <1>2, <3>1, <3>2
  <2>2. QED
    BY <2>1, StandsKept
<1>9. QED
  BY <1>3, <1>4, <1>5, <1>6, <1>7, <1>8 DEF IInv

LEMMA StartInv ==
  ASSUME IInv, NEW m \in Managers, StartManager(m)
  PROVE  IInv'
<1> DEFINE s == [Off EXCEPT !.pc = "fetch"]
<1>1. TypeOK /\ ManagerOK(m)
  BY DEF IInv
<1>2. /\ s \in ManagerState /\ s.pc = "fetch" /\ s.todo = {} /\ s.batch = {}
      /\ s.current = 0
  BY OffType DEF Off, ManagerState
<1>3. Held(manager[m]) = {}
  BY <1>1 DEF StartManager, ManagerOK, Held
<1>4. manager' = [manager EXCEPT ![m] = s] /\ faulty' \subseteq Job
  BY <1>1 DEF StartManager, TypeOK
<1> HIDE DEF s
<1>5. QED
  BY <1>2, <1>3, <1>4, LetGoInv DEF StartManager

LEMMA CrashInv ==
  ASSUME IInv, NEW m \in Managers, CrashManager(m)
  PROVE  IInv'
<1>1. Off.pc = "off" /\ Off.todo = {} /\ Off.batch = {} /\ Off.current = 0
  BY DEF Off
<1>2. faulty' \subseteq Job
  BY HeldInJob DEF IInv, TypeOK, CrashManager
<1>3. QED
  BY <1>1, <1>2, OffType, LetGoInv DEF CrashManager

LEMMA EndRoundInv ==
  ASSUME IInv, NEW m \in Managers, EndRound(m) \/ LoseReply(m)
  PROVE  IInv'
<1>1. TypeOK /\ ManagerOK(m) /\ manager[m] \in ManagerState
  BY DEF IInv, TypeOK
<1>2. Held(manager[m]) \subseteq faulty' /\ faulty' \subseteq Job
  BY <1>1 DEF EndRound, LoseReply, Held, ManagerOK, TypeOK, ManagerState
<1>3. manager' = [manager EXCEPT ![m] = NextRound(manager[m])]
  BY DEF EndRound, LoseReply
<1>4. QED
  BY <1>1, <1>2, <1>3, NextRoundType, LetGoInv DEF EndRound, LoseReply

LEMMA SelectInv ==
  ASSUME IInv, NEW m \in Managers, GetJobSelect(m)
  PROVE  IInv'
<1>1. TypeOK /\ ManagerOK(m) /\ manager[m] \in ManagerState
  BY DEF IInv, TypeOK
<1>2. /\ manager[m].pc = "fetch"
      /\ UNCHANGED <<jobs, nextId, clock, horizon, client, flag, faulty, ranBy>>
  BY DEF GetJobSelect
<1>3. PICK S \in SUBSET WithStatus("waiting") :
         manager' = [manager EXCEPT
           ![m] = IF S = {} THEN NextRound(manager[m])
                  ELSE [manager[m] EXCEPT !.pc = "marking", !.todo = S, !.batch = S]]
  BY DEF GetJobSelect
<1>4. Held(manager[m]) = {} /\ faulty' \subseteq Job /\ manager[m].current = 0
  BY <1>1, <1>2 DEF ManagerOK, Held, TypeOK
<1>5. CASE S = {}
  <2>1. manager' = [manager EXCEPT ![m] = NextRound(manager[m])]
    BY <1>3, <1>5
  <2>2. QED
    BY <1>1, <1>2, <1>4, <2>1, NextRoundType, LetGoInv
<1>6. CASE S # {}
  <2> DEFINE s == [manager[m] EXCEPT !.pc = "marking", !.todo = S, !.batch = S]
  <2>1. /\ s \in ManagerState /\ s.pc = "marking" /\ s.todo = S /\ s.batch = S
        /\ s.current = 0
    BY <1>1, <1>4 DEF ManagerState, WithStatus
  <2>2. manager' = [manager EXCEPT ![m] = s]
    BY <1>3, <1>6
  <2> HIDE DEF s
  <2>3. /\ manager' \in [Managers -> ManagerState]
        /\ \A n \in Managers :
              manager'[n].pc = "update" => manager'[n].current \in Job
        /\ manager'[m] = s
        /\ \A n \in Managers \ {m} : manager'[n] = manager[n]
    BY <1>1, <2>1, <2>2, ManagerUpdate
  <2>4. TypeOK'
    BY <1>1, <1>2, <2>3 DEF TypeOK
  <2>5. ASSUME NEW n \in Managers PROVE ManagerOK(n)'
    <3>1. CASE n = m
      BY <1>2, <2>1, <2>3, <3>1 DEF ManagerOK, Held, WithStatus
    <3>2. CASE n # m
      BY <1>2, <2>3, <3>2, OthersKept
    <3>3. QED
      BY <3>1, <3>2
  <2>6. /\ \A j \in Job : RowOK(j)'
        /\ \A c \in Clients : ClientOK(c)'
        /\ AnswerIsOwn' /\ CachedAnswerAgrees'
    BY <1>2, RowsKept, ClientsKept
  <2>7. WorkingIsHeld'
    <3>1. ASSUME NEW j \in WithStatus("working") \ faulty
          PROVE  \E n \in Managers : j \in Held(manager'[n])
      <4>1. PICK n \in Managers : j \in Held(manager[n])
        BY <3>1 DEF IInv, WorkingIsHeld, Fetchers
      <4>2. n # m
        BY <1>4, <4>1
      <4>3. QED
        BY <2>3, <4>1, <4>2
    <3>2. QED
      BY <1>2, <3>1 DEF WorkingIsHeld, WithStatus, Fetchers
  <2>8. NoSecondRun'
    <3>1. \A j \in S \ faulty : ranBy[j] = {}
      BY DEF IInv, RowOK, WithStatus
    <3>2. ASSUME NEW j \in Job \ faulty, NEW n \in ranBy[j]
          PROVE  j \notin manager'[n].batch
      <4>1. n \in Managers /\ j \notin manager[n].batch
        BY <1>1 DEF IInv, NoSecondRun, TypeOK
      <4>2. CASE n = m
        BY <2>1, <2>3, <3>1, <4>1, <4>2
      <4>3. CASE n # m
        BY <2>3, <4>1, <4>3
      <4>4. QED
        BY <4>2, <4>3
    <3>3. QED
      BY <1>2, <3>2 DEF NoSecondRun
  <2>9. AnswerStands'
    <3>1. Held(manager'[m]) = S
      BY <2>1, <2>3 DEF Held
    <3>2. \A j \in S : j \in Job /\ jobs[j].response = NoResult
      BY DEF IInv, RowOK, WithStatus
    <3>3. \A n \in Managers : Held(manager[n]) \subseteq Job
      BY <1>1, HeldInJob
    <3>4. QED
      BY <1>2, <2>3, <3>1, <3>2, <3>3, StandsKept
  <2>10. QED
    BY <2>4, <2>5, <2>6, <2>7, <2>8, <2>9 DEF IInv
<1>7. QED
  BY <1>5, <1>6

\* A step in which m gives up or passes on job j: the row of j may leave the
\* queue, and m keeps j, completes it or leaves it as faulty.
JobStep(m, j, s) ==
  /\ manager' = [manager EXCEPT ![m] = s]
  /\ s.pc = "update" => s.current \in Job
  \* the manager: j is the only job whose place changes
  /\ s.todo \subseteq s.batch
  /\ s.pc # "marking" => s.todo = {}
  /\ s.pc \notin {"off", "fetch"}
  /\ s.pc # "update" => s.current = 0
  /\ s.pc = "update" => s.current = j /\ j \notin s.batch /\ m \in ranBy'[j]
  /\ s.batch \subseteq manager[m].batch
  /\ Held(s) \subseteq Held(manager[m])
  /\ Held(manager[m]) \ {j} \subseteq Held(s)
  /\ manager[m].todo \ {j} \subseteq s.todo
  \* the table: only the status and the response of j change
  /\ jobs' \in [Job -> Row]
  /\ \A k \in Job \ {j} : jobs'[k] = jobs[k]
  /\ jobs'[j].args = jobs[j].args
  /\ jobs'[j].status # "none"
  /\ jobs[j].status \in {"working", "complete"} =>
       jobs'[j].status \in {"working", "complete"}
  /\ j \notin s.todo \cup faulty' => jobs'[j].status \in {"working", "complete"}
  /\ \/ jobs'[j].response = jobs[j].response
     \/ /\ jobs'[j].response = Result(j, m) /\ m \in ranBy[j]
        /\ j \notin Held(s) /\ j \notin s.batch
        /\ jobs'[j].status = "complete"
  /\ jobs'[j].status = "complete" => jobs'[j].response # NoResult
  /\ jobs'[j].status # jobs[j].status =>
       jobs'[j].status \in {"working", "complete"}
  /\ jobs'[j].status = "working" => j \in Held(s) \cup faulty'
  \* the history
  /\ \/ UNCHANGED ranBy
     \/ /\ ranBy' = [ranBy EXCEPT ![j] = @ \cup {m}]
        /\ j \notin s.batch
        /\ manager[m].pc = "process"
  /\ faulty \subseteq faulty' /\ faulty' \subseteq Job
  /\ UNCHANGED <<nextId, clock, horizon, client, flag>>

LEMMA JobStepInv ==
  ASSUME IInv, NEW m \in Managers, NEW j \in Held(manager[m]), NEW s \in ManagerState,
         JobStep(m, j, s)
  PROVE  IInv'
<1> USE DEF JobStep
<1>1. TypeOK /\ ManagerOK(m) /\ manager[m] \in ManagerState /\ RowOK(j)
  BY HeldInJob DEF IInv, TypeOK
<1>2. j \in Job /\ jobs[j].status # "none"
  BY <1>1, HeldInJob DEF ManagerOK
<1>3. /\ manager' \in [Managers -> ManagerState]
      /\ \A n \in Managers :
            manager'[n].pc = "update" => manager'[n].current \in Job
      /\ manager'[m] = s
      /\ \A n \in Managers \ {m} : manager'[n] = manager[n]
  BY <1>1, ManagerUpdate
<1>4. /\ ranBy' \in [Job -> SUBSET Managers]
      /\ \A k \in Job : ranBy[k] \subseteq ranBy'[k]
  BY <1>1, <1>2 DEF TypeOK
<1>5. TypeOK'
  BY <1>1, <1>3, <1>4 DEF TypeOK
<1>6. ASSUME NEW n \in Managers PROVE ManagerOK(n)'
  <2>1. CASE n = m
    <3>1. \A k \in Held(s) : k \in Job /\ jobs'[k].status # "none"
      BY <1>1, <1>2, HeldInJob DEF ManagerOK
    <3>2. \A k \in Held(s) \ (s.todo \cup faulty') :
             jobs'[k].status \in {"working", "complete"}
      BY <1>1, <1>2, HeldInJob DEF ManagerOK
    <3>3. QED
      BY <1>3, <2>1, <3>1, <3>2 DEF ManagerOK
  <2>2. CASE n # m
    <3>1. \A k \in Job :
           /\ ranBy[k] \subseteq ranBy'[k]
           /\ jobs[k].status # "none" => jobs'[k].status # "none"
           /\ jobs[k].status \in {"working", "complete"} =>
                jobs'[k].status \in {"working", "complete"}
      BY <1>4
    <3>2. QED
      BY <1>3, <2>2, <3>1, OthersKept
  <2>3. QED
    BY <2>1, <2>2
<1>7. ASSUME NEW k \in Job PROVE RowOK(k)'
  <2>1. RowOK(k)
    BY DEF IInv
  <2>2. CASE k = j
    <3>1. j \notin faulty' /\ ranBy'[j] # {} =>
            jobs'[j].status \in {"working", "complete"}
      <4>1. CASE UNCHANGED ranBy
        BY <2>1, <2>2, <4>1 DEF RowOK
      <4>2. CASE manager[m].pc = "process" /\ j \notin s.batch
        BY <1>1, <4>2 DEF ManagerOK
      <4>3. QED
        BY <4>1, <4>2
    <3>2. jobs'[j].response \in ResultsOf(j)'
      BY <1>2, <1>4, <2>1, <2>2 DEF RowOK, ResultsOf
    <3>3. jobs'[j].response # NoResult => jobs'[j].status \notin {"none", "waiting"}
      BY <2>1, <2>2 DEF RowOK
    <3>4. QED
      BY <1>1, <1>2, <2>1, <2>2, <3>1, <3>2, <3>3 DEF RowOK
  <2>3. CASE k # j
    <3>1. ranBy'[k] = ranBy[k] /\ jobs'[k] = jobs[k]
      BY <1>1, <1>2, <2>3 DEF TypeOK
    <3>2. QED
      BY <2>1, <3>1 DEF RowOK, ResultsOf
  <2>4. QED
    BY <2>2, <2>3
<1>8. /\ \A c \in Clients : ClientOK(c)'
      /\ AnswerIsOwn' /\ CachedAnswerAgrees'
  <2>1. \A k \in Job : /\ jobs'[k].status = "none" <=> jobs[k].status = "none"
                       /\ jobs'[k].args = jobs[k].args
    <3>1. /\ \A k \in Job \ {j} : jobs'[k] = jobs[k]
          /\ jobs'[j].args = jobs[j].args /\ jobs'[j].status # "none"
      OBVIOUS
    <3>2. QED
      BY <1>2, <3>1
  <2>2. UNCHANGED <<client, nextId>> /\ faulty \subseteq faulty' /\ IInv
    OBVIOUS
  <2>3. QED
    BY ONLY <1>4, <2>1, <2>2, ClientsKept
<1>9. WorkingIsHeld'
  <2>1. ASSUME NEW k \in Job, jobs'[k].status = "working", k \notin faulty'
        PROVE  \E n \in Managers : k \in Held(manager'[n])
    <3>1. CASE k = j
      BY <1>3, <2>1, <3>1
    <3>2. CASE k # j
      <4>1. PICK n \in Managers : k \in Held(manager[n])
        BY <2>1, <3>2 DEF IInv, WorkingIsHeld, Fetchers, WithStatus
      <4>2. QED
        BY <1>3, <3>2, <4>1
    <3>3. QED
      BY <3>1, <3>2
  <2>2. QED
    BY <2>1 DEF WorkingIsHeld, WithStatus, Fetchers
<1>10. NoSecondRun'
  <2>1. ASSUME NEW k \in Job \ faulty', NEW n \in ranBy'[k]
        PROVE  k \notin manager'[n].batch
    <3>1. n \in Managers
      BY <1>4, <2>1
    <3>2. CASE n \in ranBy[k]
      <4>1. k \notin manager[n].batch
        BY <3>2 DEF IInv, NoSecondRun
      <4>2. QED
        BY <1>3, <3>1, <4>1
    <3>3. CASE n \notin ranBy[k]
      <4>1. k = j /\ n = m /\ j \notin s.batch
        BY <1>1, <1>2, <3>3 DEF TypeOK
      <4>2. QED
        BY <1>3, <4>1
    <3>4. QED
      BY <3>2, <3>3
  <2>2. QED
    BY <2>1 DEF NoSecondRun
<1>11. AnswerStands'
  <2>1. /\ \A n \in Managers : Held(manager[n]) \subseteq Job
        /\ \A n \in Managers : Held(manager'[n]) \subseteq Held(manager[n])
    BY <1>1, <1>3, HeldInJob
  <2>2. CASE jobs'[j].response = jobs[j].response
    <3>1. \A k \in Job : jobs'[k].response = jobs[k].response
      BY <2>2
    <3>2. QED
      BY <1>4, <2>1, <3>1, StandsKept
  <2>3. CASE /\ jobs'[j].response = Result(j, m) /\ m \in ranBy[j]
             /\ j \notin Held(s)
    <3>1. ASSUME NEW n \in Managers, NEW k \in Held(manager'[n])
          PROVE  jobs'[k].response # Result(k, n)
      <4>1. k \in Job /\ k \in Held(manager[n])
        BY <2>1
      <4>2. jobs[k].response # Result(k, n)
        BY <4>1 DEF IInv, AnswerStands
      <4>3. CASE k = j
        <5>1. n # m
          BY <1>3, <2>3, <4>3
        <5>2. QED
          BY <1>2, <2>3, <4>3, <5>1, ResultFacts
      <4>4. QED
        BY <4>1, <4>2, <4>3
    <3>2. ASSUME NEW c \in Clients, client'[c].result # NoResult
          PROVE  LET k == client'[c].result.job
                 IN  \/ jobs'[k].response = client'[c].result
                     \/ \E n, o \in ranBy'[k] : n # o
      <4> DEFINE k == client[c].result.job
      <4>1. /\ k \in Job /\ client[c].result \in ResultsOf(k)
            /\ jobs[k].response = client[c].result \/ \E n, o \in ranBy[k] : n # o
        BY <3>2 DEF IInv, ClientOK, AnswerStands
      <4>2. CASE k = j /\ client[c].result # Result(j, m)
        <5>1. PICK n \in ranBy[j] : client[c].result = Result(j, n)
          BY <3>2, <4>1, <4>2 DEF ResultsOf
        <5>2. n # m /\ n \in ranBy'[j] /\ m \in ranBy'[j]
          BY <1>2, <1>4, <2>3, <4>2, <5>1
        <5>3. QED
          BY <4>2, <5>2
      <4>3. CASE k = j /\ client[c].result = Result(j, m)
        BY <2>3, <4>3
      <4>4. CASE k # j
        BY <1>4, <4>1, <4>4
      <4>5. QED
        BY <4>2, <4>3, <4>4
    <3>3. QED
      BY <3>1, <3>2 DEF AnswerStands
  <2>4. QED
    BY <2>2, <2>3
<1>12. QED
  BY <1>5, <1>6, <1>7, <1>8, <1>9, <1>10, <1>11 DEF IInv

\* What is known of a manager that takes job j from one of its lists.
LEMMA HandFacts ==
  ASSUME IInv, NEW m \in Managers, NEW j \in Held(manager[m])
  PROVE  /\ j \in Job /\ j # 0 /\ manager[m] \in ManagerState
         /\ jobs[j] \in Row /\ jobs[j].status # "none"
         /\ jobs[j].status = "complete" => jobs[j].response # NoResult
         /\ j \notin manager[m].todo \cup faulty =>
              jobs[j].status \in {"working", "complete"}
         /\ faulty \subseteq Job
<1>1. TypeOK /\ ManagerOK(m) /\ j \in Job
  BY HeldInJob DEF IInv
<1>2. RowOK(j)
  BY <1>1 DEF IInv
<1>3. QED
  BY <1>1, <1>2 DEF TypeOK, ManagerOK, RowOK, Job

LEMMA MarkInv ==
  ASSUME IInv, NEW m \in Managers, GetJobMark(m) \/ GetJobMarkLost(m)
  PROVE  IInv'
<1>1. TypeOK /\ ManagerOK(m) /\ manager[m] \in ManagerState
  BY DEF IInv, TypeOK
<1>2. /\ manager[m].pc = "marking"
      /\ UNCHANGED <<nextId, clock, horizon, client, flag, ranBy>>
  BY DEF GetJobMark, GetJobMarkLost
<1>3. PICK j \in manager[m].todo :
         /\ manager' = [manager EXCEPT
                          ![m] = [manager[m] EXCEPT !.todo = manager[m].todo \ {j}]]
         /\ \/ /\ jobs' = [jobs EXCEPT ![j] = [jobs[j] EXCEPT !.status = "working"]]
               /\ faulty' = faulty
            \/ /\ jobs' = jobs
               /\ faulty' = faulty \cup {j}
  BY DEF GetJobMark, GetJobMarkLost
<1> DEFINE s == [manager[m] EXCEPT !.todo = manager[m].todo \ {j}]
<1>4. j \in Held(manager[m]) /\ manager[m].current = 0
  BY <1>1, <1>2 DEF ManagerOK, Held
<1>5. /\ s \in ManagerState /\ s.pc = "marking" /\ s.todo = manager[m].todo \ {j}
      /\ s.batch = manager[m].batch /\ s.current = 0
  <2>1. j \in Job
    BY <1>1, <1>4, HeldInJob
  <2>2. QED
    BY <1>1, <1>2, <1>4, <2>1, TakenTypes
<1>6. manager' = [manager EXCEPT ![m] = s]
  BY <1>3
<1> HIDE DEF s
<1>7. Held(s) = Held(manager[m]) /\ s.todo \subseteq s.batch
  BY <1>1, <1>4, <1>5 DEF Held, ManagerOK
<1>8. /\ jobs' \in [Job -> Row]
      /\ \A k \in Job \ {j} : jobs'[k] = jobs[k]
      /\ jobs'[j].args = jobs[j].args
      /\ jobs'[j].response = jobs[j].response
      /\ faulty \subseteq faulty' /\ faulty' \subseteq Job
      /\ \/ jobs'[j].status = "working"
         \/ jobs'[j].status = jobs[j].status /\ j \in faulty'
  <2>1. j \in Job /\ jobs \in [Job -> Row] /\ jobs[j] \in Row /\ faulty \subseteq Job
    BY <1>1, <1>4, HandFacts DEF TypeOK
  <2>2. [jobs[j] EXCEPT !.status = "working"] \in Row
    BY <2>1 DEF Row, Statuses
  <2>3. QED
    BY <1>3, <2>1, <2>2 DEF Row
<1>9. JobStep(m, j, s)
  <2>1. /\ jobs[j].status # "none"
        /\ jobs[j].status = "complete" => jobs[j].response # NoResult
    BY <1>4, HandFacts
  <2>2. QED
    BY <1>2, <1>4, <1>5, <1>6, <1>7, <1>8, <2>1 DEF JobStep
<1>10. QED
  BY <1>4, <1>5, <1>9, JobStepInv

LEMMA RunInv ==
  ASSUME IInv, NEW m \in Managers, Run(m) \/ RunThrows(m)
  PROVE  IInv'
<1>1. TypeOK /\ ManagerOK(m) /\ manager[m] \in ManagerState
  BY DEF IInv, TypeOK
<1>2. /\ manager[m].pc = "process" /\ faulty \subseteq faulty'
      /\ UNCHANGED <<jobs, nextId, clock, horizon, client, flag>>
  BY DEF Run, RunThrows
<1>3. /\ manager[m].todo = {} /\ manager[m].current = 0
      /\ Held(manager[m]) = manager[m].batch
  BY <1>1, <1>2 DEF ManagerOK, Held
<1>4. CASE Run(m)
  <2>1. PICK j \in manager[m].batch :
           /\ manager' = [manager EXCEPT
                ![m] = [manager[m] EXCEPT !.pc = "update",
                                          !.batch = manager[m].batch \ {j},
                                          !.current = j]]
           /\ ranBy' = [ranBy EXCEPT ![j] = @ \cup {m}]
           /\ faulty' = faulty
    BY <1>4 DEF Run
  <2> DEFINE s == [manager[m] EXCEPT !.pc = "update",
                                     !.batch = manager[m].batch \ {j},
                                     !.current = j]
  <2>2. j \in Held(manager[m])
    BY <1>3
  <2>3. /\ j \in Job /\ j # 0 /\ jobs[j].status # "none"
        /\ jobs[j].status = "complete" => jobs[j].response # NoResult
        /\ j \notin faulty => jobs[j].status \in {"working", "complete"}
        /\ faulty \subseteq Job
    BY <1>3, <2>2, HandFacts
  <2>4. /\ s \in ManagerState /\ s.pc = "update" /\ s.todo = {}
        /\ s.batch = manager[m].batch \ {j} /\ s.current = j
    BY <1>1, <1>3, <2>3, TakenTypes
  <2>5. manager' = [manager EXCEPT ![m] = s]
    BY <2>1
  <2> HIDE DEF s
  <2>6. Held(s) = Held(manager[m]) /\ jobs' \in [Job -> Row]
    BY <1>1, <1>2, <1>3, <2>2, <2>3, <2>4 DEF Held, TypeOK
  <2>9. m \in ranBy'[j]
    BY <1>1, <2>1, <2>3 DEF TypeOK
  <2>7. JobStep(m, j, s)
    BY <1>2, <1>3, <2>1, <2>2, <2>3, <2>4, <2>5, <2>6, <2>9 DEF JobStep
  <2>8. QED
    BY <2>2, <2>4, <2>7, JobStepInv
<1>5. CASE RunThrows(m)
  <2>1. PICK j \in manager[m].batch :
           /\ manager' = [manager EXCEPT
                ![m] = [manager[m] EXCEPT !.batch = manager[m].batch \ {j}]]
           /\ ranBy' = [ranBy EXCEPT ![j] = @ \cup {m}]
           /\ faulty' = faulty \cup {j}
    BY <1>5 DEF RunThrows
  <2> DEFINE s == [manager[m] EXCEPT !.batch = manager[m].batch \ {j}]
  <2>2. j \in Held(manager[m])
    BY <1>3
  <2>3. /\ j \in Job /\ j # 0 /\ jobs[j].status # "none"
        /\ jobs[j].status = "complete" => jobs[j].response # NoResult
        /\ faulty \subseteq Job
    BY <1>3, <2>2, HandFacts
  <2>4. /\ s \in ManagerState /\ s.pc = "process" /\ s.todo = {}
        /\ s.batch = manager[m].batch \ {j} /\ s.current = 0
    BY <1>1, <1>2, <1>3, <2>3, TakenTypes
  <2>5. manager' = [manager EXCEPT ![m] = s]
    BY <2>1
  <2> HIDE DEF s
  <2>6. Held(s) = Held(manager[m]) \ {j} /\ jobs' \in [Job -> Row]
    BY <1>1, <1>2, <1>3, <2>2, <2>3, <2>4 DEF Held, TypeOK
  <2>7. JobStep(m, j, s)
    BY <1>2, <1>3, <2>1, <2>2, <2>3, <2>4, <2>5, <2>6 DEF JobStep
  <2>8. QED
    BY <2>2, <2>4, <2>7, JobStepInv
<1>6. QED
  BY <1>4, <1>5

LEMMA UpdateInv ==
  ASSUME IInv, NEW m \in Managers, UpdateJob(m) \/ UpdateJobLost(m)
  PROVE  IInv'
<1> DEFINE j == manager[m].current
           s == [manager[m] EXCEPT !.pc = "process", !.current = 0]
<1>1. TypeOK /\ ManagerOK(m) /\ manager[m] \in ManagerState
  BY DEF IInv, TypeOK
<1>2. /\ manager[m].pc = "update"
      /\ UNCHANGED <<nextId, clock, horizon, client, flag, ranBy>>
      /\ manager' = [manager EXCEPT ![m] = s]
      /\ \/ /\ jobs' = [jobs EXCEPT ![j] = [jobs[j] EXCEPT !.status = "complete",
                                                           !.response = Result(j, m)]]
            /\ faulty' = faulty
         \/ /\ jobs' = jobs
            /\ faulty' = faulty \cup {j}
  BY DEF UpdateJob, UpdateJobLost
<1>3. /\ manager[m].todo = {} /\ j \in Held(manager[m])
      /\ Held(manager[m]) = manager[m].batch \cup {j}
      /\ j \notin manager[m].batch /\ m \in ranBy[j]
  BY <1>1, <1>2, BoundsAssumption DEF ManagerOK, Held, Job
<1>4. /\ s \in ManagerState /\ s.pc = "process" /\ s.todo = {}
      /\ s.batch = manager[m].batch /\ s.current = 0
  BY <1>1, <1>3, ZeroInBounds DEF ManagerState
<1>5. Held(s) = manager[m].batch
  BY <1>4 DEF Held
<1>6. /\ jobs' \in [Job -> Row]
      /\ \A k \in Job \ {j} : jobs'[k] = jobs[k]
      /\ jobs'[j].args = jobs[j].args
      /\ jobs'[j].status = "complete" => jobs'[j].response # NoResult
      /\ faulty \subseteq faulty' /\ faulty' \subseteq Job
      /\ \/ jobs'[j].status = "complete" /\ jobs'[j].response = Result(j, m)
         \/ jobs'[j] = jobs[j] /\ j \in faulty'
  <2>1. /\ j \in Job /\ jobs \in [Job -> Row] /\ jobs[j] \in Row /\ faulty \subseteq Job
        /\ jobs[j].status = "complete" => jobs[j].response # NoResult
        /\ Result(j, m) # NoResult
    BY <1>1, <1>3, HandFacts, ResultFacts DEF TypeOK
  <2>2. [jobs[j] EXCEPT !.status = "complete", !.response = Result(j, m)] \in Row
    <3>1. Result(j, m) \in Results /\ "complete" \in Statuses
      BY <2>1, ResultFacts DEF Statuses
    <3> HIDE DEF j
    <3>2. QED
      BY <2>1, <3>1 DEF Row
  <2>3. QED
    BY <1>2, <2>1, <2>2 DEF Row
<1> HIDE DEF s, j
<1>7. JobStep(m, j, s)
  <2>1. jobs[j].status # "none" /\ j \in Job
    BY <1>3, HandFacts
  <2>2. QED
    BY <1>2, <1>3, <1>4, <1>5, <1>6, <2>1 DEF JobStep
<1>8. QED
  BY <1>3, <1>4, <1>7, JobStepInv

LEMMA GetJobReplyInv ==
  ASSUME IInv, NEW m \in Managers, GetJobReply(m)
  PROVE  IInv'
<1> DEFINE s == [manager[m] EXCEPT !.pc = "process"]
<1>1. TypeOK /\ ManagerOK(m) /\ manager[m] \in ManagerState
  BY DEF IInv, TypeOK
<1>2. /\ manager[m].pc = "marking" /\ manager[m].todo = {}
      /\ UNCHANGED <<jobs, nextId, clock, horizon, client, flag, faulty, ranBy>>
      /\ manager' = [manager EXCEPT ![m] = s]
  BY DEF GetJobReply
<1>3. /\ s \in ManagerState /\ s.pc = "process" /\ s.todo = {}
      /\ s.batch = manager[m].batch /\ s.current = manager[m].current
  BY <1>1, <1>2 DEF ManagerState
<1>4. Held(s) = Held(manager[m])
  BY <1>3 DEF Held
<1> HIDE DEF s
<1>5. /\ manager' \in [Managers -> ManagerState]
      /\ \A n \in Managers :
            manager'[n].pc = "update" => manager'[n].current \in Job
      /\ manager'[m] = s
      /\ \A n \in Managers \ {m} : manager'[n] = manager[n]
  BY <1>1, <1>2, <1>3, ManagerUpdate
<1>6. TypeOK'
  BY <1>1, <1>2, <1>5 DEF TypeOK
<1>7. ASSUME NEW n \in Managers PROVE ManagerOK(n)'
  <2>1. CASE n = m
    BY <1>1, <1>2, <1>3, <1>4, <1>5, <2>1 DEF ManagerOK
  <2>2. CASE n # m
    BY <1>2, <1>5, <2>2, OthersKept
  <2>3. QED
    BY <2>1, <2>2
<1>8. /\ \A j \in Job : RowOK(j)'
      /\ \A c \in Clients : ClientOK(c)'
      /\ AnswerIsOwn' /\ CachedAnswerAgrees'
  BY <1>2, RowsKept, ClientsKept
<1>9. \A n \in Managers : /\ Held(manager'[n]) = Held(manager[n])
                          /\ manager'[n].batch = manager[n].batch
  BY <1>3, <1>4, <1>5
<1>10. WorkingIsHeld'
  BY <1>2, <1>9 DEF IInv, WorkingIsHeld, Fetchers, WithStatus
<1>11. NoSecondRun'
  <2>1. \A j \in Job : ranBy[j] \subseteq Managers
    BY <1>1 DEF TypeOK
  <2>2. QED
    BY <1>2, <1>9, <2>1 DEF IInv, NoSecondRun
<1>12. AnswerStands'
  <2>1. \A n \in Managers : Held(manager[n]) \subseteq Job
    BY <1>1, HeldInJob
  <2>2. QED
    BY <1>2, <1>9, <2>1, StandsKept
<1>13. QED
  BY <1>6, <1>7, <1>8, <1>10, <1>11, <1>12 DEF IInv

\* Time and the flag touch nothing else.
LEMMA EnvironmentInv ==
  ASSUME IInv, Expire \/ (\E f \in FlagValues : SetFlag(f)) \/ UNCHANGED vars
  PROVE  IInv'
<1>1. /\ UNCHANGED <<jobs, nextId, clock, client, manager, faulty, ranBy>>
      /\ horizon' \in Nat /\ flag' \in FlagValues
  BY DEF IInv, TypeOK, Expire, SetFlag, vars
<1>2. TypeOK'
  BY <1>1 DEF IInv, TypeOK
<1>3. nextId \in Int
  BY BoundsAssumption DEF IInv, TypeOK
<1>4. nextId <= nextId'
  BY <1>1, <1>3
<1>5. /\ \A c \in Clients : ClientOK(c)'
      /\ AnswerIsOwn' /\ CachedAnswerAgrees'
  BY <1>1, ClientsKept
<1>6. AnswerStands'
  <2>1. \A m \in Managers : Held(manager[m]) \subseteq Job
    BY HeldInJob DEF IInv
  <2>2. QED
    BY <1>1, <2>1, StandsKept
<1>7. QED
  BY <1>1, <1>2, <1>4, <1>5, <1>6, TableKept DEF IInv

LEMMA NextInv == IInv /\ [Next]_vars => IInv'
<1>1. SUFFICES ASSUME IInv, [Next]_vars PROVE IInv'
  OBVIOUS
<1>2. ASSUME NEW c \in Clients, NEW a \in Args, NEW h \in BOOLEAN, CreateJob(c, a, h)
      PROVE  IInv'
  BY <1>1, <1>2, CreateJobInv
<1>3. ASSUME NEW c \in Clients, ClientStep(c) PROVE IInv'
  BY <1>1, <1>3, ClientStepInv
<1>4. ASSUME NEW m \in Managers, ManagerStep(m) PROVE IInv'
  BY <1>1, <1>4, StartInv, SelectInv, MarkInv, GetJobReplyInv, EndRoundInv, RunInv,
     UpdateInv DEF ManagerStep
<1>5. ASSUME NEW m \in Managers, CrashManager(m) PROVE IInv'
  BY <1>1, <1>5, CrashInv
<1>6. CASE Expire \/ (\E f \in FlagValues : SetFlag(f)) \/ UNCHANGED vars
  BY <1>1, <1>6, EnvironmentInv
<1>7. QED
  BY <1>1, <1>2, <1>3, <1>4, <1>5, <1>6 DEF Next

-----------------------------------------------------------------------------
(* The invariants                                                          *)

\* The inductive invariant holds in every reachable state.
THEOREM InvariantHolds == Spec => []IInv
<1>1. QED
  BY InitInv, NextInv, PTL DEF Spec

\* Every variable keeps its type: the rows of the table, the records of the
\* requests and of the managers, for every number of them and every fault.
THEOREM TypeCorrect == Spec => []TypeOK
<1>1. IInv => TypeOK
  BY DEF IInv
<1>2. QED
  BY <1>1, InvariantHolds, PTL

\* No job is stranded silently: a row that says 'working' and that no fault has
\* hit is in the hands of a live manager, however many managers overlap and
\* however late their marks come.
THEOREM WorkingJobsAreHeld == Spec => []WorkingIsHeld
<1>1. IInv => WorkingIsHeld
  BY DEF IInv
<1>2. QED
  BY <1>1, InvariantHolds, PTL

\* A manager gets no second hold of a job it has run, unless a fault hit it:
\* the duplicates of get_job's unguarded UPDATE are one for each manager.
THEOREM NoManagerRunsTwice == Spec => []NoSecondRun
<1>1. IInv => NoSecondRun
  BY DEF IInv
<1>2. QED
  BY <1>1, InvariantHolds, PTL

\* "Job Complete" answers with the result of the request's own job, and
\* "missing" only after a fault.
THEOREM AnswersAreOwn == Spec => []AnswerIsOwn
<1>1. IInv => AnswerIsOwn
  BY DEF IInv
<1>2. QED
  BY <1>1, InvariantHolds, PTL

\* What the cache answers was computed for the same graph, the same stop, and
\* the same start if the request gave one.
THEOREM CachedAnswersAgree == Spec => []CachedAnswerAgrees
<1>1. IInv => CachedAnswerAgrees
  BY DEF IInv
<1>2. QED
  BY <1>1, InvariantHolds, PTL

\* What a browser was told stays the stored result of its job, for every set of
\* faults, unless two managers ran the job; no manager overwrites its own.
THEOREM AnswersStand == Spec => []AnswerStands
<1>1. IInv => AnswerStands
  BY DEF IInv
<1>2. QED
  BY <1>1, InvariantHolds, PTL

-----------------------------------------------------------------------------
(* What no step does                                                       *)

\* A manager's record is replaced and none of the others is.
LEMMA OneManagerMoves ==
  ASSUME TypeOK, NEW m \in Managers, ManagerStep(m) \/ CrashManager(m)
  PROVE  /\ \A n \in Managers \ {m} : manager'[n] = manager[n]
         /\ DOMAIN manager' = Managers
BY DEF TypeOK, ManagerStep, CrashManager, StartManager, GetJobSelect, GetJobMark,
       GetJobMarkLost, GetJobReply, LoseReply, Run, RunThrows, EndRound, UpdateJob,
       UpdateJobLost

\* A manager gets hold of a new job only by selecting it from the queue.
LEMMA NewInHand ==
  ASSUME IInv, NEW m \in Managers, ManagerStep(m) \/ CrashManager(m),
         NEW j \in Held(manager'[m])
  PROVE  j \in Held(manager[m]) \/ jobs[j].status = "waiting"
<1>1. /\ TypeOK /\ ManagerOK(m) /\ manager[m] \in ManagerState
      /\ manager \in [Managers -> ManagerState]
  BY DEF IInv, TypeOK
<1>2. CASE StartManager(m) \/ CrashManager(m)
  BY <1>1, <1>2 DEF StartManager, CrashManager, Off, Held
<1>3. CASE EndRound(m) \/ LoseReply(m)
  <2>1. manager'[m] = NextRound(manager[m])
    BY <1>1, <1>3 DEF EndRound, LoseReply
  <2>2. QED
    BY <1>1, <2>1, NextRoundType DEF Held
<1>4. CASE GetJobSelect(m)
  <2>1. PICK S \in SUBSET WithStatus("waiting") :
           manager'[m] = IF S = {} THEN NextRound(manager[m])
                         ELSE [manager[m] EXCEPT !.pc = "marking", !.todo = S,
                                                 !.batch = S]
    BY <1>1, <1>4 DEF GetJobSelect
  <2>2. CASE S = {}
    BY <1>1, <2>1, <2>2, NextRoundType DEF Held
  <2>3. CASE S # {}
    BY <1>1, <2>1, <2>3 DEF Held, ManagerState, WithStatus
  <2>4. QED
    BY <2>2, <2>3
<1>5. CASE GetJobMark(m) \/ GetJobMarkLost(m) \/ GetJobReply(m)
  <2>1. manager'[m].batch = manager[m].batch /\ manager'[m].current = manager[m].current
    BY <1>1, <1>5 DEF GetJobMark, GetJobMarkLost, GetJobReply, ManagerState
  <2>2. QED
    BY <2>1 DEF Held
<1>6. CASE Run(m) \/ RunThrows(m)
  <2>1. PICK k \in manager[m].batch :
           \/ manager'[m] = [manager[m] EXCEPT !.pc = "update",
                                               !.batch = manager[m].batch \ {k},
                                               !.current = k]
           \/ manager'[m] = [manager[m] EXCEPT !.batch = manager[m].batch \ {k}]
    BY <1>1, <1>6 DEF Run, RunThrows
  <2>2. /\ manager'[m].batch = manager[m].batch \ {k}
        /\ manager'[m].current \in {k, manager[m].current}
    BY <1>1, <2>1 DEF ManagerState
  <2>3. QED
    BY <2>2 DEF Held
<1>7. CASE UpdateJob(m) \/ UpdateJobLost(m)
  <2>1. manager'[m].batch = manager[m].batch /\ manager'[m].current = 0
    BY <1>1, <1>7 DEF UpdateJob, UpdateJobLost, ManagerState
  <2>2. QED
    BY <2>1 DEF Held
<1>8. QED
  BY <1>2, <1>3, <1>4, <1>5, <1>6, <1>7 DEF ManagerStep

\* The steps that are not a manager's leave the managers alone.
LEMMA ManagersRest ==
  ASSUME Next, ~ (\E m \in Managers : ManagerStep(m) \/ CrashManager(m))
  PROVE  UNCHANGED manager
BY DEF Next, CreateJob, ClientStep, InsertJob, InsertRefused, InsertLost, PollMissing,
       PollComplete, PollAgain, PollLost, Expire, SetFlag

\* A job that a fault has hit stays marked as such.
LEMMA FaultsStay ==
  ASSUME Next
  PROVE  faulty \subseteq faulty'
BY DEF Next, CreateJob, ClientStep, InsertJob, InsertRefused, InsertLost, PollMissing,
       PollComplete, PollAgain, PollLost, Expire, SetFlag, ManagerStep, StartManager,
       CrashManager, GetJobSelect, GetJobMark, GetJobMarkLost, GetJobReply, LoseReply,
       Run, RunThrows, EndRound, UpdateJob, UpdateJobLost

\* Once a manager has run a job that no fault has hit, no further manager gets
\* hold of it: the runs of a job are bounded by the managers that had selected
\* it when the first of them started it.
THEOREM NeverFetchedAfterRun == Spec => NoFetchAfterRun
<1> DEFINE A == \A j \in Job \ faulty' :
                  ranBy[j] # {} => Fetchers(j)' \subseteq Fetchers(j)
<1>1. IInv /\ [Next]_vars => [A]_vars
  <2>1. SUFFICES ASSUME IInv, Next PROVE A
    OBVIOUS
  <2>2. SUFFICES ASSUME NEW j \in Job \ faulty', ranBy[j] # {},
                        NEW n \in Managers, j \in Held(manager'[n])
                 PROVE  j \in Held(manager[n])
    BY DEF Fetchers
  <2>3. jobs[j].status # "waiting"
    <3>1. j \notin faulty
      BY <2>1, <2>2, FaultsStay
    <3>2. QED
      BY <2>1, <2>2, <3>1 DEF IInv, RowOK
  <2>4. CASE \E m \in Managers : ManagerStep(m) \/ CrashManager(m)
    <3>1. PICK m \in Managers : ManagerStep(m) \/ CrashManager(m)
      BY <2>4
    <3>2. CASE n = m
      BY <2>1, <2>2, <2>3, <3>1, <3>2, NewInHand
    <3>3. CASE n # m
      BY <2>1, <2>2, <3>1, <3>3, OneManagerMoves DEF IInv
    <3>4. QED
      BY <3>2, <3>3
  <2>5. CASE ~ (\E m \in Managers : ManagerStep(m) \/ CrashManager(m))
    BY <2>1, <2>2, <2>5, ManagersRest
  <2>6. QED
    BY <2>4, <2>5
<1>2. QED
  BY <1>1, InvariantHolds, PTL DEF Spec, NoFetchAfterRun

=============================================================================
