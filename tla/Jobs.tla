-------------------------------- MODULE Jobs --------------------------------
(***************************************************************************)
(* The job system of kekPHP: the table `jobs`, the requests of             *)
(* public/js/lib/_graph.js that create a job and wait for its result       *)
(* (app/world/create_job.php), and the cron processes that fetch, run and  *)
(* complete jobs (cron/jobs/KekJobManager.php) through the two requests    *)
(* app/world/get_job.php and app/world/update_job.php.                     *)
(*                                                                         *)
(* Every SQL statement is one step: MySQL commits each statement by itself *)
(* and the code opens no transaction.  A job is named by its place in the  *)
(* order of ids (generate_job_id starts with microtime, so ids grow with   *)
(* time), and a result by the job and the manager whose run made it: two   *)
(* runs of a job need not give the same result.                            *)
(***************************************************************************)
EXTENDS Integers, FiniteSets

CONSTANTS Graphs,      \* what model, id, interval and field of args name
          Clients,     \* browsers: each has at most one create_job request open
          Managers,    \* slots for KekJobManager processes alive at one time
          Args,        \* job arguments; 0 stands for an empty start or stop
          MaxJobs,     \* bound: number of create_job requests
          MaxPolls,    \* create_job's $max / $interval (120 in the code)
          MaxRounds,   \* the manager's $max / $interval (20 in the code)
          PageSize,    \* get_job's $page_size (3 in the code)
          CacheLimit,  \* rows the cache lookup reads (100 in the code)
          Faults,      \* the kinds of fault that may happen
          FlagValues   \* values the global JobManager.status takes

FaultKinds == {"crash", "exception", "refused", "gone_away", "lost_reply"}

ASSUME BoundsAssumption ==
  /\ MaxJobs \in Nat /\ MaxPolls \in Nat \ {0} /\ MaxRounds \in Nat \ {0}
  /\ PageSize \in Nat \ {0} /\ CacheLimit \in Nat

ASSUME ArgsAssumption ==
  Args \subseteq [graph : Graphs, start : Int, stop : Int] /\ Args # {}

ASSUME FaultsAssumption == Faults \subseteq FaultKinds

ASSUME FlagAssumption == FlagValues \subseteq {"running", "stopped"}

VARIABLES jobs,     \* the table: jobs[j] is row j, "none" when there is none
          nextId,   \* the next job id
          clock,    \* number of rows inserted: the `created` of the next row
          horizon,  \* rows with created <= horizon are over 30 minutes old
          client,   \* client[c]: the state of c's create_job request
          manager,  \* manager[m]: the state of one KekJobManager process
          flag,     \* the global JobManager.status
          faulty,   \* history: the jobs some fault has hit
          ranBy     \* history: ranBy[j] is the set of managers that ran j

vars == <<jobs, nextId, clock, horizon, client, manager, flag, faulty, ranBy>>

Job == 1..MaxJobs
JobOrNone == 0..MaxJobs

Statuses == {"none", "waiting", "working", "complete"}

\* by is the manager that ran the job, alone in a set; empty with no result.
Results == [job : JobOrNone, by : SUBSET Managers]
NoResult == [job |-> 0, by |-> {}]
Result(j, m) == [job |-> j, by |-> {m}]

Row == [status : Statuses, args : Args, response : Results, created : Nat]

Replies == {"none", "created", "complete", "cached", "missing", "timeout",
            "failed"}
ClientState ==
  [pc : {"idle", "insert", "poll"}, job : JobOrNone, args : Args,
   handle : BOOLEAN, polls : 0..MaxPolls, reply : Replies, result : Results]

\* todo: rows get_job has not marked yet; batch: jobs of the reply that the
\* manager has not started; current: the job whose update is being sent.
ManagerState ==
  [pc : {"off", "fetch", "marking", "process", "update"},
   todo : SUBSET Job, batch : SUBSET Job, current : JobOrNone,
   round : 0..MaxRounds]

TypeOK ==
  /\ jobs \in [Job -> Row]
  /\ nextId \in 1..(MaxJobs + 1)
  /\ clock \in Nat
  /\ horizon \in Nat
  /\ client \in [Clients -> ClientState]
  /\ \A c \in Clients : client[c].pc # "idle" => client[c].job \in Job
  /\ manager \in [Managers -> ManagerState]
  /\ \A m \in Managers : manager[m].pc = "update" => manager[m].current \in Job
  /\ flag \in FlagValues
  /\ faulty \subseteq Job
  /\ ranBy \in [Job -> SUBSET Managers]

\* A placeholder where no request has given arguments yet.
AnyArgs == CHOOSE a \in Args : TRUE

Off == [pc |-> "off", todo |-> {}, batch |-> {}, current |-> 0, round |-> 0]

\* An empty table with the columns create_job writes.  The `jobs` of
\* docs/db/install.sql has no column `method`, so on that table every INSERT of
\* create_job is refused; the model is of the table the code was written for.
Init ==
  /\ jobs = [j \in Job |-> [status |-> "none", args |-> AnyArgs,
                            response |-> NoResult, created |-> 0]]
  /\ client = [c \in Clients |->
                 [pc |-> "idle", job |-> 0, args |-> AnyArgs, handle |-> FALSE,
                  polls |-> 0, reply |-> "none", result |-> NoResult]]
  /\ nextId = 1
  /\ clock = 0
  /\ horizon = 0
  /\ manager = [m \in Managers |-> Off]
  /\ flag \in FlagValues
  /\ faulty = {}
  /\ ranBy = [j \in Job |-> {}]

\* j is the largest id of S: the head of rows taken ORDER BY id DESC.
IsFirst(j, S) == j \in S /\ \A k \in S : k <= j

WithStatus(s) == {j \in Job : jobs[j].status = s}

-----------------------------------------------------------------------------
(* create_job: the cache lookup                                            *)

\* The value the lookup computes for the start of a stored job: it tests
\* whether the job's stop is empty, not its start.
StoredStart(job) == IF job.stop = 0 THEN 0 ELSE job.start

\* Mutant: the lookup forgets to compare the start.
BugArgsMatch(job, args) == job.graph = args.graph /\ job.stop = args.stop

ArgsMatch(job, args) ==
  /\ job.graph = args.graph
  /\ StoredStart(job) = args.start
  /\ job.stop = args.stop

\* The newest CacheLimit complete rows.
Recent ==
  {j \in WithStatus("complete") :
     Cardinality({k \in WithStatus("complete") :
                    jobs[k].created > jobs[j].created}) < CacheLimit}

CacheHits(a) ==
  {j \in Recent : ArgsMatch(jobs[j].args, a) /\ jobs[j].created > horizon}

\* The request ends with this reply (APIResponse echoes it and exits).
Reply(c, kind, result) ==
  client' = [client EXCEPT ![c] = [@ EXCEPT !.pc = "idle", !.reply = kind,
                                            !.result = result]]

\* A request takes an id and looks for a complete job with the same
\* arguments: the newest fresh one answers it, otherwise it goes on to insert.
\* (The parameters `status` and `local`, which public/js/lib/_graph.js never
\* sends, are left out: a job is created 'waiting'.)
CreateJob(c, a, h) ==
  /\ client[c].pc = "idle"
  /\ nextId <= MaxJobs
  /\ nextId' = nextId + 1
  /\ LET started == [pc |-> "insert", job |-> nextId, args |-> a, handle |-> h,
                     polls |-> 0, reply |-> "none", result |-> NoResult]
     IN  \/ /\ CacheHits(a) = {}
            /\ client' = [client EXCEPT ![c] = started]
         \/ \E j \in CacheHits(a) :
              /\ \A k \in CacheHits(a) : jobs[k].created <= jobs[j].created
              /\ client' = [client EXCEPT
                              ![c] = [started EXCEPT !.pc = "idle",
                                                     !.reply = "cached",
                                                     !.result = jobs[j].response]]
  /\ UNCHANGED <<jobs, clock, horizon, manager, flag, faulty, ranBy>>

\* What the request does once insert() has returned true.
AfterInsert(c) ==
  IF client[c].handle
  THEN client' = [client EXCEPT ![c] = [@ EXCEPT !.pc = "poll"]]
  ELSE Reply(c, "created", NoResult)

InsertJob(c) ==
  /\ client[c].pc = "insert"
  /\ jobs' = [jobs EXCEPT ![client[c].job] =
                [status |-> "waiting", args |-> client[c].args,
                 response |-> NoResult, created |-> clock + 1]]
  /\ clock' = clock + 1
  /\ AfterInsert(c)
  /\ UNCHANGED <<nextId, horizon, manager, flag, faulty, ranBy>>

\* The statement is refused (an SQL error, or __kek_escape rejects it).
InsertRefused(c) ==
  /\ "refused" \in Faults
  /\ client[c].pc = "insert"
  /\ Reply(c, "failed", NoResult)
  /\ faulty' = faulty \cup {client[c].job}
  /\ UNCHANGED <<jobs, nextId, clock, horizon, manager, flag, ranBy>>

\* "server has gone away": Database::__error reconnects and returns true, so
\* insert() reports success although no row was written.
InsertLost(c) ==
  /\ "gone_away" \in Faults
  /\ client[c].pc = "insert"
  /\ AfterInsert(c)
  /\ faulty' = faulty \cup {client[c].job}
  /\ UNCHANGED <<jobs, nextId, clock, horizon, manager, flag, ranBy>>

-----------------------------------------------------------------------------
(* create_job: the polling loop of a request with `handle`                 *)

PollMissing(c) ==
  /\ client[c].pc = "poll"
  /\ jobs[client[c].job].status = "none"
  /\ Reply(c, "missing", NoResult)
  /\ UNCHANGED <<jobs, nextId, clock, horizon, manager, flag, faulty, ranBy>>

\* Mutant: the loop stops as soon as the job is no longer waiting.
BugPollComplete(c) ==
  /\ client[c].pc = "poll"
  /\ jobs[client[c].job].status \in {"working", "complete"}
  /\ Reply(c, "complete", jobs[client[c].job].response)
  /\ UNCHANGED <<jobs, nextId, clock, horizon, manager, flag, faulty, ranBy>>

PollComplete(c) ==
  /\ client[c].pc = "poll"
  /\ jobs[client[c].job].status = "complete"
  /\ Reply(c, "complete", jobs[client[c].job].response)
  /\ UNCHANGED <<jobs, nextId, clock, horizon, manager, flag, faulty, ranBy>>

\* Mutant: the counter of the loop is not advanced.
BugPollAgain(c) ==
  /\ client[c].pc = "poll"
  /\ jobs[client[c].job].status \in {"waiting", "working"}
  /\ UNCHANGED vars

PollAgain(c) ==
  /\ client[c].pc = "poll"
  /\ jobs[client[c].job].status \in {"waiting", "working"}
  /\ IF client[c].polls + 1 < MaxPolls
     THEN client' = [client EXCEPT ![c] = [client[c] EXCEPT !.polls = @ + 1]]
     ELSE Reply(c, "timeout", NoResult)
  /\ UNCHANGED <<jobs, nextId, clock, horizon, manager, flag, faulty, ranBy>>

\* A read on a lost connection: get_row returns null whatever the table holds.
PollLost(c) ==
  /\ "gone_away" \in Faults
  /\ client[c].pc = "poll"
  /\ Reply(c, "missing", NoResult)
  /\ faulty' = faulty \cup {client[c].job}
  /\ UNCHANGED <<jobs, nextId, clock, horizon, manager, flag, ranBy>>

\* Time passes: some rows become too old for the cache.
Expire ==
  /\ horizon < clock
  /\ horizon' \in (horizon + 1)..clock
  /\ UNCHANGED <<jobs, nextId, clock, client, manager, flag, faulty, ranBy>>

-----------------------------------------------------------------------------
(* The manager's life: started by cron every minute, it makes MaxRounds    *)
(* rounds, whatever managers started before it still do.                   *)

SetFlag(f) ==
  /\ flag' = f
  /\ UNCHANGED <<jobs, nextId, clock, horizon, client, manager, faulty, ranBy>>

StartManager(m) ==
  /\ manager[m].pc = "off"
  /\ flag = "running"
  /\ manager' = [manager EXCEPT ![m] = [Off EXCEPT !.pc = "fetch"]]
  /\ UNCHANGED <<jobs, nextId, clock, horizon, client, flag, faulty, ranBy>>

\* Mutant: the loop of rounds has no end.
BugNextRound(s) == [Off EXCEPT !.pc = "fetch", !.round = s.round + 1]

\* The end of a round of s: the next one, or finish().
NextRound(s) ==
  IF s.round + 1 < MaxRounds
  THEN [Off EXCEPT !.pc = "fetch", !.round = s.round + 1]
  ELSE Off

\* The jobs m is responsible for: fetched and not yet updated.
Held(s) == s.batch \cup ({s.current} \ {0})

\* The process is killed: whatever it held stays as it is in the table.  (A
\* manager killed while get_job runs is a lost reply: LoseReply.)
CrashManager(m) ==
  /\ "crash" \in Faults
  /\ manager[m].pc \in {"fetch", "process", "update"}
  /\ manager' = [manager EXCEPT ![m] = Off]
  /\ faulty' = faulty \cup Held(manager[m])
  /\ UNCHANGED <<jobs, nextId, clock, horizon, client, flag, ranBy>>

-----------------------------------------------------------------------------
(* get_job: one SELECT, then one UPDATE for each row selected              *)

\* S is what SELECT ... WHERE status='waiting' ORDER BY id DESC LIMIT returns.
IsPage(S) ==
  /\ S \subseteq WithStatus("waiting")
  /\ \A j \in S, k \in WithStatus("waiting") \ S : k < j
  /\ \/ Cardinality(S) = PageSize
     \/ S = WithStatus("waiting") /\ Cardinality(S) < PageSize

GetJobSelect(m) ==
  /\ manager[m].pc = "fetch"
  /\ \E S \in SUBSET WithStatus("waiting") :
       /\ IsPage(S)
       /\ manager' = [manager EXCEPT
            ![m] = IF S = {} THEN NextRound(@)
                   ELSE [@ EXCEPT !.pc = "marking", !.todo = S, !.batch = S]]
  /\ UNCHANGED <<jobs, nextId, clock, horizon, client, flag, faulty, ranBy>>

\* Mutant: the whole row, as the SELECT read it, is written back.
BugGetJobMark(m) ==
  /\ manager[m].pc = "marking"
  /\ \E j \in manager[m].todo :
       /\ jobs' = [jobs EXCEPT ![j] = [@ EXCEPT !.status = "working",
                                              !.response = NoResult]]
       /\ manager' = [manager EXCEPT ![m] = [manager[m] EXCEPT !.todo = @ \ {j}]]
  /\ UNCHANGED <<nextId, clock, horizon, client, flag, faulty, ranBy>>

\* Mutant: the loop over the page ends after its first row.
BugMarkOne(m) ==
  /\ manager[m].pc = "marking"
  /\ \E j \in manager[m].todo :
       /\ IsFirst(j, manager[m].todo)
       /\ jobs' = [jobs EXCEPT ![j] = [@ EXCEPT !.status = "working"]]
       /\ manager' = [manager EXCEPT ![m] = [@ EXCEPT !.todo = {}]]
  /\ UNCHANGED <<nextId, clock, horizon, client, flag, faulty, ranBy>>

\* UPDATE jobs SET status='working' WHERE id: it does not look at the status.
GetJobMark(m) ==
  /\ manager[m].pc = "marking"
  /\ \E j \in manager[m].todo :
       /\ IsFirst(j, manager[m].todo)
       /\ jobs' = [jobs EXCEPT ![j] = [@ EXCEPT !.status = "working"]]
       /\ manager' = [manager EXCEPT ![m] = [manager[m] EXCEPT !.todo = @ \ {j}]]
  /\ UNCHANGED <<nextId, clock, horizon, client, flag, faulty, ranBy>>

GetJobMarkLost(m) ==
  /\ Faults \cap {"gone_away", "refused"} # {}
  /\ manager[m].pc = "marking"
  /\ \E j \in manager[m].todo :
       /\ IsFirst(j, manager[m].todo)
       /\ manager' = [manager EXCEPT ![m] = [manager[m] EXCEPT !.todo = @ \ {j}]]
       /\ faulty' = faulty \cup {j}
  /\ UNCHANGED <<jobs, nextId, clock, horizon, client, flag, ranBy>>

GetJobReply(m) ==
  /\ manager[m].pc = "marking"
  /\ manager[m].todo = {}
  /\ manager' = [manager EXCEPT ![m] = [@ EXCEPT !.pc = "process"]]
  /\ UNCHANGED <<jobs, nextId, clock, horizon, client, flag, faulty, ranBy>>

\* get_job dies before it has marked every row, or its reply is lost: the
\* manager sees an empty response and ends its round.
LoseReply(m) ==
  /\ "lost_reply" \in Faults
  /\ manager[m].pc = "marking"
  /\ manager' = [manager EXCEPT ![m] = NextRound(@)]
  /\ faulty' = faulty \cup manager[m].batch
  /\ UNCHANGED <<jobs, nextId, clock, horizon, client, flag, ranBy>>

-----------------------------------------------------------------------------
(* process: run the jobs of the reply one after the other                  *)

\* Mutant: the loop over the reply ends after its first job.
BugRun(m) ==
  /\ manager[m].pc = "process"
  /\ \E j \in manager[m].batch :
       /\ IsFirst(j, manager[m].batch)
       /\ manager' = [manager EXCEPT ![m] =
            [@ EXCEPT !.pc = "update", !.batch = {}, !.current = j]]
       /\ ranBy' = [ranBy EXCEPT ![j] = @ \cup {m}]
  /\ UNCHANGED <<jobs, nextId, clock, horizon, client, flag, faulty>>

\* The next job of the batch leaves it and becomes the current one.
Run(m) ==
  /\ manager[m].pc = "process"
  /\ \E j \in manager[m].batch :
       /\ IsFirst(j, manager[m].batch)
       /\ manager' = [manager EXCEPT ![m] =
            [manager[m] EXCEPT !.pc = "update", !.batch = @ \ {j}, !.current = j]]
       /\ ranBy' = [ranBy EXCEPT ![j] = @ \cup {m}]
  /\ UNCHANGED <<jobs, nextId, clock, horizon, client, flag, faulty>>

\* The task throws: process() swallows the exception and updates nothing.
RunThrows(m) ==
  /\ "exception" \in Faults
  /\ manager[m].pc = "process"
  /\ \E j \in manager[m].batch :
       /\ IsFirst(j, manager[m].batch)
       /\ manager' = [manager EXCEPT ![m] = [manager[m] EXCEPT !.batch = @ \ {j}]]
       /\ ranBy' = [ranBy EXCEPT ![j] = @ \cup {m}]
       /\ faulty' = faulty \cup {j}
  /\ UNCHANGED <<jobs, nextId, clock, horizon, client, flag>>

EndRound(m) ==
  /\ manager[m].pc = "process"
  /\ manager[m].batch = {}
  /\ manager' = [manager EXCEPT ![m] = NextRound(@)]
  /\ UNCHANGED <<jobs, nextId, clock, horizon, client, flag, faulty, ranBy>>

\* Mutant: the status defaults to 'waiting', as it does in create_job.
BugUpdateJob(m) ==
  /\ manager[m].pc = "update"
  /\ LET j == manager[m].current
     IN  jobs' = [jobs EXCEPT ![j] = [@ EXCEPT !.status = "waiting",
                                               !.response = Result(j, m)]]
  /\ manager' = [manager EXCEPT ![m] = [@ EXCEPT !.pc = "process", !.current = 0]]
  /\ UNCHANGED <<nextId, clock, horizon, client, flag, faulty, ranBy>>

\* update_job: status and response are overwritten whatever the row holds, also
\* the result of another manager's run.
UpdateJob(m) ==
  /\ manager[m].pc = "update"
  /\ LET j == manager[m].current
     IN  jobs' = [jobs EXCEPT ![j] = [@ EXCEPT !.status = "complete",
                                               !.response = Result(j, m)]]
  /\ manager' = [manager EXCEPT ![m] = [@ EXCEPT !.pc = "process", !.current = 0]]
  /\ UNCHANGED <<nextId, clock, horizon, client, flag, faulty, ranBy>>

\* The request is lost, its response parameter is empty, __kek_escape refuses
\* the statement, or the connection is gone: the manager takes the next job.
UpdateJobLost(m) ==
  /\ Faults \cap {"gone_away", "refused", "lost_reply"} # {}
  /\ manager[m].pc = "update"
  /\ manager' = [manager EXCEPT ![m] = [@ EXCEPT !.pc = "process", !.current = 0]]
  /\ faulty' = faulty \cup {manager[m].current}
  /\ UNCHANGED <<jobs, nextId, clock, horizon, client, flag, ranBy>>

-----------------------------------------------------------------------------

ClientStep(c) ==
  \/ InsertJob(c) \/ InsertRefused(c) \/ InsertLost(c)
  \/ PollMissing(c) \/ PollComplete(c) \/ PollAgain(c) \/ PollLost(c)

ManagerStep(m) ==
  \/ StartManager(m)
  \/ GetJobSelect(m) \/ GetJobMark(m) \/ GetJobMarkLost(m)
  \/ GetJobReply(m) \/ LoseReply(m)
  \/ Run(m) \/ RunThrows(m) \/ EndRound(m)
  \/ UpdateJob(m) \/ UpdateJobLost(m)

Next ==
  \/ \E c \in Clients, a \in Args, h \in BOOLEAN : CreateJob(c, a, h)
  \/ \E c \in Clients : ClientStep(c)
  \/ Expire
  \/ \E f \in FlagValues : SetFlag(f)
  \/ \E m \in Managers : ManagerStep(m) \/ CrashManager(m)

Spec == Init /\ [][Next]_vars

\* Requests and managers do not stop by themselves, and cron starts managers
\* again and again.  Nobody has to create a job or touch the flag.
Fairness ==
  /\ \A c \in Clients : WF_vars(ClientStep(c))
  /\ \A m \in Managers : WF_vars(ManagerStep(m))

FairSpec == Spec /\ Fairness

-----------------------------------------------------------------------------
(* Properties                                                              *)

Fetchers(j) == {m \in Managers : j \in Held(manager[m])}

\* Every job that get_job took from the queue and that is not complete is in
\* the hands of a live manager, or was hit by a fault: with overlapping
\* managers, and marks that overwrite 'complete', no job is stranded silently.
WorkingIsHeld ==
  \A j \in WithStatus("working") \ faulty : Fetchers(j) # {}

\* A manager never runs a job it has run before, so a job that no fault has
\* hit runs at most once for each manager that selected it before it was first
\* marked (the unguarded window between get_job's SELECT and its UPDATEs).
NoSecondRun ==
  \A j \in Job \ faulty : \A m \in ranBy[j] : j \notin manager[m].batch

\* What "Job Complete" answers is the result of the job the request created,
\* and a request that polls only misses its row when a fault hit the job.
AnswerIsOwn ==
  \A c \in Clients :
    /\ client[c].reply = "complete" => client[c].result.job = client[c].job
    /\ client[c].reply = "missing" => client[c].job \in faulty

\* A job run with the arguments `used` may answer a request for `asked`.
Agrees(used, asked) ==
  /\ used.graph = asked.graph
  /\ used.stop = asked.stop
  /\ asked.start # 0 => used.start = asked.start

\* An answer from the cache was computed for the same graph and the same stop,
\* and for the same start unless the lookup compared no start at all.
CachedAnswerAgrees ==
  \A c \in Clients : client[c].reply = "cached" =>
    /\ client[c].result.job \in Job
    /\ Agrees(jobs[client[c].result.job].args, client[c].args)

\* The claim of "Job Complete (cached)" taken at its word: the answer is the
\* result of a job with the arguments that were asked for.
CachedAnswerIsExact ==
  \A c \in Clients :
    client[c].reply = "cached" =>
      jobs[client[c].result.job].args = client[c].args

\* What a browser was told stays the stored result of the job, whatever faults
\* happen, unless a second manager ran the job: update_job then overwrites the
\* first result.  A manager overwrites no result of its own: it never again gets
\* hold of a job whose result it has stored.
AnswerStands ==
  /\ \A m \in Managers : \A j \in Held(manager[m]) :
       jobs[j].response # Result(j, m)
  /\ \A c \in Clients : client[c].result # NoResult =>
       LET j == client[c].result.job
       IN  \/ jobs[j].response = client[c].result
           \/ \E m, n \in ranBy[j] : m # n

\* Once a manager has run a job that no fault has hit, no further manager gets
\* hold of it: get_job marks the whole page before it answers, so only managers
\* that had selected the job before its first run can run it again.
NoFetchAfterRun ==
  [][\A j \in Job \ faulty' :
       ranBy[j] # {} => Fetchers(j)' \subseteq Fetchers(j)]_vars

\* The job system implements its promise: rows are the accepted jobs, rows
\* with a response the finished ones.
Service == INSTANCE JobService WITH
  accepted <- {j \in Job : jobs[j].status # "none"},
  argsOf   <- [j \in Job |-> jobs[j].args],
  done     <- {j \in Job : jobs[j].response # NoResult},
  want     <- [c \in Clients |-> client[c].args],
  got      <- [c \in Clients |-> client[c].result.job]

\* Browsers see a service that answers a request only with the result of a
\* finished job that agrees with it, whatever the managers do to the table.
ImplementsService == Service!Spec

\* Every request ends: by an answer, by an error or by the poll limit, whether
\* or not a manager ever runs.
RequestEnds ==
  \A c \in Clients : client[c].pc \in {"insert", "poll"} ~> client[c].pc = "idle"

\* Without faults, and once managers stay allowed to run, every job settles as
\* complete in spite of managers that fetch it twice and mark it late.
JobsSettle ==
  <>[](flag = "running") =>
    \A j \in Job : jobs[j].status # "none" ~> [](jobs[j].status = "complete")

=============================================================================
