---------------------------------- MODULE Aof ----------------------------------
(***************************************************************************)
(* The append only file of the Redis server in lib/redis-2.8.19, which     *)
(* docs/redis/redis.6380.conf runs with `appendonly yes` and `appendfsync  *)
(* always`.  One thread executes commands, buffers them, writes the buffer *)
(* to the file before it sleeps (flushAppendOnlyFile) and answers clients  *)
(* from its event loop.  A child rewrites the file in the background while *)
(* the thread keeps a second buffer with what has happened since the fork, *)
(* and a second thread calls fsync.  The process may be killed and the     *)
(* machine may lose its power at any point; the server then loads the file.*)
(*                                                                         *)
(* The data set is the sequence of the writes that made it.  A write knows *)
(* its number, its database and whether it is the last of its transaction. *)
(***************************************************************************)
EXTENDS Integers, Sequences, FiniteSets

CONSTANTS Clients,
          DBs,       \* the databases that clients write to
          Confs,     \* the settings of appendfsync and no-appendfsync-on-rewrite
          Faults,    \* what may go wrong, of FaultKinds
          MaxWrites, \* bound: length of the data set
          MaxFaults  \* bound: how often something goes wrong

FaultKinds == {"kill", "power", "short_write", "fork", "child", "rename", "save"}
ConfType == [fsync : {"always", "everysec", "no"}, skip : BOOLEAN]

ASSUME AofAssumption ==
  /\ DBs \subseteq Nat /\ Confs \subseteq ConfType /\ Faults \subseteq FaultKinds
  /\ MaxWrites \in Nat /\ MaxFaults \in Nat

VARIABLES conf,      \* the configuration the server runs with
          phase,     \* where the main thread is, or "down"
          fired,     \* fired[c]: the events of c's socket that the poll returned
          out,       \* out[c]: the writes whose replies wait in c's output buffer
          data,      \* the data set; while the server is down, the one it had
          buf,       \* server.aof_buf
          selected,  \* server.aof_selected_db
          size,      \* server.aof_current_size
          postponed, \* server.aof_flush_postponed_start is set
          failing,   \* server.aof_last_write_status is REDIS_ERR
          file,      \* the append only file on disk
          child,     \* the background child: none, saving or rewriting
          snap,      \* the data set as the child's fork saw it
          diff,      \* server.aof_rewrite_buf_blocks
          scheduled, \* server.aof_rewrite_scheduled
          bio,       \* the files that wait for the fsync thread
          acked,     \* history: the writes whose replies have been sent
          hasty,     \* history: answered in the round that executed them, not synced since
          torn,      \* history: the file was cut and the rest has not been written
          renamed,   \* history: a rewritten file took over that has not been synced
          halves,    \* history: the lengths at which half a transaction was loaded
          faults     \* number of faults so far

loopVars == <<phase, fired, out>>
bufVars == <<buf, selected, size, postponed, failing>>
jobVars == <<child, snap, diff, scheduled>>
seenVars == <<acked, hasty, torn, renamed, halves, faults>>
vars == <<conf, loopVars, data, bufVars, file, jobVars, bio, seenVars>>

NoDB == -1

Write == [id : Nat \ {0}, db : DBs, last : BOOLEAN]

\* A command in a buffer or file, with the SELECT that may precede it.
Entry == [w : Write, sel : BOOLEAN]

Phases == {"flush", "sync", "poll", "events", "cron", "rename", "swap", "down"}
Up == phase # "down"

\* "we have the contract with the user that on acknowledged write data is synced on
\* disk" (aof.c:332): what was answered is followed only under this policy.
Promised == conf.fsync = "always" /\ ~ conf.skip

\* The child of a rewrite: running, finished, failed.
Rewriting == child \in {"aof", "aof_ok", "aof_failed"}

TypeOK ==
  /\ conf \in Confs
  /\ phase \in Phases
  /\ fired \in [Clients -> SUBSET {"r", "w"}]
  /\ out \in [Clients -> SUBSET (Nat \ {0})]
  /\ data \in Seq(Write) /\ snap \in Seq(Write)
  /\ buf \in Seq(Entry) /\ diff \in Seq(Entry)
  /\ selected \in DBs \cup {NoDB}
  /\ size \in Nat /\ postponed \in BOOLEAN /\ failing \in BOOLEAN
  /\ file \in [base : Seq(Write), log : Seq(Entry), synced : Nat]
  /\ child \in {"none", "rdb", "rdb_done", "aof", "aof_ok", "aof_failed"}
  /\ scheduled \in BOOLEAN
  /\ bio \subseteq {"old", "new"}
  /\ acked \subseteq Nat \ {0} /\ hasty \subseteq Nat \ {0}
  /\ torn \in BOOLEAN /\ renamed \in BOOLEAN /\ halves \subseteq Nat /\ faults \in 0..MaxFaults

Init ==
  /\ conf \in Confs
  /\ phase = "flush"
  /\ fired = [c \in Clients |-> {}] /\ out = [c \in Clients |-> {}]
  /\ data = <<>> /\ snap = <<>> /\ buf = <<>> /\ diff = <<>>
  /\ selected = NoDB /\ size = 0 /\ postponed = FALSE /\ failing = FALSE
  /\ file = [base |-> <<>>, log |-> <<>>, synced |-> 0]
  /\ child = "none" /\ scheduled = FALSE
  /\ bio = {}
  /\ acked = {} /\ hasty = {} /\ torn = FALSE /\ renamed = FALSE /\ halves = {} /\ faults = 0

Fault(kind) ==
  /\ kind \in Faults /\ faults < MaxFaults
  /\ faults' = faults + 1

-----------------------------------------------------------------------------
(* Loading (loadAppendOnlyFile)                                            *)

\* The rewriting child dumps one database after the other: the last SELECT of
\* its file is the one of the highest database that holds anything.
LastDumped(base) ==
  IF base = <<>> THEN 0
  ELSE LET used == {base[i].db : i \in DOMAIN base}
       IN  CHOOSE d \in used : \A e \in used : e <= d

\* The database that the fake client has selected when it runs command j.
DbAt(f, j) ==
  LET sels == {i \in 1..j : f.log[i].sel}
  IN  IF sels = {} THEN LastDumped(f.base)
      ELSE f.log[CHOOSE i \in sels : \A k \in sels : k <= i].w.db

\* Commands run as they are read, also those after an unfinished MULTI.
Load(f) ==
  f.base \o [j \in 1..Len(f.log) |-> [f.log[j].w EXCEPT !.db = DbAt(f, j)]]

FileLen(f) == Len(f.base) + Len(f.log)

\* The length of a data set that ends inside a transaction.
HalfEnd(d) == IF d = <<>> \/ d[Len(d)].last THEN {} ELSE {Len(d)}

-----------------------------------------------------------------------------
(* Commands (call, propagate, execCommand, feedAppendOnlyFile)             *)

\* What one event may execute: a write, or a transaction of two.
Commands ==
  LET n == Len(data) IN
    {<<[id |-> n + 1, db |-> d, last |-> TRUE]>> : d \in DBs}
    \cup {<<[id |-> n + 1, db |-> d, last |-> FALSE], [id |-> n + 2, db |-> e, last |-> TRUE]>> :
            d, e \in DBs}

\* A SELECT goes before a command for another database than the last one fed.
Encoded(ws) ==
  [j \in 1..Len(ws) |->
     [w |-> ws[j],
      sel |-> ws[j].db # (IF j > 1 THEN ws[j - 1].db ELSE selected)]]

\* Mutant: the differences end with the child and not with its handler.
BugFeed(ws) ==
  /\ data' = data \o ws
  /\ buf' = buf \o Encoded(ws)
  /\ diff' = IF child = "aof" THEN diff \o Encoded(ws) ELSE diff
  /\ selected' = ws[Len(ws)].db

Feed(ws) ==
  /\ data' = data \o ws
  /\ buf' = buf \o Encoded(ws)
  /\ diff' = IF Rewriting THEN diff \o Encoded(ws) ELSE diff
  /\ selected' = ws[Len(ws)].db

Ids(ws) == {ws[j].id : j \in DOMAIN ws}

\* readQueryFromClient: the reply waits in the output buffer of c.  While the file
\* cannot be written, writes are refused; but EXEC is none (redis.c:2079), and
\* runs what had been queued before.
ReadCommand(c) ==
  /\ phase = "events" /\ "r" \in fired[c]
  /\ fired' = [fired EXCEPT ![c] = @ \ {"r"}]
  /\ \E ws \in Commands :
       /\ failing => Len(ws) > 1
       /\ Len(data) + Len(ws) <= MaxWrites
       /\ Feed(ws)
       /\ out' = [out EXCEPT ![c] = @ \cup Ids(ws)]
       /\ hasty' = IF Promised /\ "w" \in fired[c] THEN hasty \cup Ids(ws) ELSE hasty
  /\ UNCHANGED <<conf, phase, size, postponed, failing, file, child, snap, scheduled, bio,
                 acked, torn, renamed, halves, faults>>

\* A command that writes nothing, or a write that is refused.
ReadOther(c) ==
  /\ phase = "events" /\ "r" \in fired[c]
  /\ fired' = [fired EXCEPT ![c] = @ \ {"r"}]
  /\ UNCHANGED <<conf, phase, out, data, bufVars, file, jobVars, bio, seenVars>>

\* sendReplyToClient, in the same round as the command when the socket had been
\* polled for writing because of an older reply.
SendReply(c) ==
  /\ phase = "events" /\ fired[c] = {"w"}
  /\ fired' = [fired EXCEPT ![c] = {}]
  /\ \/ /\ acked' = IF Promised THEN acked \cup out[c] ELSE {}
        /\ out' = [out EXCEPT ![c] = {}]
     \/ UNCHANGED <<acked, out>> \* the socket's buffer is full
  /\ UNCHANGED <<conf, phase, data, bufVars, file, jobVars, bio, hasty, torn, renamed, halves, faults>>

-----------------------------------------------------------------------------
(* The event loop (aeMain, beforeSleep, aeProcessEvents)                   *)

GoTo(p) == phase' = p /\ UNCHANGED <<fired, out>>

\* Mutant: nothing is written while the last write failed.
BugFlushNothing ==
  /\ phase = "flush" /\ (buf = <<>> \/ failing)
  /\ GoTo("poll")
  /\ UNCHANGED <<conf, data, bufVars, file, jobVars, bio, seenVars>>

\* flushAppendOnlyFile with nothing to write.
FlushNothing ==
  /\ phase = "flush" /\ buf = <<>>
  /\ GoTo("poll")
  /\ UNCHANGED <<conf, data, bufVars, file, jobVars, bio, seenVars>>

\* An fsync is running: the write would wait for it.  It is put off, though
\* not for longer than two seconds.
PostponeFlush ==
  /\ phase = "flush" /\ buf # <<>>
  /\ conf.fsync = "everysec" /\ bio # {}
  /\ postponed' = TRUE
  /\ GoTo("poll")
  /\ UNCHANGED <<conf, data, buf, selected, size, failing, file, jobVars, bio, seenVars>>

\* What is in memory is gone; data stays what it was, to compare with.
Die ==
  /\ phase' = "down" /\ fired' = [c \in Clients |-> {}] /\ out' = [c \in Clients |-> {}]
  /\ buf' = <<>> /\ selected' = NoDB /\ size' = 0 /\ postponed' = FALSE /\ failing' = FALSE
  /\ child' = "none" /\ snap' = <<>> /\ diff' = <<>> /\ scheduled' = FALSE
  /\ bio' = {}
  /\ UNCHANGED <<conf, data, acked, halves>>

MayWrite ==
  /\ phase = "flush" /\ buf # <<>>
  /\ conf.fsync = "everysec" => bio = {} \/ postponed

WriteBuffer ==
  /\ MayWrite
  /\ file' = [file EXCEPT !.log = @ \o buf]
  /\ size' = size + Len(buf)
  /\ buf' = <<>> /\ postponed' = FALSE /\ failing' = FALSE /\ torn' = FALSE
  /\ GoTo("sync")
  /\ UNCHANGED <<conf, data, selected, jobVars, bio, acked, hasty, renamed, halves, faults>>

\* Mutant: the size is corrected the wrong way.
BugSize ==
  /\ MayWrite /\ Fault("short_write")
  /\ \E n \in 0..(Len(buf) - 1), cut \in BOOLEAN :
       LET long == file.log \o SubSeq(buf, 1, n) IN
       /\ file' = [file EXCEPT !.log = IF cut THEN SubSeq(long, 1, size - Len(file.base))
                                       ELSE long]
       /\ torn' = (torn \/ (~ cut /\ n > 0))
       /\ IF conf.fsync = "always" THEN Die
          ELSE /\ GoTo("poll")
               /\ failing' = TRUE /\ postponed' = FALSE
               /\ buf' = IF cut THEN buf ELSE SubSeq(buf, n + 1, Len(buf))
               /\ size' = IF cut THEN size ELSE size - n
               /\ UNCHANGED <<conf, data, selected, jobVars, bio, acked, halves>>
  /\ UNCHANGED <<hasty, renamed>>

\* Mutant: ftruncate is left out.
BugShortWrite ==
  /\ MayWrite /\ Fault("short_write")
  /\ \E n \in 0..(Len(buf) - 1), cut \in BOOLEAN :
       LET long == file.log \o SubSeq(buf, 1, n) IN
       /\ file' = [file EXCEPT !.log = long]
       /\ torn' = (torn \/ (~ cut /\ n > 0))
       /\ IF conf.fsync = "always" THEN Die
          ELSE /\ GoTo("poll")
               /\ failing' = TRUE /\ postponed' = FALSE
               /\ buf' = IF cut THEN buf ELSE SubSeq(buf, n + 1, Len(buf))
               /\ size' = IF cut THEN size ELSE size + n
               /\ UNCHANGED <<conf, data, selected, jobVars, bio, acked, halves>>
  /\ UNCHANGED <<hasty, renamed>>

\* A short write: the first n commands and perhaps a piece of the next, which a
\* restart would drop.  It is cut off at the size the server believes the file to
\* have.  Without ftruncate the rest of the buffer follows with the next write,
\* unless the policy is always, when the server exits.
ShortWrite ==
  /\ MayWrite /\ Fault("short_write")
  /\ \E n \in 0..(Len(buf) - 1), cut \in BOOLEAN :
       LET long == file.log \o SubSeq(buf, 1, n) IN
       /\ file' = [file EXCEPT !.log = IF cut THEN SubSeq(long, 1, size - Len(file.base))
                                       ELSE long]
       /\ torn' = (torn \/ (~ cut /\ n > 0))
       /\ IF conf.fsync = "always" THEN Die
          ELSE /\ GoTo("poll")
               /\ failing' = TRUE /\ postponed' = FALSE
               /\ buf' = IF cut THEN buf ELSE SubSeq(buf, n + 1, Len(buf))
               /\ size' = IF cut THEN size ELSE size + n
               /\ UNCHANGED <<conf, data, selected, jobVars, bio, acked, halves>>
  /\ UNCHANGED <<hasty, renamed>>

\* fsync of the file makes the writes safe that were answered too early.
Synced(f) == [f EXCEPT !.synced = Len(f.log)]

\* The server does not look at what fsync returns (aof.c:381, 1267): here it
\* always succeeds, in Sync as in Swap.

\* Mutant: the fsync is left to the background thread.
BugSync ==
  /\ phase = "sync"
  /\ bio' = bio \cup {"new"}
  /\ GoTo("poll")
  /\ UNCHANGED <<conf, data, bufVars, file, jobVars, seenVars>>

Sync ==
  /\ phase = "sync"
  /\ IF conf.fsync = "always" /\ ~ (conf.skip /\ child # "none")
     THEN /\ file' = Synced(file) /\ hasty' = {} /\ renamed' = FALSE
          /\ UNCHANGED bio
     ELSE /\ UNCHANGED <<file, hasty, renamed>>
          \* everysec: once a second has passed, unless a job is pending.
          /\ \/ conf.fsync = "everysec" /\ bio = {} /\ ~ (conf.skip /\ child # "none")
                /\ bio' = {"new"}
             \/ UNCHANGED bio
  /\ GoTo("poll")
  /\ UNCHANGED <<conf, data, bufVars, jobVars, acked, torn, halves, faults>>

\* aeApiPoll.  A socket is watched for writing while any reply waits for it; out has
\* those of writes only, so "w" may fire without them.
Poll ==
  /\ phase = "poll"
  /\ fired' \in [Clients -> SUBSET {"r", "w"}]
  /\ phase' = "events"
  /\ UNCHANGED <<conf, out, data, bufVars, file, jobVars, bio, seenVars>>

EventsDone ==
  /\ phase = "events" /\ \A c \in Clients : fired[c] = {}
  /\ GoTo("cron")
  /\ UNCHANGED <<conf, data, bufVars, file, jobVars, bio, seenVars>>

-----------------------------------------------------------------------------
(* Rewriting in the background                                             *)

\* rewriteAppendOnlyFileBackground.  When fork fails, nothing changes, and what
\* was scheduled stays so.
Fork ==
  /\ child' = "aof" /\ snap' = data /\ scheduled' = FALSE
  /\ selected' = NoDB
  /\ UNCHANGED diff

ForkFails == Fault("fork") /\ UNCHANGED <<snap, diff, scheduled, selected>>

\* bgrewriteaofCommand.
RewriteCommand(c) ==
  /\ phase = "events" /\ "r" \in fired[c] /\ ~ Rewriting
  /\ fired' = [fired EXCEPT ![c] = @ \ {"r"}]
  /\ \/ child = "none" /\ Fork /\ UNCHANGED faults
     \/ child = "none" /\ ForkFails /\ UNCHANGED child
     \/ child # "none" /\ scheduled' = TRUE /\ UNCHANGED <<child, snap, diff, selected, faults>>
  /\ UNCHANGED <<conf, phase, out, data, buf, size, postponed, failing, file, bio,
                 acked, hasty, torn, renamed, halves>>

\* serverCron without a child to look after.
CronIdle ==
  /\ phase = "cron"
  /\ child = "none" => ~ scheduled
  /\ child \notin {"rdb_done", "aof_ok", "aof_failed"}
  /\ GoTo("flush")
  /\ UNCHANGED <<conf, data, bufVars, file, jobVars, bio, seenVars>>

\* A scheduled rewrite comes first; a save, or a rewrite because the file has
\* grown, only when that has not been started.
CronRewrite ==
  /\ phase = "cron" /\ child = "none"
  /\ Fork
  /\ GoTo("flush")
  /\ UNCHANGED <<conf, data, buf, size, postponed, failing, file, bio, seenVars>>


CronSave ==
  /\ phase = "cron" /\ child = "none" /\ ~ scheduled
  /\ child' = "rdb"
  /\ GoTo("flush")
  /\ UNCHANGED <<conf, data, bufVars, file, snap, diff, scheduled, bio, seenVars>>

\* The rewrite cannot be started.  One that was scheduled stays scheduled, and
\* the same tick goes on to the saves (redis.c:1118).
CronForkFails ==
  /\ phase = "cron" /\ child = "none"
  /\ ForkFails
  /\ UNCHANGED child \/ (scheduled /\ child' = "rdb")
  /\ GoTo("flush")
  /\ UNCHANGED <<conf, data, buf, size, postponed, failing, file, bio,
                 acked, hasty, torn, renamed, halves>>

\* The child process ends by itself.
ChildEnds ==
  /\ \/ child = "rdb" /\ child' = "rdb_done" /\ UNCHANGED faults
     \/ child = "aof" /\ child' = "aof_ok" /\ UNCHANGED faults
     \/ child = "aof" /\ child' = "aof_failed" /\ Fault("child")
  /\ UNCHANGED <<conf, loopVars, data, bufVars, file, snap, diff, scheduled, bio,
                 acked, hasty, torn, renamed, halves>>

CronSaved ==
  /\ phase = "cron" /\ child = "rdb_done"
  /\ child' = "none"
  /\ GoTo("flush")
  /\ UNCHANGED <<conf, data, bufVars, file, snap, diff, scheduled, bio, seenVars>>

\* The end of backgroundRewriteDoneHandler, whatever happened.
Cleanup == child' = "none" /\ snap' = <<>> /\ diff' = <<>> /\ UNCHANGED scheduled

\* Its beginning: the differences are written behind the child's file.
WriteDiff ==
  /\ phase = "cron" /\ child = "aof_ok"
  /\ GoTo("rename")
  /\ UNCHANGED <<conf, data, bufVars, file, jobVars, bio, seenVars>>

\* The child failed, or its file cannot be opened, extended or renamed.
RewriteFails ==
  /\ \/ phase = "cron" /\ child = "aof_failed" /\ UNCHANGED faults
     \/ phase \in {"cron", "rename"} /\ child = "aof_ok" /\ Fault("rename")
  /\ Cleanup
  /\ GoTo("flush")
  /\ UNCHANGED <<conf, data, bufVars, file, bio, acked, hasty, torn, renamed, halves>>

\* Mutant: the differences are left out.
BugRename ==
  /\ phase = "rename"
  /\ file' = [base |-> snap, log |-> <<>>, synced |-> 0]
  /\ torn' = FALSE /\ renamed' = Promised
  /\ GoTo("swap")
  /\ UNCHANGED <<conf, data, bufVars, jobVars, bio, acked, hasty, halves, faults>>

\* The new file takes the place of the old one.  The child has synced its own part.
Rename ==
  /\ phase = "rename"
  /\ file' = [base |-> snap, log |-> diff, synced |-> 0]
  /\ torn' = FALSE /\ renamed' = Promised
  /\ GoTo("swap")
  /\ UNCHANGED <<conf, data, bufVars, jobVars, bio, acked, hasty, halves, faults>>

\* Mutant: the buffer is not cleared: its commands are in the new file already.
BugSwap ==
  /\ phase = "swap"
  /\ IF conf.fsync = "always"
     THEN file' = Synced(file) /\ hasty' = {} /\ renamed' = FALSE
     ELSE UNCHANGED <<file, hasty, renamed>>
  /\ bio' = (IF bio = {} THEN {} ELSE {"old"}) \cup (IF conf.fsync = "everysec" THEN {"new"} ELSE {})
  /\ selected' = NoDB /\ size' = FileLen(file)
  /\ Cleanup
  /\ GoTo("flush")
  /\ UNCHANGED <<conf, data, buf, postponed, failing, acked, torn, halves, faults>>

Swap ==
  /\ phase = "swap"
  /\ IF conf.fsync = "always"
     THEN file' = Synced(file) /\ hasty' = {} /\ renamed' = FALSE
     ELSE UNCHANGED <<file, hasty, renamed>>
  /\ bio' = (IF bio = {} THEN {} ELSE {"old"}) \cup (IF conf.fsync = "everysec" THEN {"new"} ELSE {})
  /\ selected' = NoDB /\ size' = FileLen(file) /\ buf' = <<>>
  /\ Cleanup
  /\ GoTo("flush")
  /\ UNCHANGED <<conf, data, postponed, failing, acked, torn, halves, faults>>

\* The other thread takes one job of its queue.  The file of an old job has gone.
BackgroundFsync ==
  /\ Up /\ bio # {}
  /\ IF "old" \in bio
     THEN bio' = bio \ {"old"} /\ UNCHANGED file
     ELSE bio' = {} /\ file' = Synced(file)
  /\ UNCHANGED <<conf, loopVars, data, bufVars, jobVars, seenVars>>

-----------------------------------------------------------------------------
(* Ends and beginnings                                                     *)

MayShutDown == phase = "cron" \/ (phase = "events" /\ \E c \in Clients : "r" \in fired[c])

\* SHUTDOWN or SIGTERM: prepareForShutdown syncs the file and does not flush the
\* buffer.
Shutdown ==
  /\ MayShutDown
  /\ file' = Synced(file)
  /\ Die
  /\ UNCHANGED <<hasty, torn, renamed, faults>>

\* The save before the exit fails: the server goes on, without its child.
ShutdownFails ==
  /\ MayShutDown /\ Fault("save")
  /\ file' = Synced(file)
  /\ child' = (CASE child = "rdb" -> "rdb_done" [] child = "aof" -> "aof_failed"
                [] OTHER -> child)
  /\ UNCHANGED <<conf, loopVars, data, bufVars, snap, diff, scheduled, bio,
                 acked, hasty, torn, renamed, halves>>

\* The process is killed: what it has written is in the hands of the kernel.
Kill ==
  /\ Up /\ Fault("kill")
  /\ Die
  /\ UNCHANGED <<file, hasty, torn, renamed>>

\* The machine stops: of what has not been synced, a part may remain.
PowerLoss ==
  /\ Fault("power")
  /\ \E n \in file.synced..Len(file.log) :
       /\ file' = [file EXCEPT !.log = SubSeq(@, 1, n)]
       /\ torn' = (torn \/ n < Len(file.log))
  /\ Die
  /\ UNCHANGED <<hasty, renamed>>

\* main, initServer, loadDataFromDisk.  An unfinished command at the end is cut
\* off, an unfinished transaction is not.
Restart ==
  /\ phase = "down"
  /\ phase' = "flush"
  /\ data' = Load(file)
  /\ size' = FileLen(file)
  /\ acked' = {i \in acked : i <= Len(data')} /\ hasty' = {i \in hasty : i <= Len(data')}
  /\ halves' = {n \in halves : n <= Len(data')} \cup HalfEnd(data')
  /\ torn' = FALSE
  /\ UNCHANGED <<conf, fired, out, buf, selected, postponed, failing, file, jobVars, bio,
                 renamed, faults>>

-----------------------------------------------------------------------------

\* The main thread.
Thread ==
  \/ FlushNothing \/ PostponeFlush \/ WriteBuffer \/ ShortWrite \/ Sync \/ Poll
  \/ \E c \in Clients : ReadCommand(c) \/ ReadOther(c) \/ RewriteCommand(c) \/ SendReply(c)
  \/ EventsDone
  \/ CronIdle \/ CronRewrite \/ CronSave \/ CronForkFails \/ CronSaved
  \/ WriteDiff \/ RewriteFails \/ Rename \/ Swap

Next ==
  \/ Thread \/ ChildEnds \/ BackgroundFsync
  \/ Shutdown \/ ShutdownFails \/ Kill \/ PowerLoss \/ Restart

\* The thread runs, children end, the fsync thread works off its queue.
Fairness == WF_vars(Thread) /\ WF_vars(ChildEnds) /\ WF_vars(BackgroundFsync)

Spec == Init /\ [][Next]_vars /\ Fairness

-----------------------------------------------------------------------------
(* Properties                                                              *)

Prefix(s, t) == Len(s) <= Len(t) /\ \A i \in 1..Len(s) : s[i] = t[i]

\* What a server loads is the beginning of what was executed: no command is
\* missing in the middle, is run twice or ends up in another database
\* (aof.c:460, 1124 and 1270 keep the SELECTs of two buffers right).
LoadedIsPrefix == [][Restart => Prefix(data', data)]_vars

\* A rewrite changes nothing: the moment the new file takes over (aof.c:1248),
\* it holds all that was executed, the differences since the fork included.
RewriteIsExact == [][Rename => Load(file') = data]_vars

\* With appendfsync always and without the exception for running children, a
\* reply that was sent is kept: "we have the contract with the user that on
\* acknowledged write data is synced on disk" (aof.c:332).  While fsync works, two
\* things break it: a reply in the round that executed the command (ae.c:414), and a
\* loss of power after the new file of a rewrite was renamed and before it was
\* synced (aof.c:1248-1267).
AckedIsKept ==
  [][(Restart /\ conf.fsync = "always" /\ ~ conf.skip) =>
       \A i \in acked : i <= Len(data') \/ i \in hasty \/ renamed]_vars

\* Half a transaction is loaded only from a file that a failed write or a loss of
\* power has cut, or after it was loaded half once, because a round of the loop
\* writes what it executed in one piece.
WholeTransactions ==
  [][Restart => HalfEnd(data') \subseteq halves \/ torn]_vars

\* What is buffered gets to the file, also when the flush was put off because an
\* fsync was running or had failed (redis.c:1159, 1165).
BufferIsFlushed == (buf # <<>> /\ Up) ~> (buf = <<>> \/ ~ Up)


-----------------------------------------------------------------------------
(* What clients see of it                                                  *)

\* The data set of a server that is up; what it would load of one that is down.
Stored == IF Up THEN data ELSE Load(file)

\* The writes whose replies were sent under the contract of aof.c:332, but for
\* those that were sent in the round of their command.
Settled ==
  IF Promised THEN {i \in acked \ hasty : Up \/ i <= FileLen(file)} ELSE {}

Durable == INSTANCE Journal WITH stored <- Stored, settled <- Settled, exposed <- renamed

\* Buffers, short writes, rewrites in the background, delayed fsyncs and restarts
\* do not show: the server is a sequence of writes that grows by whole
\* commands, and loses writes only from its end, when it stops, and, while fsync
\* works, of those that were answered only with a file that a rewrite has put in
\* place and not yet synced (aof.c:1248).
ImplementsJournal == Durable!Spec

================================================================================
