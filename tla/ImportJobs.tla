----------------------------- MODULE ImportJobs -----------------------------
(***************************************************************************)
(* The library import pipeline: packages the owner uploads become rows of  *)
(* knowledge_import_jobs, workers claim them under a lease, and every file *)
(* of a package becomes at most one Document with its chunks.              *)
(*                                                                         *)
(* Three mechanisms keep workers apart, and none of them is a fence: the   *)
(* lease on the job row, a Redis lock per package checksum, and the lookup *)
(* of an existing document by content checksum.  A worker keeps its job as *)
(* an ORM object that is loaded once and never refreshed (the session does *)
(* not expire objects on commit), so what it flushes is what changed since *)
(* it last looked.                                                         *)
(*                                                                         *)
(* A document's seventeen statuses are classed by what the pipeline does   *)
(* with them: "open" (RESUMABLE_INDEX_STATUSES), "paused" (awaiting or     *)
(* blocked provider), "indexed", "failed" (the four failures), "cancelled".*)
(***************************************************************************)
EXTENDS Integers, FiniteSets, Sequences

CONSTANTS
  Jobs,         \* ids of the uploads, in the order they are made
  Entries,      \* Entries[j]: contents of the files of j's package, in order
  IsZip,        \* IsZip[j]: a package, not a single file
  Skipped,      \* entries that are never imported (manifest, encrypted, unsafe)
  Mismatched,   \* contents whose manifest entry declares another checksum
  Procs,        \* worker processes
  WorkerId,     \* WorkerId[p]: locked_by identity, the host name by default
  MaxAttempts,  \* max_attempts column
  MaxCrashes,   \* bound: worker processes killed
  MaxLapses,    \* bound: leases and locks that run out on a live worker
  MaxErrors,    \* bound: errors and per-file failures
  MaxOutages,   \* bound: times the embedding provider goes away
  MaxPurges     \* bound: sources the owner deletes

ASSUME ImportConstants ==
  /\ Jobs \subseteq Nat /\ Jobs # {}
  /\ \A j \in Jobs : /\ Len(Entries[j]) \in Nat \ {0}
                     /\ DOMAIN Entries[j] = 1 .. Len(Entries[j])
                     /\ ~IsZip[j] => Len(Entries[j]) = 1
  /\ Procs \cap {"free", "dead"} = {}
  /\ MaxAttempts \in Nat \ {0}
  /\ {MaxCrashes, MaxLapses, MaxErrors, MaxOutages, MaxPurges} \subseteq Nat

VARIABLES
  jobs,      \* jobs[j]: the row of knowledge_import_jobs
  docs,      \* the Document rows in order of creation
  lock,      \* lock[k]: holder of the Redis lock of package k, "free" or "dead"
  provider,  \* is the embedding provider verified?
  run,       \* run[p]: the local state of process p
  count      \* bounded counters

vars == <<jobs, docs, lock, provider, run, count>>

\* source_checksum: uploads of the same files are the same package.
Packages == {Entries[j] : j \in Jobs}
Contents == UNION {{Entries[j][i] : i \in DOMAIN Entries[j]} : j \in Jobs}

JobStatuses == {"none", "pending", "running", "completed", "failed", "partial",
                "cancelled", "blocked"}
Unfinished == {"pending", "running", "blocked"}
DocStatuses == {"open", "paused", "indexed", "failed", "cancelled"}
Outcomes == {"indexed", "duplicate", "failed", "skipped", "cancelled", "blocked"}

\* "total" is progress_total, "blocked" is blocked_count > 0.
Rows == [status : JobStatuses, lockedBy : {WorkerId[p] : p \in Procs} \cup {"none"},
         lease : {"none", "live", "expired"}, attempts : Nat, total : Nat,
         blocked : BOOLEAN]

NewRow == [status |-> "none", lockedBy |-> "none", lease |-> "none",
           attempts |-> 0, total |-> 0, blocked |-> FALSE]

Documents == [content : Contents, job : Jobs, status : DocStatuses,
              deleted : BOOLEAN, chunks : Nat]

PCs == {"idle", "load", "lock", "start", "file", "create", "store", "extract",
        "resume", "embed", "upsert", "rollup", "backoff"}

IdleRun == [pc |-> "idle", job |-> CHOOSE j \in Jobs : TRUE, mem |-> NewRow,
            pos |-> 1, doc |-> 0, outcomes |-> {}]

-----------------------------------------------------------------------------
(* Rows and the ORM                                                        *)

\* An UPDATE of the attributes that differ from the loaded ones.
Flush(row, mem, new) ==
  [f \in DOMAIN row |-> IF new[f] # mem[f] THEN new[f] ELSE row[f]]

\* p flushes and commits its job object as "new".
Save(p, new) ==
  jobs' = [jobs EXCEPT ![run[p].job] = Flush(@, run[p].mem, new)]

Stop(p) == run' = [run EXCEPT ![p] = IdleRun]

Package(p) == Entries[run[p].job]

\* The lock's token is deleted only by the process that set it.
Unlock(p) == lock' = [k \in Packages |-> IF lock[k] = p THEN "free" ELSE lock[k]]

Live(d) == ~docs[d].deleted

\* Live documents with content c.
Copies(c) == {d \in DOMAIN docs : Live(d) /\ docs[d].content = c}

\* A live document of j is stuck in the middle of the pipeline.
Stuck(j) == \E d \in DOMAIN docs :
              Live(d) /\ docs[d].job = j /\ docs[d].status = "open"

Bump(counter) == count' = [count EXCEPT ![counter] = @ + 1]

\* A failure of this step, while the bound allows one.
MayFail == count.errors < MaxErrors /\ Bump("errors")

-----------------------------------------------------------------------------
Init ==
  /\ jobs = [j \in Jobs |-> NewRow]
  /\ docs = <<>>
  /\ lock = [k \in Packages |-> "free"]
  /\ provider = TRUE
  /\ run = [p \in Procs |-> IdleRun]
  /\ count = [crashes |-> 0, lapses |-> 0, errors |-> 0, outages |-> 0,
              purges |-> 0]

\* import_package: the upload is stored and a job created, unless a completed
\* job for the same bytes still has a result, which is returned instead.
Upload(j) ==
  /\ jobs[j].status = "none"
  /\ \A k \in Jobs : k < j => jobs[k].status # "none"
  /\ ~ \E k \in Jobs : /\ jobs[k].status = "completed"
                       /\ Entries[k] = Entries[j]
                       /\ \E d \in DOMAIN docs : Live(d) /\ docs[d].job = k
  /\ jobs' = [jobs EXCEPT ![j].status = "pending"]
  /\ UNCHANGED <<docs, lock, provider, run, count>>

-----------------------------------------------------------------------------
(* The passes an idle worker makes over the tables                         *)

Requeueable(row) ==
  row.status = "blocked" \/ (row.status = "partial" /\ row.blocked)

RequeueBlocked(p) ==
  /\ run[p].pc = "idle" /\ provider
  /\ \E j \in Jobs : Requeueable(jobs[j])
  /\ jobs' = [j \in Jobs |-> IF Requeueable(jobs[j])
                             THEN [jobs[j] EXCEPT !.status = "pending"]
                             ELSE jobs[j]]
  /\ UNCHANGED <<docs, lock, provider, run, count>>

\* Mutant: a failed job is final, whatever it left behind.
OrphanedCompletedOnly(j) == jobs[j].status = "completed" /\ Stuck(j)

Orphaned(j) == jobs[j].status \in {"completed", "partial", "failed"} /\ Stuck(j)

ReconcileOrphaned(p) ==
  /\ run[p].pc = "idle"
  /\ \E j \in Jobs : Orphaned(j)
  /\ jobs' = [j \in Jobs |-> IF Orphaned(j)
                             THEN [jobs[j] EXCEPT !.status = "pending"]
                             ELSE jobs[j]]
  /\ UNCHANGED <<docs, lock, provider, run, count>>

Claimable(row) ==
  \/ row.status = "pending"
  \/ row.status = "running" /\ row.lease = "expired"

\* claim_next_job: the oldest candidate, re-validated by the claiming UPDATE.
Claim(p, j) ==
  /\ run[p].pc = "idle"
  /\ Claimable(jobs[j])
  /\ \A k \in Jobs : Claimable(jobs[k]) => j <= k
  /\ jobs' = [jobs EXCEPT ![j] = [@ EXCEPT !.status = "running",
                                           !.lockedBy = WorkerId[p],
                                           !.lease = "live"]]
  /\ run' = [run EXCEPT ![p] = [IdleRun EXCEPT !.pc = "load", !.job = j]]
  /\ UNCHANGED <<docs, lock, provider, count>>

-----------------------------------------------------------------------------
(* run_import_job and _run_once                                            *)

Load(p) ==
  /\ run[p].pc = "load"
  /\ run' = [run EXCEPT ![p].pc = "lock", ![p].mem = jobs[run[p].job]]
  /\ UNCHANGED <<jobs, docs, lock, provider, count>>

\* Mutant: a held lock is ignored.
AcquireLockAlways(p) ==
  /\ run[p].pc = "lock"
  /\ lock' = [lock EXCEPT ![Package(p)] = p]
  /\ run' = [run EXCEPT ![p].pc = "start"]
  /\ UNCHANGED <<jobs, docs, provider, count>>

\* SET NX: a contended lock fails the job for good.
AcquireLock(p) ==
  /\ run[p].pc = "lock"
  /\ \/ /\ lock[Package(p)] = "free"
        /\ lock' = [lock EXCEPT ![Package(p)] = p]
        /\ run' = [run EXCEPT ![p].pc = "start"]
        /\ UNCHANGED jobs
     \/ /\ lock[Package(p)] # "free"
        /\ Save(p, [run[p].mem EXCEPT !.status = "failed"])
        /\ Stop(p)
        /\ UNCHANGED lock
  /\ UNCHANGED <<docs, provider, count>>

\* The stored original is read (or cannot be), the job is set to running and
\* its number of files recorded.
Start(p) ==
  /\ run[p].pc = "start"
  /\ \/ /\ MayFail
        /\ Save(p, [run[p].mem EXCEPT !.status = "failed"])
        /\ Stop(p)
        /\ Unlock(p)
     \/ /\ LET new == [run[p].mem EXCEPT !.status = "running",
                                         !.total = Len(Package(p))]
           IN  /\ Save(p, new)
               /\ run' = [run EXCEPT ![p].pc = "file", ![p].mem = new]
        /\ UNCHANGED <<lock, count>>
  /\ UNCHANGED <<docs, provider>>

\* The end of one file: its outcome is saved and, in a package, the lease is
\* renewed if the row still names the worker the job was loaded with.
EndFile(p, outcome) ==
  LET j == run[p].job
      last == run[p].pos = Len(Package(p))
  IN  /\ run' = [run EXCEPT ![p].pc = IF last THEN "rollup" ELSE "file",
                            ![p].pos = @ + 1, ![p].doc = 0,
                            ![p].outcomes = @ \cup {outcome}]
      /\ jobs' = IF IsZip[j] /\ jobs[j].lockedBy = run[p].mem.lockedBy
                 THEN [jobs EXCEPT ![j].lease = "live"] ELSE jobs

SetDoc(d, status) == docs' = [docs EXCEPT ![d].status = status]

\* The status of p's document is written and its file ends.
EndDoc(p, status, outcome) == SetDoc(run[p].doc, status) /\ EndFile(p, outcome)

CancelSeen(p) == jobs[run[p].job].status = "cancelled"

Goto(p, pc, d) ==
  /\ run' = [run EXCEPT ![p].pc = pc, ![p].doc = d]
  /\ UNCHANGED jobs

\* Mutant: every live copy is a duplicate, as before the incident of 07-28.
ExistingDuplicate(p, d) == EndFile(p, "duplicate")

\* _import_one_file on a live copy of the same content: resumed when it is not
\* in a terminal state, reported again when it failed, else a duplicate.
Existing(p, d) ==
  \/ docs[d].status \in {"open", "paused"} /\ Goto(p, "resume", d)
  \/ docs[d].status = "failed" /\ EndFile(p, "failed")
  \/ docs[d].status \in {"indexed", "cancelled"} /\ EndFile(p, "duplicate")

NextFile(p) ==
  /\ run[p].pc = "file"
  /\ LET c == Package(p)[run[p].pos] IN
     \/ CancelSeen(p) /\ EndFile(p, "cancelled")
     \/ ~CancelSeen(p) /\ c \in Skipped /\ EndFile(p, "skipped")
     \/ /\ ~CancelSeen(p) /\ c \notin Skipped
        /\ \/ \E d \in Copies(c) : Existing(p, d)
           \/ Copies(c) = {} /\ c \in Mismatched /\ EndFile(p, "failed")
           \/ Copies(c) = {} /\ c \notin Mismatched /\ Goto(p, "create", 0)
  /\ UNCHANGED <<docs, lock, provider, count>>

-----------------------------------------------------------------------------
(* _import_one_file on new content, _resume_incomplete_document and        *)
(* index_document                                                          *)

\* The Document row and its first version are committed before anything else.
Create(p) ==
  /\ run[p].pc = "create"
  /\ docs' = Append(docs, [content |-> Package(p)[run[p].pos], job |-> run[p].job,
                           status |-> "open", deleted |-> FALSE, chunks |-> 0])
  /\ Goto(p, "store", Len(docs) + 1)
  /\ UNCHANGED <<lock, provider, count>>

\* Each of the two steps first looks for a cancelled job; storing the original
\* or extracting its text may fail, which ends the file and not the job.
StoreOrExtract(p, pc, next) ==
  /\ run[p].pc = pc
  /\ \/ CancelSeen(p) /\ EndDoc(p, "cancelled", "cancelled") /\ UNCHANGED count
     \/ ~CancelSeen(p) /\ MayFail /\ EndDoc(p, "failed", "failed")
     \/ /\ ~CancelSeen(p)
        /\ SetDoc(run[p].doc, "open")
        /\ Goto(p, next, run[p].doc)
        /\ UNCHANGED count
  /\ UNCHANGED <<lock, provider>>

Store(p) == StoreOrExtract(p, "store", "extract")
Extract(p) == StoreOrExtract(p, "extract", "embed")

\* Extraction again, on the same row and without a look at the job.
Resume(p) ==
  /\ run[p].pc = "resume"
  /\ \/ MayFail /\ EndDoc(p, "failed", "failed")
     \/ /\ SetDoc(run[p].doc, "open")
        /\ Goto(p, "embed", run[p].doc)
        /\ UNCHANGED count
  /\ UNCHANGED <<lock, provider>>

\* The provider is verified first; the call itself may still fail.
Embed(p) ==
  /\ run[p].pc = "embed"
  /\ \/ ~provider /\ EndDoc(p, "paused", "blocked") /\ UNCHANGED count
     \/ provider /\ MayFail /\ EndDoc(p, "failed", "failed")
     \/ /\ provider
        /\ Goto(p, "upsert", run[p].doc)
        /\ UNCHANGED <<docs, count>>
  /\ UNCHANGED <<lock, provider>>

\* upsert_chunks adds rows and the document is indexed, in one commit.
Upsert(p) ==
  /\ run[p].pc = "upsert"
  /\ docs' = [docs EXCEPT ![run[p].doc].chunks = @ + 1,
                          ![run[p].doc].status = "indexed"]
  /\ EndFile(p, "indexed")
  /\ UNCHANGED <<lock, provider, count>>

-----------------------------------------------------------------------------
(* The end of a run                                                        *)

\* The status the outcomes of a run add up to.
Summary(outcomes) ==
  LET some(S) == outcomes \cap S # {} IN
  IF some({"cancelled"}) /\ ~some({"indexed"}) THEN "cancelled"
  ELSE IF some({"blocked"}) /\ ~some({"indexed", "failed"}) THEN "blocked"
  ELSE IF ~some({"failed"}) THEN "completed"
  ELSE IF some({"indexed", "duplicate", "skipped", "blocked"}) THEN "partial"
  ELSE "failed"

\* No job ends while a live document of it is still in the pipeline.
FinalStatus(p) ==
  LET s == Summary(run[p].outcomes)
  IN  IF s \in {"completed", "partial", "failed"} /\ Stuck(run[p].job)
      THEN "pending" ELSE s

Rollup(p) ==
  /\ run[p].pc = "rollup"
  /\ Save(p, [run[p].mem EXCEPT !.status = FinalStatus(p),
                                !.blocked = "blocked" \in run[p].outcomes])
  /\ Stop(p)
  /\ Unlock(p)
  /\ UNCHANGED <<docs, provider, count>>

\* An exception that escapes run_import_job: the lock is released, the job
\* reloaded and failed, or put back to pending while this worker sleeps.
Raise(p, transient) ==
  /\ run[p].pc \in IF transient THEN {"lock", "start", "store"}
                   ELSE {"start", "file", "create", "store", "extract", "resume",
                         "rollup"}
  /\ MayFail
  /\ Unlock(p)
  /\ LET row == jobs[run[p].job]
         again == transient /\ row.attempts + 1 < MaxAttempts
         new == IF again THEN [row EXCEPT !.status = "pending", !.attempts = @ + 1]
                ELSE [row EXCEPT !.status = "failed"]
     IN  /\ jobs' = [jobs EXCEPT ![run[p].job] = new]
         /\ run' = [run EXCEPT ![p] = IF again
                       THEN [IdleRun EXCEPT !.pc = "backoff", !.job = run[p].job,
                                            !.mem = new]
                       ELSE IdleRun]
  /\ UNCHANGED <<docs, provider>>

\* The sleep ends; the job object is the one from before it.
EndBackoff(p) ==
  /\ run[p].pc = "backoff"
  /\ run' = [run EXCEPT ![p].pc = "lock"]
  /\ UNCHANGED <<jobs, docs, lock, provider, count>>

-----------------------------------------------------------------------------
(* The owner, the provider and faults                                      *)

\* Phase A of purge_source: the row is kept, its chunks are deleted, and a job
\* of a single file that is still to be done is cancelled.
Purge(d) ==
  /\ Live(d)
  /\ count.purges < MaxPurges /\ Bump("purges")
  /\ docs' = [docs EXCEPT ![d].deleted = TRUE, ![d].chunks = 0,
                          ![d].status = IF @ \in {"indexed", "failed"} THEN @
                                         ELSE "cancelled"]
  /\ LET j == docs[d].job IN
     jobs' = IF jobs[j].status \in {"pending", "running"} /\ jobs[j].total <= 1
             THEN [jobs EXCEPT ![j].status = "cancelled"] ELSE jobs
  /\ UNCHANGED <<lock, provider, run>>

ProviderDown ==
  /\ provider
  /\ count.outages < MaxOutages /\ Bump("outages")
  /\ provider' = FALSE
  /\ UNCHANGED <<jobs, docs, lock, run>>

ProviderUp ==
  /\ ~provider
  /\ provider' = TRUE
  /\ UNCHANGED <<jobs, docs, lock, run, count>>

\* The process is killed: its lease and its lock stay until they run out.
Crash(p) ==
  /\ run[p].pc # "idle"
  /\ count.crashes < MaxCrashes /\ Bump("crashes")
  /\ Stop(p)
  /\ lock' = [k \in Packages |-> IF lock[k] = p THEN "dead" ELSE lock[k]]
  /\ UNCHANGED <<jobs, docs, provider>>

Worked(j) == \E p \in Procs : run[p].pc # "idle" /\ run[p].job = j

\* The lock (60 s, never renewed) of a dead worker runs out before the lease
\* (120 s, renewed per file); that of a live one only if it is slow.
ExpireLock(k) ==
  /\ lock[k] # "free"
  /\ \/ lock[k] = "dead" /\ UNCHANGED count
     \/ lock[k] # "dead" /\ count.lapses < MaxLapses /\ Bump("lapses")
  /\ lock' = [lock EXCEPT ![k] = "free"]
  /\ UNCHANGED <<jobs, docs, provider, run>>

ExpireLease(j) ==
  /\ jobs[j].status = "running" /\ jobs[j].lease = "live"
  /\ lock[Entries[j]] # "dead"
  /\ \/ ~Worked(j) /\ UNCHANGED count
     \/ Worked(j) /\ count.lapses < MaxLapses /\ Bump("lapses")
  /\ jobs' = [jobs EXCEPT ![j].lease = "expired"]
  /\ UNCHANGED <<docs, lock, provider, run>>

-----------------------------------------------------------------------------
Process(p) ==
  \/ Load(p) \/ AcquireLock(p) \/ Start(p) \/ NextFile(p) \/ Create(p)
  \/ Store(p) \/ Extract(p) \/ Resume(p) \/ Embed(p) \/ Upsert(p)
  \/ Rollup(p) \/ EndBackoff(p)

Next ==
  \/ \E j \in Jobs : Upload(j) \/ ExpireLease(j)
  \/ \E p \in Procs :
       \/ RequeueBlocked(p) \/ ReconcileOrphaned(p) \/ Process(p) \/ Crash(p)
       \/ \E j \in Jobs : Claim(p, j)
       \/ \E transient \in BOOLEAN : Raise(p, transient)
  \/ \E d \in DOMAIN docs : Purge(d)
  \/ ProviderDown \/ ProviderUp
  \/ \E k \in Packages : ExpireLock(k)

Spec == Init /\ [][Next]_vars

\* The poll loop runs every pass on every tick, a started run goes on, time
\* passes and the provider comes back.
Fairness ==
  /\ \A p \in Procs :
       /\ WF_vars(Process(p))
       /\ SF_vars(RequeueBlocked(p)) /\ SF_vars(ReconcileOrphaned(p))
       /\ SF_vars(\E j \in Jobs : Claim(p, j))
  /\ \A j \in Jobs : WF_vars(ExpireLease(j) /\ ~Worked(j))
  /\ \A k \in Packages : WF_vars(ExpireLock(k) /\ lock[k] = "dead")
  /\ WF_vars(ProviderUp)

FairSpec == Spec /\ Fairness

-----------------------------------------------------------------------------
(* What the pipeline promises                                              *)

\* Rows, documents, locks and the local states of _run_once are well formed; a
\* worker names only documents that were committed.
TypeOK ==
  /\ jobs \in [Jobs -> Rows]
  /\ docs \in Seq(Documents)
  /\ lock \in [Packages -> Procs \cup {"free", "dead"}]
  /\ provider \in BOOLEAN
  /\ run \in [Procs -> [pc : PCs, job : Jobs, mem : Rows, pos : Nat,
                        doc : 0..Len(docs), outcomes : SUBSET Outcomes]]
  /\ count \in [{"crashes", "lapses", "errors", "outages", "purges"} -> Nat]

\* "Identical content (by checksum) already owned by this user is never
\* re-imported as a second copy": lookup and insert in _import_one_file are two
\* transactions, and only the lock per package is held across them.
OneLiveCopy == \A c \in Contents : \A d, e \in Copies(c) : d = e

\* A document's text is chunked once, however often its import was begun and
\* resumed: upsert_chunks only ever adds rows.
ChunksOnce == \A d \in DOMAIN docs : docs[d].chunks <= 1

\* A document with this content is indexed, waits for the provider, or was
\* deleted by the owner.
Settled(c) ==
  \E d \in DOMAIN docs : /\ docs[d].content = c
                         /\ docs[d].deleted \/ docs[d].status \in {"indexed", "paused"}

FilesSettled(j) ==
  \A i \in DOMAIN Entries[j] : Entries[j][i] \notin Skipped => Settled(Entries[j][i])

\* A job completes only when it hides nothing: every file of it that is a source
\* is settled at that moment, whoever imported it and however the run that
\* _job_rollup sums up was reached.  (Later another upload of the same package
\* may take a waiting file up again, and fail.)
CompletionsAreTrue ==
  [][\A j \in Jobs : jobs[j].status # "completed" /\ jobs'[j].status = "completed"
        => FilesSettled(j)']_vars

\* No live document stays in the middle of the pipeline: whatever its worker was
\* doing when it died, a reclaim or _reconcile_orphaned_documents resumes it, so
\* that the pipeline is empty again and again.
StuckIsResumed == []<>(\A j \in Jobs : ~Stuck(j))

\* Every upload is eventually settled by run_import_job, through kills, the
\* transient backoff, blocked jobs and their requeueing: there is always a later
\* moment with no job left to do.
JobsSettle == []<>(\A j \in Jobs : jobs[j].status \notin Unfinished)

\* The states of the pipeline: typed, with one live copy of each file and no text
\* chunked twice.
ImportInv == TypeOK /\ OneLiveCopy /\ ChunksOnce

\* The pipeline drains: again and again no document is stuck in it, and no job
\* is left to do.
PipelineDrains == StuckIsResumed /\ JobsSettle
=============================================================================
