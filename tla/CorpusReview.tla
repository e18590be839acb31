---------------------------- MODULE CorpusReview ----------------------------
(***************************************************************************)
(* The durable job runtime running corpus_review jobs: the mainai_jobs     *)
(* table, the worker processes that claim rows and review documents under  *)
(* a lease, the owner's cancel and retry requests, document purges,        *)
(* crashes and lapsed leases.                                              *)
(*                                                                         *)
(* A step is one database transaction of the code, or the return of the    *)
(* awaited provider call.  A process whose lease lapsed is not told: it    *)
(* keeps running and only its next fenced write finds out.                 *)
(***************************************************************************)
EXTENDS MainAIJob, FiniteSets, Sequences

CONSTANTS
  Jobs,        \* ids of the jobs in creation order: 1..n
  Documents,   \* the owner's documents
  Purgeable,   \* bound: the documents the owner may purge
  Refs,        \* Refs[j]: the documents of input_refs, in order
  HasPreview,  \* documents whose content_preview is set
  HasChunks,   \* documents with indexed chunks before any purge
  Procs,       \* worker processes
  WorkerId,    \* WorkerId[p]: locked_by identity; two processes may share it
  Requests,    \* API request threads
  MaxRetries,  \* max_retries column
  MaxFaults    \* bound: crashes, and lapses of a lease whose holder is alive

ASSUME ConstantsOK ==
  /\ Jobs \subseteq Nat /\ Jobs # {} /\ IsFiniteSet(Jobs)
  /\ Refs \in [Jobs -> Seq(Documents)]
  /\ HasPreview \cup HasChunks \cup Purgeable \subseteq Documents
  /\ WorkerId \in [Procs -> STRING]
  /\ MaxRetries \in Nat /\ MaxFaults \in Nat

VARIABLES
  jobs,        \* jobs[j]: the row of mainai_jobs
  proposals,   \* rows of mainai_job_proposals, with the writer's generation
  skips,       \* document_skipped events, with the writer's generation
  afterCancel, \* history: outcomes recorded for j since cancel_requested
  purged,      \* documents whose deleted_at is set
  run,         \* run[p]: the local state of process p
  req,         \* req[r]: a request between its read and its commit
  faults       \* number of faults so far

table == <<jobs, proposals, skips, afterCancel>>
vars == <<jobs, proposals, skips, afterCancel, purged, run, req, faults>>

PCs == {"idle", "dispatch", "unavailable", "start", "progress", "document",
        "provider", "record", "skip", "fail"}

\* reviewed is already_reviewed, count is reviewed_count, failed is
\* provider_failed_count, reason the reason of the skip being recorded.
Runs == [pc : PCs, job : Jobs, gen : Nat, pos : Nat,
         reviewed : SUBSET Documents, count : Nat, failed : Nat,
         reason : {"none", "unavailable", "provider"}]

IdleRun == [pc |-> "idle", job |-> CHOOSE j \in Jobs : TRUE, gen |-> 0,
            pos |-> 0, reviewed |-> {}, count |-> 0, failed |-> 0,
            reason |-> "none"]

Outcomes == [job : Jobs, pos : Nat, gen : Nat]

IdleRequest == [kind |-> "idle", job |-> CHOOSE j \in Jobs : TRUE,
                read |-> NewJobRow]

WorkerIds == {WorkerId[p] : p \in Procs}

-----------------------------------------------------------------------------
(* Helpers                                                                 *)

\* Mutant: the scan for earlier proposals finds nothing.
ReviewedForgotten(j) == {}

\* _already_reviewed_document_ids.
Reviewed(j) == {Refs[j][x.pos] : x \in {y \in proposals : y.job = j}}

\* The fence, for the row the process works on.
Fenced(p) == Holds(jobs[run[p].job], WorkerId[p], run[p].gen)

\* What _document_review_text finds: chunks, or else the preview.
Reviewable(d) == d \in HasPreview \/ (d \in HasChunks /\ d \notin purged)

Stop(p) == run' = [run EXCEPT ![p] = IdleRun]

Goto(p, pc) == run' = [run EXCEPT ![p].pc = pc]

\* Mutant: the loop jumps over a reference.
AdvanceByTwo(p, r) ==
  run' = [run EXCEPT ![p] = [r EXCEPT !.pc = "document", !.pos = @ + 2,
                                      !.reason = "none"]]

\* The for loop moves on to the next reference.
Advance(p, r) ==
  run' = [run EXCEPT ![p] = [r EXCEPT !.pc = "document", !.pos = @ + 1,
                                      !.reason = "none"]]

\* The loop body runs for the current reference.
AtOpenRef(p) ==
  LET r == run[p] IN
  /\ r.pc = "document"
  /\ r.pos \in DOMAIN Refs[r.job]
  /\ Refs[r.job][r.pos] \notin r.reviewed

\* One fenced statement: lost lease stops the run; a statement the database
\* refuses raises into the worker's last-resort handler, which marks the job
\* failed; an accepted one takes effect together with the rest of its step.
Write(p, new, Effect) ==
  LET j == run[p].job IN
  \/ /\ ~Fenced(p)
     /\ Stop(p)
     /\ UNCHANGED table
  \/ /\ Fenced(p) /\ ~Accepts(jobs[j], new)
     /\ Goto(p, "fail")
     /\ UNCHANGED table
  \/ /\ Fenced(p) /\ Accepts(jobs[j], new)
     /\ jobs' = [jobs EXCEPT ![j] = new]
     /\ Effect

\* Each recorded outcome after a cancel request counts against its promptness.
CountAfterCancel(j) ==
  afterCancel' = [afterCancel EXCEPT
                    ![j] = IF jobs[j].cancelRequested THEN @ + 1 ELSE @]

-----------------------------------------------------------------------------
Init ==
  /\ jobs = [j \in Jobs |-> NewJobRow]
  /\ proposals = {}
  /\ skips = {}
  /\ afterCancel = [j \in Jobs |-> 0]
  /\ purged = {}
  /\ run = [p \in Procs |-> IdleRun]
  /\ req = [r \in Requests |-> IdleRequest]
  /\ faults = 0

-----------------------------------------------------------------------------
(* The worker                                                              *)

\* claim_next_mainai_job: the oldest claimable row, in one transaction.
Claim(p, j) ==
  /\ run[p].pc = "idle"
  /\ Claimable(jobs[j])
  /\ \A k \in Jobs : Claimable(jobs[k]) => j <= k
  /\ jobs' = [jobs EXCEPT ![j] = Claimed(jobs[j], WorkerId[p])]
  /\ run' = [run EXCEPT ![p] = [IdleRun EXCEPT !.pc = "dispatch", !.job = j,
                                               !.gen = jobs[j].gen + 1]]
  /\ UNCHANGED <<proposals, skips, afterCancel, purged, req, faults>>

\* process_claimed_mainai_job: require_capability, then record_claimed.
Dispatch(p) ==
  /\ run[p].pc = "dispatch"
  /\ \E next \in {"start", "unavailable"} :
       Write(p, jobs[run[p].job], Goto(p, next)
               /\ UNCHANGED <<proposals, skips, afterCancel>>)
  /\ UNCHANGED <<purged, req, faults>>

\* The capability is gone: mark_failed(capability_unavailable).
MarkUnavailable(p) ==
  /\ run[p].pc = "unavailable"
  /\ Write(p, Failed(jobs[run[p].job], "capability_unavailable"), Stop(p)
             /\ UNCHANGED <<proposals, skips, afterCancel>>)
  /\ UNCHANGED <<purged, req, faults>>

\* Mutant: earlier reviews are skipped over but not counted.
ReadReviewedUncounted(p) ==
  /\ run[p].pc = "start"
  /\ run' = [run EXCEPT ![p].pc = "progress",
                        ![p].reviewed = Reviewed(run[p].job)]
  /\ UNCHANGED <<table, purged, req, faults>>

\* Mutant: the count starts one too low.
ReadReviewedOffByOne(p) ==
  /\ run[p].pc = "start"
  /\ LET done == Reviewed(run[p].job)
     IN  run' = [run EXCEPT ![p].pc = "progress", ![p].reviewed = done,
                            ![p].count = Cardinality(done) - 1]
  /\ UNCHANGED <<table, purged, req, faults>>

\* run_corpus_review_job reads what this job already produced ...
ReadReviewed(p) ==
  /\ run[p].pc = "start"
  /\ LET done == Reviewed(run[p].job)
     IN  run' = [run EXCEPT ![p].pc = "progress", ![p].reviewed = done,
                            ![p].count = Cardinality(done)]
  /\ UNCHANGED <<table, purged, req, faults>>

\* ... and publishes it as the starting progress.
InitialProgress(p) ==
  /\ run[p].pc = "progress"
  /\ LET r == run[p]
     IN  Write(p, Progressed(jobs[r.job], r.count, Len(Refs[r.job])),
               /\ Advance(p, r)
               /\ UNCHANGED <<proposals, skips, afterCancel>>)
  /\ UNCHANGED <<purged, req, faults>>

\* "if document_id in already_reviewed: continue".
PassOver(p) ==
  /\ run[p].pc = "document"
  /\ run[p].pos \in DOMAIN Refs[run[p].job]
  /\ Refs[run[p].job][run[p].pos] \in run[p].reviewed
  /\ Advance(p, run[p])
  /\ UNCHANGED <<table, purged, req, faults>>

\* Mutant: cancel_requested is never looked at.
CheckpointIgnoringCancel(p) ==
  /\ AtOpenRef(p)
  /\ LET j == run[p].job
         d == Refs[j][run[p].pos]
     IN  Write(p, Renewed(jobs[j]),
               /\ run' = [run EXCEPT
                    ![p].pc = IF Reviewable(d) THEN "provider" ELSE "skip"]
               /\ UNCHANGED <<proposals, skips, afterCancel>>)
  /\ UNCHANGED <<purged, req, faults>>

\* Before every document: honour a cancel request, or renew the lease and
\* look the document up.
Checkpoint(p) ==
  /\ AtOpenRef(p)
  /\ LET j == run[p].job
         d == Refs[j][run[p].pos]
     IN  \/ /\ jobs[j].cancelRequested
            /\ Write(p, Cancelled(jobs[j]), Stop(p)
                       /\ UNCHANGED <<proposals, skips, afterCancel>>)
         \/ /\ ~jobs[j].cancelRequested
            /\ Write(p, Renewed(jobs[j]),
                     /\ run' = [run EXCEPT
                          ![p].pc = IF Reviewable(d) THEN "provider" ELSE "skip",
                          ![p].reason = IF Reviewable(d) THEN "none"
                                        ELSE "unavailable"]
                     /\ UNCHANGED <<proposals, skips, afterCancel>>)
  /\ UNCHANGED <<purged, req, faults>>

\* The awaited chat_with_fallback returns, is refused for this document
\* (EgressDeniedError, ProviderError), or fails in an unexpected way.
ProviderAnswers(p) ==
  /\ run[p].pc = "provider"
  /\ \/ Goto(p, "record")
     \/ run' = [run EXCEPT ![p].pc = "skip", ![p].reason = "provider",
                           ![p].failed = @ + 1]
     \/ Goto(p, "fail")
  /\ UNCHANGED <<table, purged, req, faults>>

\* record_document_reviewed and the proposal, in one transaction.
RecordReviewed(p) ==
  /\ run[p].pc = "record"
  /\ LET r == run[p]
     IN  Write(p, Progressed(jobs[r.job], r.count + 1, Len(Refs[r.job])),
               /\ proposals' = proposals \cup
                    {[job |-> r.job, pos |-> r.pos, gen |-> r.gen]}
               /\ CountAfterCancel(r.job)
               /\ Advance(p, [r EXCEPT !.count = @ + 1])
               /\ UNCHANGED skips)
  /\ UNCHANGED <<purged, req, faults>>

\* record_document_skipped: a self-assignment behind the fence, and the event.
RecordSkipped(p) ==
  /\ run[p].pc = "skip"
  /\ LET r == run[p]
     IN  Write(p, jobs[r.job],
               /\ skips' = skips \cup
                    {[job |-> r.job, pos |-> r.pos, gen |-> r.gen]}
               /\ CountAfterCancel(r.job)
               /\ Advance(p, r)
               /\ UNCHANGED proposals)
  /\ UNCHANGED <<purged, req, faults>>

\* mark_failed(unexpected), from the handler or the worker's last resort.
MarkFailed(p) ==
  /\ run[p].pc = "fail"
  /\ Write(p, Failed(jobs[run[p].job], "unexpected"), Stop(p)
             /\ UNCHANGED <<proposals, skips, afterCancel>>)
  /\ UNCHANGED <<purged, req, faults>>

\* After the last document: failed when every review failed, else completed.
Finish(p) ==
  /\ run[p].pc = "document" /\ run[p].pos > Len(Refs[run[p].job])
  /\ LET r == run[p]
         row == jobs[r.job]
     IN  Write(p, IF r.count = 0 /\ r.failed > 0
                  THEN Failed(row, "transient_io") ELSE Completed(row),
               Stop(p) /\ UNCHANGED <<proposals, skips, afterCancel>>)
  /\ UNCHANGED <<purged, req, faults>>

-----------------------------------------------------------------------------
(* The owner                                                               *)

\* request_cancel loads the row and checks it; a second request is a no-op.
ReadForCancel(r, j) ==
  /\ req[r].kind = "idle"
  /\ Cancellable(jobs[j]) /\ ~jobs[j].cancelRequested
  /\ req' = [req EXCEPT ![r] = [IdleRequest EXCEPT !.kind = "cancel", !.job = j]]
  /\ UNCHANGED <<table, purged, run, faults>>

\* The flush writes cancel_requested alone, whatever the row has become.
CommitCancel(r) ==
  /\ req[r].kind = "cancel"
  /\ jobs' = [jobs EXCEPT ![req[r].job] = CancelRequested(@)]
  /\ req' = [req EXCEPT ![r] = IdleRequest]
  /\ UNCHANGED <<proposals, skips, afterCancel, purged, run, faults>>

ReadForRetry(r, j) ==
  /\ req[r].kind = "idle"
  /\ Retryable(jobs[j], MaxRetries)
  /\ req' = [req EXCEPT ![r] = [kind |-> "retry", job |-> j, read |-> jobs[j]]]
  /\ UNCHANGED <<table, purged, run, faults>>

\* The flush of retry_job; the trigger may refuse it, which rolls it back.
CommitRetry(r) ==
  /\ req[r].kind = "retry"
  /\ LET j == req[r].job
         new == Retried(jobs[j], req[r].read)
     IN  IF Accepts(jobs[j], new)
         THEN /\ jobs' = [jobs EXCEPT ![j] = new]
              /\ afterCancel' = [afterCancel EXCEPT
                                   ![j] = IF new.cancelRequested THEN @ ELSE 0]
         ELSE UNCHANGED <<jobs, afterCancel>>
  /\ req' = [req EXCEPT ![r] = IdleRequest]
  /\ UNCHANGED <<proposals, skips, purged, run, faults>>

\* purge_source, phase A: deleted_at is set and the chunks are deleted.
Purge(d) ==
  /\ d \notin purged
  /\ purged' = purged \cup {d}
  /\ UNCHANGED <<table, run, req, faults>>

-----------------------------------------------------------------------------
(* Faults                                                                  *)

HeldByLiveProcess(j) ==
  \E p \in Procs : run[p].pc # "idle" /\ run[p].job = j
                   /\ Holds(jobs[j], WorkerId[p], run[p].gen)

\* A process dies (and may come back under the same worker id).
Crash(p) ==
  /\ run[p].pc # "idle"
  /\ faults < MaxFaults
  /\ faults' = faults + 1
  /\ Stop(p)
  /\ UNCHANGED <<table, purged, req>>

\* now() passes lease_expires_at: for a holder too slow to renew, which is a
\* fault, or for a row no living process holds.
LapseLease(j) ==
  /\ jobs[j].status = "running" /\ jobs[j].lease = "live"
  /\ HeldByLiveProcess(j) => faults < MaxFaults
  /\ faults' = IF HeldByLiveProcess(j) THEN faults + 1 ELSE faults
  /\ jobs' = [jobs EXCEPT ![j].lease = "expired"]
  /\ UNCHANGED <<proposals, skips, afterCancel, purged, run, req>>

-----------------------------------------------------------------------------
Work(p) ==
  \/ Dispatch(p) \/ MarkUnavailable(p) \/ ReadReviewed(p) \/ InitialProgress(p)
  \/ PassOver(p) \/ Checkpoint(p) \/ ProviderAnswers(p) \/ RecordReviewed(p)
  \/ RecordSkipped(p) \/ MarkFailed(p) \/ Finish(p)

Request(r) ==
  \/ \E j \in Jobs : ReadForCancel(r, j) \/ ReadForRetry(r, j)
  \/ CommitCancel(r) \/ CommitRetry(r)

Next ==
  \/ \E p \in Procs : Work(p) \/ Crash(p) \/ \E j \in Jobs : Claim(p, j)
  \/ \E r \in Requests : Request(r)
  \/ \E d \in Purgeable : Purge(d)
  \/ \E j \in Jobs : LapseLease(j)

Spec == Init /\ [][Next]_vars

\* Worker processes keep polling and working, an awaited call returns, and
\* time passes; nothing is assumed of the owner or of faults.
Fairness ==
  /\ \A p \in Procs : WF_vars(Work(p) \/ \E j \in Jobs : Claim(p, j))
  /\ \A j \in Jobs : WF_vars(LapseLease(j) /\ ~HeldByLiveProcess(j))

FairSpec == Spec /\ Fairness
-----------------------------------------------------------------------------
(* What the runtime promises                                               *)

\* Rows, events, local states of run_corpus_review_job and open requests are
\* well formed; the counts a process carries are natural numbers.
TypeOK ==
  /\ jobs \in [Jobs -> JobRows(WorkerIds)]
  /\ proposals \subseteq Outcomes
  /\ skips \subseteq Outcomes
  /\ afterCancel \in [Jobs -> Nat]
  /\ purged \subseteq Documents
  /\ run \in [Procs -> Runs]
  /\ req \in [Requests -> [kind : {"idle", "cancel", "retry"}, job : Jobs,
                           read : JobRows(WorkerIds)]]
  /\ faults \in Nat

\* A review is recorded at most once per input reference of a job, whatever
\* crashes, lapsed leases, reclaims and retries happened in between: the
\* fence of record_document_reviewed and the already_reviewed scan of the
\* next run together make the restart exact.
OneProposalPerRef ==
  \A x, y \in proposals : x.job = y.job /\ x.pos = y.pos => x = y

\* The owner sees at most one proposal per document of a job.  The handler
\* reads already_reviewed once, before its loop, so this needs input_refs
\* without repetitions, which _validate_input_refs does not ask for.
OneProposalPerDocument ==
  \A x, y \in proposals :
     x.job = y.job /\ Refs[x.job][x.pos] = Refs[y.job][y.pos] => x = y

\* At most one process can write to a claimed row, although two processes may
\* run the same job at once and share a worker id (hostname) after a restart:
\* lease_generation tells them apart.
SingleWriter ==
  \A p, q \in Procs :
     /\ run[p].pc # "idle" /\ run[q].pc # "idle"
     /\ run[p].job = run[q].job /\ Fenced(p) /\ Fenced(q)
     => p = q

\* The "Reviewed N of M" a completed job shows is the number of proposals the
\* owner can open, although N is carried in process memory from a scan made
\* at the start of the last run and was reset by every retry.
CompletedCountIsTrue ==
  \A j \in Jobs : jobs[j].status = "completed" =>
    jobs[j].current = Cardinality({x \in proposals : x.job = j})

\* The positions of input_refs, which the contract speaks of.
RefsOf(j) == DOMAIN Refs[j]

Contract ==
  INSTANCE ReviewContract
  WITH status <- [j \in Jobs |-> jobs[j].status],
       found <- [j \in Jobs |-> {x.pos : x \in {y \in proposals : y.job = j}}],
       skipped <- [j \in Jobs |-> {x.pos : x \in {y \in skips :
                                     y.job = j /\ y.gen = jobs[j].gen}}]

\* The runtime, with its workers, leases and crashes, keeps the contract of
\* ReviewContract as long as the owner sends one request at a time: every
\* step of a worker, of time or of a request is a step of the contract.
KeepsContract == Contract!Spec

\* A job with a reviewed document is never reported as a total provider
\* failure, and a failed job never hides a full review: transient_io means
\* no proposal at all (so "retry" cannot discard work).
TransientMeansNothingReviewed ==
  \A j \in Jobs :
     jobs[j].status = "failed" /\ jobs[j].error = "transient_io"
       => Reviewed(j) = {}

\* "Checks cancel_requested before every document": after a cancel request at
\* most the outcome in flight is still recorded, across crashes and reclaims.
CancelIsPrompt == \A j \in Jobs : afterCancel[j] <= 1

\* Every job claim_next_mainai_job can hand out reaches a terminal state,
\* however the bounded crashes, lapsed leases, purges and retries fall.
JobsTerminate ==
  \A j \in Jobs : (jobs[j].status \in {"queued", "running"})
                    ~> (jobs[j].status \in TerminalStatuses)

\* What the owner reads of an ended job is true: the count of a completed one
\* and the "nothing was reviewed" of a transient failure.
ReportsAreTrue == CompletedCountIsTrue /\ TransientMeansNothingReviewed
=============================================================================
