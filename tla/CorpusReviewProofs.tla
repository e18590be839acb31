------------------------- MODULE CorpusReviewProofs -------------------------
(***************************************************************************)
(* For every number of jobs, documents, processes, requests and faults:    *)
(* corpus_review is type correct, its fence admits a single writer, a      *)
(* review is recorded at most once per input reference, a cancel is        *)
(* prompt, the reports of ended jobs are true, and the runtime implements  *)
(* ReviewContract.                                                         *)
(*                                                                         *)
(* At-most-once is not inductive.  It needs to know that a process whose   *)
(* generation is the row's current one has a snapshot of already_reviewed  *)
(* that covers every proposal but those its own loop has passed, and that  *)
(* is stable only because no two runs of a job share a generation.         *)
(* Promptness, reports and the contract rest on that invariant; the effect *)
(* of every step on them is stated once (WorkEffects, ClaimEffects,        *)
(* OwnerEffects).                                                          *)
(***************************************************************************)
EXTENDS CorpusReview, FiniteSetTheorems, TLAPS

Active(p) == run[p].pc # "idle"

\* No run is ahead of its row.
GenerationsBounded ==
  \A p \in Procs : Active(p) => run[p].gen <= jobs[run[p].job].gen

\* Every claim hands out a generation of its own.
DistinctGenerations ==
  \A p, q \in Procs :
    Active(p) /\ Active(q) /\ run[p].job = run[q].job
      /\ run[p].gen = run[q].gen => p = q

\* Proposal x of p's job is known to p: in its snapshot, or behind its loop.
Known(p, x) ==
  \/ x.pos \in DOMAIN Refs[run[p].job] /\ Refs[run[p].job][x.pos] \in run[p].reviewed
  \/ run[p].pc \in {"document", "provider", "record", "skip"} /\ x.pos < run[p].pos

SnapshotCovers ==
  \A p \in Procs :
    /\ run[p].pc \in {"progress", "document", "provider", "record", "skip"}
    /\ run[p].gen = jobs[run[p].job].gen
    => \A x \in proposals : x.job = run[p].job => Known(p, x)

\* Past the checkpoint the current reference is open.
OpenReference ==
  \A p \in Procs : run[p].pc \in {"provider", "record", "skip"} =>
    /\ run[p].pos \in DOMAIN Refs[run[p].job]
    /\ Refs[run[p].job][run[p].pos] \notin run[p].reviewed

ProposalsInRefs ==
  IsFiniteSet(proposals)
  /\ \A x \in proposals : x.pos \in DOMAIN Refs[x.job]

FenceInv == TypeOK /\ ProposalsInRefs /\ GenerationsBounded /\ DistinctGenerations
RestartInv == SnapshotCovers /\ OpenReference /\ OneProposalPerRef

-----------------------------------------------------------------------------
\* The statements of mainai_job_lease.py and service.py keep a row a row.
LEMMA RowTypes ==
  ASSUME NEW W, NEW row \in JobRows(W)
  PROVE  /\ \A w \in W : Claimed(row, w) \in JobRows(W)
         /\ Renewed(row) \in JobRows(W)
         /\ \A c, t \in Nat : Progressed(row, c, t) \in JobRows(W)
         /\ Completed(row) \in JobRows(W)
         /\ \A e \in ErrorCategories : Failed(row, e) \in JobRows(W)
         /\ Cancelled(row) \in JobRows(W)
         /\ CancelRequested(row) \in JobRows(W)
         /\ \A read \in JobRows(W) : Retried(row, read) \in JobRows(W)
<1> USE DEF JobRows, Statuses, Leases, ErrorCategories
<1>1. ASSUME NEW w \in W PROVE Claimed(row, w) \in JobRows(W)
  <2>1. row.gen + 1 \in Nat /\ w \in W \cup {"none"}
    OBVIOUS
  <2> QED
    BY <2>1 DEF Claimed
<1>2. Renewed(row) \in JobRows(W)
  BY DEF Renewed
<1>3. \A c, t \in Nat : Progressed(row, c, t) \in JobRows(W)
  BY DEF Progressed
<1>4. Completed(row) \in JobRows(W) /\ Cancelled(row) \in JobRows(W)
  BY DEF Completed, Cancelled
<1>5. \A e \in ErrorCategories : Failed(row, e) \in JobRows(W)
  BY DEF Failed
<1>6. CancelRequested(row) \in JobRows(W)
  BY DEF CancelRequested
<1>7. ASSUME NEW read \in JobRows(W) PROVE Retried(row, read) \in JobRows(W)
  <2>1. /\ read.retries + 1 \in Nat
        /\ (IF read.error = "none" THEN row.error ELSE "none") \in ErrorCategories
        /\ (row.cancelRequested /\ ~read.cancelRequested) \in BOOLEAN
        /\ (row.cancelAcknowledged /\ ~read.cancelAcknowledged) \in BOOLEAN
        /\ (IF read.current = 0 THEN row.current ELSE 0) \in Nat
        /\ (IF read.total = NULL THEN row.total ELSE NULL) \in Nat \cup {NULL}
    OBVIOUS
  <2> DEFINE n == read.retries + 1
             e == IF read.error = "none" THEN row.error ELSE "none"
             b == row.cancelRequested /\ ~read.cancelRequested
             a == row.cancelAcknowledged /\ ~read.cancelAcknowledged
             c == IF read.current = 0 THEN row.current ELSE 0
             t == IF read.total = NULL THEN row.total ELSE NULL
  <2>2. Retried(row, read) =
          [row EXCEPT !.status = "queued", !.retries = n, !.error = e,
                      !.cancelRequested = b, !.cancelAcknowledged = a,
                      !.current = c, !.total = t]
    BY Zenon DEF Retried
  <2>3. /\ n \in Nat /\ e \in ErrorCategories /\ b \in BOOLEAN
        /\ a \in BOOLEAN /\ c \in Nat /\ t \in Nat \cup {NULL}
    BY <2>1
  <2> HIDE DEF n, e, b, a, c, t
  <2> QED
    BY <2>2, <2>3
<1> QED
  BY <1>1, <1>2, <1>3, <1>4, <1>5, <1>6, <1>7

\* Only a claim changes the fencing token.
LEMMA RowGenerations ==
  ASSUME NEW W, NEW row \in JobRows(W)
  PROVE  /\ \A w : Claimed(row, w).gen = row.gen + 1
         /\ Renewed(row).gen = row.gen
         /\ \A c, t : Progressed(row, c, t).gen = row.gen
         /\ Completed(row).gen = row.gen
         /\ \A e : Failed(row, e).gen = row.gen
         /\ Cancelled(row).gen = row.gen
         /\ CancelRequested(row).gen = row.gen
         /\ \A read : Retried(row, read).gen = row.gen
<1>1. \A w : Claimed(row, w).gen = row.gen + 1
  BY DEF JobRows, Claimed
<1>2. Renewed(row).gen = row.gen /\ \A c, t : Progressed(row, c, t).gen = row.gen
  BY DEF JobRows, Renewed, Progressed
<1>3. /\ Completed(row).gen = row.gen /\ Cancelled(row).gen = row.gen
      /\ \A e : Failed(row, e).gen = row.gen
  BY DEF JobRows, Completed, Failed, Cancelled
<1>4. CancelRequested(row).gen = row.gen
  BY DEF JobRows, CancelRequested
<1>5. \A read : Retried(row, read).gen = row.gen
  BY DEF JobRows, Retried
<1> QED
  BY <1>1, <1>2, <1>3, <1>4, <1>5

LEMMA IdleTypes ==
  /\ IdleRun \in Runs /\ IdleRun.pc = "idle"
  /\ NewJobRow \in JobRows(WorkerIds)
  /\ IdleRequest \in [kind : {"idle", "cancel", "retry"}, job : Jobs,
                      read : JobRows(WorkerIds)]
<1>1. (CHOOSE j \in Jobs : TRUE) \in Jobs
  BY ConstantsOK
<1>2. NewJobRow \in JobRows(WorkerIds)
  BY DEF NewJobRow, JobRows, Statuses, Leases, ErrorCategories, NULL
<1> QED
  BY <1>1, <1>2 DEF IdleRun, Runs, PCs, IdleRequest

-----------------------------------------------------------------------------
(* Type correctness, action by action                                      *)

RunTypes == run' \in [Procs -> Runs]
TableTypes ==
  /\ jobs' \in [Jobs -> JobRows(WorkerIds)]
  /\ proposals' \subseteq Outcomes
  /\ skips' \subseteq Outcomes
  /\ afterCancel' \in [Jobs -> Nat]

\* The updates of run[p] that the handler makes stay inside Runs.
LEMMA RunUpdates ==
  ASSUME TypeOK, NEW p \in Procs
  PROVE  /\ Stop(p) => RunTypes
         /\ \A pc \in PCs : Goto(p, pc) => RunTypes
         /\ \A r \in Runs : Advance(p, r) => RunTypes
<1> USE DEF TypeOK, RunTypes
<1>1. Stop(p) => RunTypes
  BY IdleTypes DEF Stop
<1>2. ASSUME NEW pc \in PCs, Goto(p, pc) PROVE RunTypes
  BY <1>2 DEF Goto, Runs
<1>3. ASSUME NEW r \in Runs, Advance(p, r) PROVE RunTypes
  <2>1. r.pos + 1 \in Nat
    BY DEF Runs
  <2>2. [r EXCEPT !.pc = "document", !.pos = r.pos + 1, !.reason = "none"] \in Runs
    BY <2>1 DEF Runs, PCs
  <2> QED
    BY <1>3, <2>2 DEF Advance
<1> QED
  BY <1>1, <1>2, <1>3

\* History of outcomes recorded after a cancel request.
LEMMA CountType ==
  ASSUME TypeOK, NEW j \in Jobs, CountAfterCancel(j)
  PROVE  afterCancel' \in [Jobs -> Nat]
  BY DEF TypeOK, CountAfterCancel

LEMMA ClaimType ==
  ASSUME TypeOK, NEW p \in Procs, NEW j \in Jobs, Claim(p, j)
  PROVE  TypeOK'
<1>1. WorkerId[p] \in WorkerIds
  BY DEF WorkerIds
<1>2. Claimed(jobs[j], WorkerId[p]) \in JobRows(WorkerIds)
  BY <1>1, RowTypes DEF TypeOK
<1>3. jobs[j].gen + 1 \in Nat
  BY DEF TypeOK, JobRows
<1>4. [IdleRun EXCEPT !.pc = "dispatch", !.job = j, !.gen = jobs[j].gen + 1]
        \in Runs
  BY <1>3, IdleTypes DEF Runs, PCs
<1> QED
  BY <1>2, <1>4 DEF Claim, TypeOK

\* A reference position is a natural number, and so is the number of them.
LEMMA RefTypes ==
  ASSUME NEW j \in Jobs
  PROVE  Len(Refs[j]) \in Nat /\ DOMAIN Refs[j] = 1 .. Len(Refs[j])
  BY ConstantsOK

LEMMA ReviewedType ==
  ASSUME TypeOK, ProposalsInRefs, NEW j \in Jobs
  PROVE  Reviewed(j) \subseteq Documents /\ Cardinality(Reviewed(j)) \in Nat
<1> DEFINE own == {y \in proposals : y.job = j}
<1>1. IsFiniteSet(own)
  BY FS_Subset DEF ProposalsInRefs
<1>2. Reviewed(j) = {Refs[j][x.pos] : x \in own}
  BY DEF Reviewed
<1>3. IsFiniteSet(Reviewed(j))
  <2> DEFINE f == [x \in own |-> Refs[j][x.pos]]
  <2>1. f \in Surjection(own, Reviewed(j))
    BY <1>2 DEF Surjection
  <2> QED
    BY <1>1, <2>1, FS_Surjection
<1>4. \A x \in own : Refs[j][x.pos] \in Documents
  BY ConstantsOK DEF ProposalsInRefs
<1> QED
  BY <1>2, <1>3, <1>4, FS_CardinalityType

LEMMA WorkType ==
  ASSUME TypeOK, ProposalsInRefs, NEW p \in Procs, Work(p)
  PROVE  TypeOK'
<1> DEFINE r == run[p]
           j == run[p].job
           row == jobs[run[p].job]
<1>1. r \in Runs /\ j \in Jobs /\ row \in JobRows(WorkerIds)
  BY DEF TypeOK, Runs
<1>2. /\ r.count \in Nat /\ r.count + 1 \in Nat /\ r.pos \in Nat /\ r.gen \in Nat
      /\ [job |-> r.job, pos |-> r.pos, gen |-> r.gen] \in Outcomes
  BY <1>1 DEF Runs, Outcomes
<1>3. UNCHANGED table => TableTypes
  BY DEF table, TypeOK, TableTypes
<1>4. ASSUME NEW new \in JobRows(WorkerIds), jobs' = [jobs EXCEPT ![j] = new]
      PROVE  jobs' \in [Jobs -> JobRows(WorkerIds)]
  BY <1>1, <1>4 DEF TypeOK
<1>5. UNCHANGED <<proposals, skips, afterCancel>>
        => /\ proposals' \subseteq Outcomes /\ skips' \subseteq Outcomes
           /\ afterCancel' \in [Jobs -> Nat]
  BY DEF TypeOK
<1>6. TableTypes /\ RunTypes /\ UNCHANGED <<purged, req, faults>> => TypeOK'
  BY DEF TypeOK, TableTypes, RunTypes
<1> HIDE DEF r, j, row
<1>8. CASE Dispatch(p)
  <2>1. RunTypes
    BY <1>8, RunUpdates DEF Dispatch, Write, PCs
  <2>2. TableTypes
    BY <1>8, <1>1, <1>3, <1>4, <1>5 DEF Dispatch, Write, TableTypes, j, row
  <2> QED
    BY <1>8, <1>6, <2>1, <2>2 DEF Dispatch
<1>9. CASE MarkUnavailable(p)
  <2>1. RunTypes
    BY <1>9, RunUpdates DEF MarkUnavailable, Write, PCs
  <2>2. Failed(row, "capability_unavailable") \in JobRows(WorkerIds)
    BY <1>1, RowTypes DEF ErrorCategories
  <2>3. TableTypes
    BY <1>9, <2>2, <1>3, <1>4, <1>5 DEF MarkUnavailable, Write, TableTypes, j, row
  <2> QED
    BY <1>9, <1>6, <2>1, <2>3 DEF MarkUnavailable
<1>10. CASE ReadReviewed(p)
  <2>1. Reviewed(j) \subseteq Documents /\ Cardinality(Reviewed(j)) \in Nat
    BY <1>1, ReviewedType
  <2>2. [r EXCEPT !.pc = "progress", !.reviewed = Reviewed(j),
                  !.count = Cardinality(Reviewed(j))] \in Runs
    BY <1>1, <2>1 DEF Runs, PCs
  <2>3. RunTypes
    BY <1>10, <2>2 DEF ReadReviewed, RunTypes, TypeOK, r, j
  <2> QED
    BY <1>10, <1>3, <1>6, <2>3 DEF ReadReviewed
<1>11. CASE InitialProgress(p)
  <2>1. RunTypes
    BY <1>11, <1>1, RunUpdates DEF InitialProgress, Write, PCs, r
  <2>2. Progressed(row, r.count, Len(Refs[j])) \in JobRows(WorkerIds)
    BY <1>1, <1>2, RowTypes, RefTypes
  <2>3. TableTypes
    BY <1>11, <2>2, <1>3, <1>4, <1>5 DEF InitialProgress, Write, TableTypes, r, j, row
  <2> QED
    BY <1>11, <1>6, <2>1, <2>3 DEF InitialProgress
<1>12. CASE PassOver(p)
  BY <1>12, <1>1, <1>3, <1>6, RunUpdates DEF PassOver, r
<1>13. CASE Checkpoint(p)
  <2>1. r.pos \in DOMAIN Refs[j] /\ Refs[j][r.pos] \in Documents
    BY <1>13, <1>1, ConstantsOK DEF Checkpoint, AtOpenRef, r, j
  <2>3. \A d : [r EXCEPT !.pc = IF Reviewable(d) THEN "provider" ELSE "skip",
                    !.reason = IF Reviewable(d) THEN "none" ELSE "unavailable"]
                 \in Runs
    BY <1>1 DEF Runs, PCs
  <2>4. RunTypes
    BY <1>13, <2>3, RunUpdates DEF Checkpoint, Write, PCs, RunTypes, TypeOK, r, j
  <2>5. Cancelled(row) \in JobRows(WorkerIds) /\ Renewed(row) \in JobRows(WorkerIds)
    BY <1>1, RowTypes
  <2>6. TableTypes
    BY <1>13, <2>5, <1>3, <1>4, <1>5 DEF Checkpoint, Write, TableTypes, j, row
  <2> QED
    BY <1>13, <1>6, <2>4, <2>6 DEF Checkpoint
<1>14. CASE ProviderAnswers(p)
  <2>0. r.failed + 1 \in Nat
    BY <1>1 DEF Runs
  <2>1. [r EXCEPT !.pc = "skip", !.reason = "provider", !.failed = r.failed + 1]
          \in Runs
    BY <1>1, <2>0 DEF Runs, PCs
  <2>2. RunTypes
    BY <1>14, <2>1, RunUpdates DEF ProviderAnswers, PCs, RunTypes, TypeOK, r
  <2> QED
    BY <1>14, <1>3, <1>6, <2>2 DEF ProviderAnswers
<1>15. CASE RecordReviewed(p)
  <2>1. [r EXCEPT !.count = r.count + 1] \in Runs
    BY <1>1, <1>2 DEF Runs
  <2>2. RunTypes
    BY <1>15, <2>1, RunUpdates DEF RecordReviewed, Write, PCs, r
  <2>3. Progressed(row, r.count + 1, Len(Refs[j])) \in JobRows(WorkerIds)
    BY <1>1, <1>2, RowTypes, RefTypes
  <2>4. TableTypes
    BY <1>15, <2>3, <1>1, <1>2, <1>3, <1>4, CountType
       DEF RecordReviewed, Write, TableTypes, TypeOK, r, j, row
  <2> QED
    BY <1>15, <1>6, <2>2, <2>4 DEF RecordReviewed
<1>16. CASE RecordSkipped(p)
  <2>1. RunTypes
    BY <1>16, <1>1, RunUpdates DEF RecordSkipped, Write, PCs, r
  <2>2. TableTypes
    BY <1>16, <1>1, <1>2, <1>3, <1>4, CountType
       DEF RecordSkipped, Write, TableTypes, TypeOK, r, j, row
  <2> QED
    BY <1>16, <1>6, <2>1, <2>2 DEF RecordSkipped
<1>17. CASE MarkFailed(p)
  <2>1. RunTypes
    BY <1>17, RunUpdates DEF MarkFailed, Write, PCs
  <2>2. Failed(row, "unexpected") \in JobRows(WorkerIds)
    BY <1>1, RowTypes DEF ErrorCategories
  <2>3. TableTypes
    BY <1>17, <2>2, <1>3, <1>4, <1>5 DEF MarkFailed, Write, TableTypes, j, row
  <2> QED
    BY <1>17, <1>6, <2>1, <2>3 DEF MarkFailed
<1>18. CASE Finish(p)
  <2>1. RunTypes
    BY <1>18, RunUpdates DEF Finish, Write, PCs
  <2>2. Failed(row, "transient_io") \in JobRows(WorkerIds)
        /\ Completed(row) \in JobRows(WorkerIds)
    BY <1>1, RowTypes DEF ErrorCategories
  <2>3. TableTypes
    BY <1>18, <2>2, <1>3, <1>4, <1>5 DEF Finish, Write, TableTypes, r, j, row
  <2> QED
    BY <1>18, <1>6, <2>1, <2>3 DEF Finish
<1> QED
  BY <1>8, <1>9, <1>10, <1>11, <1>12, <1>13, <1>14, <1>15, <1>16, <1>17, <1>18
     DEF Work

LEMMA OwnerType ==
  ASSUME TypeOK, Next, ~(\E p \in Procs : Work(p) \/ \E j \in Jobs : Claim(p, j))
  PROVE  TypeOK'
<1>1. ASSUME NEW p \in Procs, Crash(p) PROVE TypeOK'
  BY <1>1, IdleTypes DEF Crash, Stop, TypeOK, table
<1>2. ASSUME NEW r \in Requests, NEW j \in Jobs, ReadForCancel(r, j) PROVE TypeOK'
  BY <1>2, IdleTypes DEF ReadForCancel, TypeOK, table
<1>3. ASSUME NEW r \in Requests, NEW j \in Jobs, ReadForRetry(r, j) PROVE TypeOK'
  BY <1>3 DEF ReadForRetry, TypeOK, table
<1>4. ASSUME NEW r \in Requests, CommitCancel(r) PROVE TypeOK'
  <2>1. req[r].job \in Jobs
    BY DEF TypeOK
  <2>2. CancelRequested(jobs[req[r].job]) \in JobRows(WorkerIds)
    BY <2>1, RowTypes DEF TypeOK
  <2> QED
    BY <1>4, <2>1, <2>2, IdleTypes DEF CommitCancel, TypeOK
<1>5. ASSUME NEW r \in Requests, CommitRetry(r) PROVE TypeOK'
  <2> DEFINE j == req[r].job
             new == Retried(jobs[j], req[r].read)
  <2>1. j \in Jobs /\ req[r].read \in JobRows(WorkerIds)
    BY DEF TypeOK
  <2>2. new \in JobRows(WorkerIds)
    BY <2>1, RowTypes DEF TypeOK
  <2> HIDE DEF new
  <2>3. jobs' \in [Jobs -> JobRows(WorkerIds)]
    BY <1>5, <2>1, <2>2 DEF CommitRetry, TypeOK, new
  <2>4. afterCancel' \in [Jobs -> Nat]
    BY <1>5, <2>1 DEF CommitRetry, TypeOK, new
  <2> QED
    BY <1>5, <2>3, <2>4, IdleTypes DEF CommitRetry, TypeOK
<1>6. ASSUME NEW d \in Purgeable, Purge(d) PROVE TypeOK'
  BY <1>6, ConstantsOK DEF Purge, TypeOK, table
<1>7. ASSUME NEW j \in Jobs, LapseLease(j) PROVE TypeOK'
  <2>0. jobs[j] \in JobRows(WorkerIds)
    BY DEF TypeOK
  <2>1. [jobs[j] EXCEPT !.lease = "expired"] \in JobRows(WorkerIds)
    BY <2>0 DEF JobRows, Leases
  <2>2. jobs' \in [Jobs -> JobRows(WorkerIds)]
    BY <1>7, <2>1 DEF LapseLease, TypeOK
  <2>3. faults' \in Nat
    BY <1>7 DEF LapseLease, TypeOK
  <2> QED
    BY <1>7, <2>2, <2>3 DEF LapseLease, TypeOK
<1> QED
  BY <1>1, <1>2, <1>3, <1>4, <1>5, <1>6, <1>7 DEF Next, Request

-----------------------------------------------------------------------------
(* What a step does to the facts the fence rests on                        *)

\* A worker step touches its own run and its own row, never the generation;
\* its run stops, or stays on the same claim.
LEMMA WorkFrame ==
  ASSUME TypeOK, NEW p \in Procs, Work(p)
  PROVE  /\ Active(p)
         /\ \A q \in Procs : q # p => run'[q] = run[q]
         /\ \A k \in Jobs : jobs'[k].gen = jobs[k].gen
         /\ \/ run'[p].pc = "idle"
            \/ run'[p].job = run[p].job /\ run'[p].gen = run[p].gen
<1>1. Active(p)
  BY DEF Work, Active, Dispatch, MarkUnavailable, ReadReviewed, InitialProgress,
         PassOver, Checkpoint, AtOpenRef, ProviderAnswers, RecordReviewed,
         RecordSkipped, MarkFailed, Finish
<1>2. \A q \in Procs : q # p => run'[q] = run[q]
  BY DEF Work, Dispatch, MarkUnavailable, ReadReviewed, InitialProgress,
         PassOver, Checkpoint, ProviderAnswers, RecordReviewed, RecordSkipped,
         MarkFailed, Finish, Write, Stop, Goto, Advance, TypeOK
<1>3. run[p] \in Runs /\ run[p].job \in Jobs /\ jobs[run[p].job] \in JobRows(WorkerIds)
  BY DEF TypeOK, Runs
<1>4. \A k \in Jobs : jobs'[k].gen = jobs[k].gen
  <2>1. ASSUME NEW new, new.gen = jobs[run[p].job].gen,
               jobs' = [jobs EXCEPT ![run[p].job] = new]
        PROVE  \A k \in Jobs : jobs'[k].gen = jobs[k].gen
    BY <2>1, <1>3 DEF TypeOK
  <2>2. CASE Dispatch(p)
    BY <2>1, <2>2 DEF Dispatch, Write, table
  <2>3. CASE MarkUnavailable(p)
    BY <2>1, <2>3, <1>3, RowGenerations DEF MarkUnavailable, Write, table
  <2>4. CASE ReadReviewed(p) \/ PassOver(p) \/ ProviderAnswers(p)
    BY <2>4 DEF ReadReviewed, PassOver, ProviderAnswers, table
  <2>5. CASE InitialProgress(p)
    BY <2>1, <2>5, <1>3, RowGenerations DEF InitialProgress, Write, table
  <2>6. CASE Checkpoint(p)
    BY <2>1, <2>6, <1>3, RowGenerations DEF Checkpoint, Write, table
  <2>7. CASE RecordReviewed(p)
    BY <2>1, <2>7, <1>3, RowGenerations DEF RecordReviewed, Write, table
  <2>8. CASE RecordSkipped(p)
    BY <2>1, <2>8 DEF RecordSkipped, Write, table
  <2>9. CASE MarkFailed(p)
    BY <2>1, <2>9, <1>3, RowGenerations DEF MarkFailed, Write, table
  <2>10. CASE Finish(p)
    BY <2>1, <2>10, <1>3, RowGenerations DEF Finish, Write, table
  <2> QED
    BY <2>2, <2>3, <2>4, <2>5, <2>6, <2>7, <2>8, <2>9, <2>10 DEF Work
<1>5. \/ run'[p].pc = "idle"
      \/ run'[p].job = run[p].job /\ run'[p].gen = run[p].gen
  <2>1. Stop(p) => run'[p].pc = "idle"
    BY IdleTypes DEF Stop, TypeOK
  <2>2. \A pc : Goto(p, pc) => run'[p].job = run[p].job /\ run'[p].gen = run[p].gen
    BY <1>3 DEF Goto, TypeOK, Runs
  <2>3. \A r \in Runs : Advance(p, r) => run'[p].job = r.job /\ run'[p].gen = r.gen
    BY DEF Advance, TypeOK, Runs
  <2>4. ASSUME NEW n PROVE [run[p] EXCEPT !.count = n].job = run[p].job
                           /\ [run[p] EXCEPT !.count = n].gen = run[p].gen
    BY <1>3 DEF Runs
  <2>5. [run[p] EXCEPT !.count = @ + 1] \in Runs
    BY <1>3 DEF Runs
  <2>6. CASE Dispatch(p)
    BY <2>1, <2>2, <2>6 DEF Dispatch, Write
  <2>7. CASE MarkUnavailable(p) \/ MarkFailed(p) \/ Finish(p)
    BY <2>1, <2>2, <2>7 DEF MarkUnavailable, MarkFailed, Finish, Write
  <2>8. CASE ReadReviewed(p) \/ ProviderAnswers(p)
    BY <2>2, <2>8, <1>3 DEF ReadReviewed, ProviderAnswers, TypeOK, Runs
  <2>9. CASE InitialProgress(p) \/ PassOver(p) \/ RecordSkipped(p)
    BY <2>1, <2>2, <2>3, <2>9, <1>3 DEF InitialProgress, PassOver, RecordSkipped, Write
  <2>10. CASE Checkpoint(p)
    BY <2>1, <2>2, <2>10, <1>3 DEF Checkpoint, Write, TypeOK, Runs
  <2>11. CASE RecordReviewed(p)
    BY <2>1, <2>2, <2>3, <2>4, <2>5, <2>11, <1>3 DEF RecordReviewed, Write
  <2> QED
    BY <2>6, <2>7, <2>8, <2>9, <2>10, <2>11 DEF Work
<1> QED
  BY <1>1, <1>2, <1>4, <1>5

\* Owner requests, purges, crashes and lapses neither start a run, nor add a
\* proposal, nor touch a generation.
LEMMA OwnerFrame ==
  ASSUME TypeOK, Next, ~(\E p \in Procs : Work(p) \/ \E j \in Jobs : Claim(p, j))
  PROVE  /\ proposals' = proposals
         /\ \A k \in Jobs : jobs'[k].gen = jobs[k].gen
         /\ \A q \in Procs : run'[q] = run[q] \/ run'[q].pc = "idle"
<1>1. ASSUME NEW p \in Procs, Crash(p)
      PROVE  /\ proposals' = proposals /\ jobs' = jobs
             /\ \A q \in Procs : run'[q] = run[q] \/ run'[q].pc = "idle"
  BY <1>1, IdleTypes DEF Crash, Stop, TypeOK, table
<1>2. ASSUME NEW r \in Requests, Request(r)
      PROVE  /\ proposals' = proposals /\ run' = run
             /\ \A k \in Jobs : jobs'[k].gen = jobs[k].gen
  <2>1. req[r].job \in Jobs /\ jobs[req[r].job] \in JobRows(WorkerIds)
    BY DEF TypeOK
  <2>2. CASE \E j \in Jobs : ReadForCancel(r, j) \/ ReadForRetry(r, j)
    BY <2>2 DEF ReadForCancel, ReadForRetry, table
  <2>3. CASE CommitCancel(r)
    BY <2>1, <2>3, RowGenerations DEF CommitCancel, TypeOK
  <2>4. CASE CommitRetry(r)
    <3> DEFINE new == Retried(jobs[req[r].job], req[r].read)
    <3>1. new.gen = jobs[req[r].job].gen
      BY <2>1, RowGenerations
    <3>2. \/ jobs' = jobs
          \/ jobs' = [jobs EXCEPT ![req[r].job] = new]
      BY <2>4 DEF CommitRetry
    <3> HIDE DEF new
    <3> QED
      BY <2>1, <2>4, <3>1, <3>2 DEF CommitRetry, TypeOK
  <2> QED
    BY <1>2, <2>2, <2>3, <2>4 DEF Request
<1>3. ASSUME NEW d \in Purgeable, Purge(d)
      PROVE  proposals' = proposals /\ run' = run /\ jobs' = jobs
  BY <1>3 DEF Purge, table
<1>4. ASSUME NEW j \in Jobs, LapseLease(j)
      PROVE  /\ proposals' = proposals /\ run' = run
             /\ \A k \in Jobs : jobs'[k].gen = jobs[k].gen
  BY <1>4 DEF LapseLease, TypeOK, JobRows
<1> QED
  BY <1>1, <1>2, <1>3, <1>4 DEF Next

-----------------------------------------------------------------------------
(* The fence: generations are bounded by the row and never shared          *)

LEMMA FenceStep ==
  ASSUME TypeOK, TypeOK', GenerationsBounded, DistinctGenerations, [Next]_vars
  PROVE  GenerationsBounded' /\ DistinctGenerations'
<1>1. CASE UNCHANGED vars
  BY <1>1 DEF vars, GenerationsBounded, DistinctGenerations, Active
<1>2. ASSUME NEW p \in Procs, Work(p)
      PROVE  GenerationsBounded' /\ DistinctGenerations'
  <2>1. /\ Active(p)
        /\ \A q \in Procs : q # p => run'[q] = run[q]
        /\ \A k \in Jobs : jobs'[k].gen = jobs[k].gen
        /\ \/ run'[p].pc = "idle"
           \/ run'[p].job = run[p].job /\ run'[p].gen = run[p].gen
    BY <1>2, WorkFrame
  <2>2. \A q \in Procs : run[q].job \in Jobs
    BY DEF TypeOK, Runs
  <2>3. GenerationsBounded'
    BY <2>1, <2>2 DEF GenerationsBounded, Active
  <2>4. DistinctGenerations'
    BY <2>1, <2>2 DEF DistinctGenerations, Active
  <2> QED
    BY <2>3, <2>4
<1>3. ASSUME NEW p \in Procs, NEW j \in Jobs, Claim(p, j)
      PROVE  GenerationsBounded' /\ DistinctGenerations'
  <2>1. /\ run'[p].pc = "dispatch" /\ run'[p].job = j
        /\ run'[p].gen = jobs[j].gen + 1
        /\ \A q \in Procs : q # p => run'[q] = run[q]
    BY <1>3, IdleTypes DEF Claim, TypeOK, Runs
  <2>2. /\ jobs[j].gen \in Nat /\ jobs'[j].gen = jobs[j].gen + 1
        /\ \A k \in Jobs : k # j => jobs'[k] = jobs[k]
    <3>1. jobs[j] \in JobRows(WorkerIds)
      BY DEF TypeOK
    <3>2. jobs[j].gen \in Nat
      BY <3>1 DEF JobRows
    <3> QED
      BY <1>3, <3>1, <3>2, RowGenerations DEF Claim, TypeOK
  <2>3. \A q \in Procs : run[q].job \in Jobs /\ run[q].gen \in Nat
    BY DEF TypeOK, Runs
  <2>4. GenerationsBounded'
    BY <2>1, <2>2, <2>3 DEF GenerationsBounded, Active
  <2>5. DistinctGenerations'
    BY <2>1, <2>2, <2>3 DEF GenerationsBounded, DistinctGenerations, Active
  <2> QED
    BY <2>4, <2>5
<1>4. ASSUME Next, ~(\E p \in Procs : Work(p) \/ \E j \in Jobs : Claim(p, j))
      PROVE  GenerationsBounded' /\ DistinctGenerations'
  BY <1>4, OwnerFrame DEF GenerationsBounded, DistinctGenerations, Active, TypeOK, Runs
<1> QED
  BY <1>1, <1>2, <1>3, <1>4

-----------------------------------------------------------------------------
(* The restart argument: snapshots and open references                     *)

\* The one worker step that adds a proposal, and what it adds.
LEMMA ProposalsGrow ==
  ASSUME TypeOK, NEW p \in Procs, Work(p), proposals' # proposals
  PROVE  /\ run[p].pc = "record" /\ Fenced(p)
         /\ proposals' = proposals \cup
              {[job |-> run[p].job, pos |-> run[p].pos, gen |-> run[p].gen]}
         /\ run'[p].pc = "document" /\ run'[p].pos = run[p].pos + 1
         /\ run'[p].reviewed = run[p].reviewed
         /\ run'[p].job = run[p].job
<1>1. RecordReviewed(p)
  BY DEF Work, Dispatch, MarkUnavailable, ReadReviewed, InitialProgress,
         PassOver, Checkpoint, ProviderAnswers, RecordSkipped, MarkFailed, Finish,
         Write, table
<1>2. /\ run[p].pc = "record" /\ Fenced(p)
      /\ proposals' = proposals \cup
           {[job |-> run[p].job, pos |-> run[p].pos, gen |-> run[p].gen]}
      /\ Advance(p, [run[p] EXCEPT !.count = @ + 1])
  BY <1>1 DEF RecordReviewed, Write, table
<1> QED
  BY <1>2 DEF Advance, TypeOK, Runs

\* How a worker step that adds no proposal moves its loop.
LEMMA LoopMoves ==
  ASSUME TypeOK, NEW p \in Procs, Work(p), proposals' = proposals,
         run'[p].pc \in {"progress", "document", "provider", "record", "skip"}
  PROVE  \/ /\ run[p].pc = "start" /\ run'[p].pc = "progress"
            /\ run'[p].reviewed = Reviewed(run[p].job)
         \/ /\ run[p].pc = "progress" /\ run'[p].pc = "document"
            /\ run'[p].reviewed = run[p].reviewed
         \/ /\ run[p].pc \in {"document", "skip", "record"}
            /\ run'[p].pc = "document" /\ run'[p].pos = run[p].pos + 1
            /\ run'[p].reviewed = run[p].reviewed
         \/ /\ run[p].pc = "document" /\ run'[p].pc \in {"provider", "skip"}
            /\ run'[p].pos = run[p].pos /\ run'[p].reviewed = run[p].reviewed
            /\ AtOpenRef(p)
         \/ /\ run[p].pc = "provider" /\ run'[p].pc \in {"record", "skip"}
            /\ run'[p].pos = run[p].pos /\ run'[p].reviewed = run[p].reviewed
<1>0. run[p] \in Runs
  BY DEF TypeOK
<1>1. Stop(p) => run'[p].pc = "idle"
  BY IdleTypes DEF Stop, TypeOK
<1>2. \A pc : Goto(p, pc) => /\ run'[p].pc = pc /\ run'[p].pos = run[p].pos
                              /\ run'[p].reviewed = run[p].reviewed
  BY <1>0 DEF Goto, TypeOK, Runs
<1>3. \A r \in Runs : Advance(p, r) => /\ run'[p].pc = "document"
                                       /\ run'[p].pos = r.pos + 1
                                       /\ run'[p].reviewed = r.reviewed
  BY DEF Advance, TypeOK, Runs
<1>4. CASE Dispatch(p) \/ MarkUnavailable(p) \/ MarkFailed(p) \/ Finish(p)
  <2>1. CASE Dispatch(p)
    <3>1. \/ Stop(p) \/ Goto(p, "fail") \/ Goto(p, "start") \/ Goto(p, "unavailable")
      BY <2>1 DEF Dispatch, Write
    <3> QED
      BY <1>1, <1>2, <3>1
  <2>2. CASE MarkUnavailable(p) \/ MarkFailed(p) \/ Finish(p)
    <3>1. Stop(p) \/ Goto(p, "fail")
      BY <2>2 DEF MarkUnavailable, MarkFailed, Finish, Write
    <3> QED
      BY <1>1, <1>2, <3>1
  <2> QED
    BY <1>4, <2>1, <2>2
<1>5. CASE ReadReviewed(p)
  BY <1>0, <1>5 DEF ReadReviewed, TypeOK, Runs
<1>6. CASE InitialProgress(p)
  <2>1. run[p].pc = "progress" /\ (Stop(p) \/ Goto(p, "fail") \/ Advance(p, run[p]))
    BY <1>6 DEF InitialProgress, Write
  <2> QED
    BY <1>0, <1>1, <1>2, <1>3, <2>1
<1>7. CASE PassOver(p)
  BY <1>0, <1>3, <1>7 DEF PassOver
<1>8. CASE Checkpoint(p)
  <2>1. run[p].pc = "document" /\ AtOpenRef(p)
    BY <1>8 DEF Checkpoint, AtOpenRef
  <2>2. /\ run'[p].pc \in {"provider", "skip"}
        /\ run'[p].pos = run[p].pos /\ run'[p].reviewed = run[p].reviewed
    <3> DEFINE d == Refs[run[p].job][run[p].pos]
               pc == IF Reviewable(d) THEN "provider" ELSE "skip"
               reason == IF Reviewable(d) THEN "none" ELSE "unavailable"
    <3>1. \/ Stop(p) \/ Goto(p, "fail")
          \/ run' = [run EXCEPT ![p].pc = pc, ![p].reason = reason]
      BY <1>8 DEF Checkpoint, Write
    <3>2. pc \in {"provider", "skip"}
      OBVIOUS
    <3> HIDE DEF pc, reason
    <3>3. CASE run' = [run EXCEPT ![p].pc = pc, ![p].reason = reason]
      BY <1>0, <3>2, <3>3 DEF TypeOK, Runs
    <3> QED
      BY <1>1, <1>2, <3>1, <3>3
  <2> QED
    BY <2>1, <2>2
<1>9. CASE ProviderAnswers(p)
  <2>1. run[p].pc = "provider"
        /\ \/ Goto(p, "record") \/ Goto(p, "fail")
           \/ run' = [run EXCEPT ![p].pc = "skip", ![p].reason = "provider",
                                 ![p].failed = @ + 1]
    BY <1>9 DEF ProviderAnswers
  <2>2. CASE Goto(p, "record") \/ Goto(p, "fail")
    BY <1>0, <1>2, <2>1, <2>2 DEF Runs
  <2>3. CASE run' = [run EXCEPT ![p].pc = "skip", ![p].reason = "provider",
                                ![p].failed = @ + 1]
    BY <1>0, <2>1, <2>3 DEF TypeOK, Runs
  <2> QED
    BY <2>1, <2>2, <2>3
<1>10. CASE RecordReviewed(p)
  <2>1. [run[p] EXCEPT !.count = @ + 1] \in Runs
    BY <1>0 DEF Runs
  <2> QED
    BY <1>0, <1>1, <1>2, <1>3, <1>10, <2>1 DEF RecordReviewed, Write, Runs
<1>11. CASE RecordSkipped(p)
  <2>1. run[p].pc = "skip" /\ (Stop(p) \/ Goto(p, "fail") \/ Advance(p, run[p]))
    BY <1>11 DEF RecordSkipped, Write
  <2> QED
    BY <1>0, <1>1, <1>2, <1>3, <2>1
<1> QED
  BY <1>4, <1>5, <1>6, <1>7, <1>8, <1>9, <1>10, <1>11 DEF Work

LEMMA RestartStep ==
  ASSUME FenceInv, RestartInv, TypeOK', [Next]_vars
  PROVE  RestartInv' /\ ProposalsInRefs'
<1> USE DEF FenceInv, RestartInv
<1>0. /\ \A q \in Procs : /\ run[q].job \in Jobs /\ run[q].gen \in Nat
                          /\ run[q].pos \in Nat
      /\ \A k \in Jobs : jobs[k].gen \in Nat
      /\ \A x \in proposals : x.job \in Jobs /\ x.pos \in Nat /\ x.gen \in Nat
  BY DEF TypeOK, Runs, JobRows, Outcomes
<1>1. CASE UNCHANGED vars
  BY <1>1 DEF vars, SnapshotCovers, OpenReference, OneProposalPerRef, Known,
              ProposalsInRefs
<1>2. ASSUME NEW p \in Procs, Work(p), proposals' # proposals
      PROVE  RestartInv' /\ ProposalsInRefs'
  <2> DEFINE new == [job |-> run[p].job, pos |-> run[p].pos, gen |-> run[p].gen]
  <2>1. /\ run[p].pc = "record" /\ Fenced(p) /\ proposals' = proposals \cup {new}
        /\ run'[p].pc = "document" /\ run'[p].pos = run[p].pos + 1
        /\ run'[p].reviewed = run[p].reviewed /\ run'[p].job = run[p].job
    BY <1>2, ProposalsGrow
  <2>2. /\ \A q \in Procs : q # p => run'[q] = run[q]
        /\ \A k \in Jobs : jobs'[k].gen = jobs[k].gen
    BY <1>2, WorkFrame
  <2>3. /\ new.job = run[p].job /\ new.pos = run[p].pos
        /\ new.pos \in DOMAIN Refs[new.job]
        /\ Refs[new.job][new.pos] \notin run[p].reviewed
    BY <2>1 DEF OpenReference
  <2>4. run[p].gen = jobs[run[p].job].gen
    BY <2>1 DEF Fenced, Holds
  <2>5. \A x \in proposals : x.job = run[p].job => Known(p, x)
    BY <2>1, <2>4 DEF SnapshotCovers
  <2> HIDE DEF new
  <2>6. OneProposalPerRef'
    <3>1. \A x \in proposals : ~(x.job = new.job /\ x.pos = new.pos)
      BY <2>3, <2>5, <1>0 DEF Known
    <3> QED
      BY <2>1, <3>1 DEF OneProposalPerRef
  <2>7. OpenReference'
    BY <2>1, <2>2 DEF OpenReference
  <2>8. SnapshotCovers'
    <3>1. ASSUME NEW q \in Procs, q # p,
                 run[q].pc \in {"progress", "document", "provider", "record", "skip"},
                 run[q].gen = jobs[run[q].job].gen
          PROVE  run[q].job # run[p].job
      BY <2>1, <2>4, <3>1 DEF DistinctGenerations, Active
    <3>2. ASSUME NEW q \in Procs, q # p,
                 run'[q].pc \in {"progress", "document", "provider", "record", "skip"},
                 run'[q].gen = jobs'[run'[q].job].gen,
                 NEW x \in proposals', x.job = run'[q].job
          PROVE  Known(q, x)'
      <4>1. x \in proposals
        BY <1>0, <2>1, <2>2, <2>3, <3>1, <3>2
      <4>2. Known(q, x)
        BY <1>0, <2>2, <3>2, <4>1 DEF SnapshotCovers
      <4> QED
        BY <2>2, <3>2, <4>2 DEF Known
    <3>3. ASSUME NEW x \in proposals', x.job = run'[p].job PROVE Known(p, x)'
      <4>1. CASE x = new
        BY <1>0, <2>1, <2>3, <4>1 DEF Known
      <4>2. CASE x \in proposals
        BY <1>0, <2>1, <2>5, <3>3, <4>2 DEF Known
      <4> QED
        BY <2>1, <4>1, <4>2
    <3> QED
      BY <3>2, <3>3 DEF SnapshotCovers
  <2>9. ProposalsInRefs'
    BY <2>1, <2>3, FS_AddElement DEF ProposalsInRefs
  <2> QED
    BY <2>6, <2>7, <2>8, <2>9
<1>3. ASSUME NEW p \in Procs, Work(p), proposals' = proposals
      PROVE  RestartInv' /\ ProposalsInRefs'
  <2>1. /\ \A q \in Procs : q # p => run'[q] = run[q]
        /\ \A k \in Jobs : jobs'[k].gen = jobs[k].gen
        /\ \/ run'[p].pc = "idle"
           \/ run'[p].job = run[p].job /\ run'[p].gen = run[p].gen
    BY <1>3, WorkFrame
  <2>2. OneProposalPerRef' /\ ProposalsInRefs'
    BY <1>3 DEF OneProposalPerRef, ProposalsInRefs
  <2>3. OpenReference'
    <3>1. run'[p].pc \in {"provider", "record", "skip"} =>
            /\ run'[p].pos \in DOMAIN Refs[run'[p].job]
            /\ Refs[run'[p].job][run'[p].pos] \notin run'[p].reviewed
      BY <1>3, <2>1, LoopMoves DEF OpenReference, AtOpenRef
    <3> QED
      BY <2>1, <3>1 DEF OpenReference
  <2>4. ASSUME run'[p].pc \in {"progress", "document", "provider", "record", "skip"},
               run'[p].gen = jobs'[run'[p].job].gen,
               NEW x \in proposals, x.job = run'[p].job
        PROVE  Known(p, x)'
    <3>1. run'[p].job = run[p].job /\ run[p].gen = jobs[run[p].job].gen
      BY <1>0, <2>1, <2>4
    <3>2. x.pos \in DOMAIN Refs[run[p].job] /\ x.pos \in Nat
      BY <1>0, <2>4, <3>1 DEF ProposalsInRefs
    <3>3. Refs[run[p].job][x.pos] \in Reviewed(run[p].job)
      BY <2>4, <3>1 DEF Reviewed
    <3>4. run[p].pc \in {"progress", "document", "provider", "record", "skip"}
            => Known(p, x)
      BY <2>4, <3>1 DEF SnapshotCovers
    <3> QED
      BY <1>0, <1>3, <2>4, <3>1, <3>2, <3>3, <3>4, LoopMoves DEF Known
  <2>5. SnapshotCovers'
    <3>1. ASSUME NEW q \in Procs, q # p,
                 run'[q].pc \in {"progress", "document", "provider", "record", "skip"},
                 run'[q].gen = jobs'[run'[q].job].gen,
                 NEW x \in proposals', x.job = run'[q].job
          PROVE  Known(q, x)'
      BY <1>0, <1>3, <2>1, <3>1 DEF SnapshotCovers, Known
    <3> QED
      BY <1>3, <2>4, <3>1 DEF SnapshotCovers
  <2> QED
    BY <2>2, <2>3, <2>5
<1>4. ASSUME NEW p \in Procs, NEW j \in Jobs, Claim(p, j)
      PROVE  RestartInv' /\ ProposalsInRefs'
  <2>1. /\ run'[p].pc = "dispatch" /\ proposals' = proposals
        /\ \A q \in Procs : q # p => run'[q] = run[q]
    BY <1>4, IdleTypes DEF Claim, TypeOK, Runs
  <2>2. /\ jobs'[j].gen = jobs[j].gen + 1
        /\ \A k \in Jobs : k # j => jobs'[k] = jobs[k]
    <3>1. jobs[j] \in JobRows(WorkerIds)
      BY DEF TypeOK
    <3> QED
      BY <1>4, <3>1, RowGenerations DEF Claim, TypeOK
  <2>3. OneProposalPerRef' /\ ProposalsInRefs'
    BY <2>1 DEF OneProposalPerRef, ProposalsInRefs
  <2>4. OpenReference'
    BY <2>1 DEF OpenReference
  <2>5. ASSUME NEW q \in Procs,
               run'[q].pc \in {"progress", "document", "provider", "record", "skip"},
               run'[q].gen = jobs'[run'[q].job].gen
        PROVE  /\ run'[q] = run[q] /\ run[q].gen = jobs[run[q].job].gen
    <3>1. run'[q] = run[q] /\ run[q].job \in Jobs
      BY <1>0, <2>1, <2>5
    <3>2. run[q].gen <= jobs[run[q].job].gen
      BY <2>5, <3>1 DEF GenerationsBounded, Active
    <3> QED
      BY <1>0, <2>2, <2>5, <3>1, <3>2
  <2>6. SnapshotCovers'
    BY <2>1, <2>5 DEF SnapshotCovers, Known
  <2> QED
    BY <2>3, <2>4, <2>6
<1>5. ASSUME Next, ~(\E p \in Procs : Work(p) \/ \E j \in Jobs : Claim(p, j))
      PROVE  RestartInv' /\ ProposalsInRefs'
  <2>1. /\ proposals' = proposals
        /\ \A k \in Jobs : jobs'[k].gen = jobs[k].gen
        /\ \A q \in Procs : run'[q] = run[q] \/ run'[q].pc = "idle"
    BY <1>5, OwnerFrame
  <2>2. OneProposalPerRef' /\ ProposalsInRefs' /\ OpenReference'
    BY <2>1 DEF OneProposalPerRef, ProposalsInRefs, OpenReference
  <2>3. SnapshotCovers'
    BY <1>0, <2>1 DEF SnapshotCovers, Known
  <2> QED
    BY <2>2, <2>3
<1> QED
  BY <1>1, <1>2, <1>3, <1>4, <1>5

-----------------------------------------------------------------------------
(* The theorems                                                            *)

LEMMA InitInv == Init => FenceInv /\ RestartInv
<1> SUFFICES ASSUME Init PROVE FenceInv /\ RestartInv
  OBVIOUS
<1>1. TypeOK
  BY IdleTypes DEF Init, TypeOK
<1>2. \A p \in Procs : run[p].pc = "idle"
  BY IdleTypes DEF Init
<1> QED
  BY <1>1, <1>2, FS_EmptySet DEF Init, FenceInv, RestartInv, ProposalsInRefs,
     GenerationsBounded, DistinctGenerations, Active, SnapshotCovers,
     OpenReference, OneProposalPerRef

LEMMA StepInv ==
  ASSUME FenceInv, RestartInv, [Next]_vars
  PROVE  FenceInv' /\ RestartInv'
<1>1. TypeOK'
  <2>1. CASE UNCHANGED vars
    BY <2>1 DEF vars, TypeOK, FenceInv
  <2> QED
    BY <2>1, WorkType, ClaimType, OwnerType DEF FenceInv
<1>2. GenerationsBounded' /\ DistinctGenerations'
  BY <1>1, FenceStep DEF FenceInv
<1>3. RestartInv' /\ ProposalsInRefs'
  BY <1>1, RestartStep
<1> QED
  BY <1>1, <1>2, <1>3 DEF FenceInv

LEMMA InvariantHolds == Spec => [](FenceInv /\ RestartInv)
<1>1. FenceInv /\ RestartInv /\ [Next]_vars => (FenceInv /\ RestartInv)'
  BY StepInv
<1> QED
  BY InitInv, <1>1, PTL DEF Spec

\* The rows, outcome tables, runs and requests of the runtime keep their types:
\* in particular no column of mainai_jobs leaves the range its migration gives.
THEOREM TypeCorrect == Spec => []TypeOK
<1>1. FenceInv /\ RestartInv => TypeOK
  BY DEF FenceInv
<1> QED
  BY InvariantHolds, <1>1, PTL

\* lease_generation fences: however many processes run a job at once, and even
\* when they share one worker id, at most one of them can write to its row.
THEOREM FenceAdmitsOneWriter == Spec => []SingleWriter
<1>1. FenceInv /\ RestartInv => SingleWriter
  BY DEF FenceInv, DistinctGenerations, Active, SingleWriter, Fenced, Holds
<1> QED
  BY InvariantHolds, <1>1, PTL

\* corpus_review is restart safe: over any crashes, lapsed leases, reclaims and
\* retries, no input reference is given a second proposal.
THEOREM ReviewedAtMostOnce == Spec => []OneProposalPerRef
<1>1. FenceInv /\ RestartInv => OneProposalPerRef
  BY DEF RestartInv
<1> QED
  BY InvariantHolds, <1>1, PTL

\* If no input_refs list names a document twice, the owner never sees two
\* proposals of a job for one document.
THEOREM OncePerDocument ==
  ASSUME \A j \in Jobs : \A a, b \in DOMAIN Refs[j] :
           Refs[j][a] = Refs[j][b] => a = b
  PROVE  Spec => []OneProposalPerDocument
<1>1. FenceInv /\ RestartInv => OneProposalPerDocument
  <2>1. FenceInv => \A x \in proposals : x.job \in Jobs /\ x.pos \in DOMAIN Refs[x.job]
    BY DEF FenceInv, TypeOK, Outcomes, ProposalsInRefs
  <2> QED
    BY <2>1 DEF RestartInv, OneProposalPerRef, OneProposalPerDocument
<1> QED
  BY InvariantHolds, <1>1, PTL

-----------------------------------------------------------------------------
(* What the steps do to the facts about cancels, reports and the contract  *)

Loop == {"document", "provider", "record", "skip"}

\* No claim has been made since p's: only such a run can pass the fence.
Current(p) == run[p].gen = jobs[run[p].job].gen

\* The other rows stay, and so does what the owner has asked of this one.
OtherRowsStay(j) ==
  /\ \A k \in Jobs : k # j => jobs'[k] = jobs[k]
  /\ jobs'[j].gen = jobs[j].gen
  /\ jobs'[j].cancelRequested = jobs[j].cancelRequested

\* p's loop stands at pos; its snapshot and its count are the old ones.
LoopAt(p, pc, pos) ==
  /\ run'[p].pc = pc /\ run'[p].pos = pos
  /\ run'[p].reviewed = run[p].reviewed /\ run'[p].count = run[p].count

\* A step that writes nothing.
Unwritten(p) ==
  /\ UNCHANGED table
  /\ \/ run'[p].pc = "idle"
     \/ run'[p].pc = "fail" /\ run'[p].pos = run[p].pos
     \/ /\ run[p].pc = "start" /\ run'[p].pc = "progress" /\ run'[p].pos = run[p].pos
        /\ run'[p].reviewed = Reviewed(run[p].job)
        /\ run'[p].count = Cardinality(Reviewed(run[p].job))
     \/ /\ run[p].pc = "document" /\ run[p].pos \in DOMAIN Refs[run[p].job]
        /\ Refs[run[p].job][run[p].pos] \in run[p].reviewed
        /\ LoopAt(p, "document", run[p].pos + 1)
     \/ /\ run[p].pc = "provider"
        /\ \E pc \in {"record", "skip"} : LoopAt(p, pc, run[p].pos)

\* A write to the row that lets the run go on.
Progress(p) ==
  LET j == run[p].job IN
  /\ Fenced(p) /\ UNCHANGED <<proposals, skips, afterCancel>> /\ OtherRowsStay(j)
  /\ jobs'[j].status = "running"
  /\ \/ /\ run[p].pc = "dispatch" /\ run'[p].pc \in {"start", "unavailable"}
        /\ run'[p].pos = run[p].pos
     \/ /\ run[p].pc = "progress" /\ LoopAt(p, "document", run[p].pos + 1)
        /\ jobs'[j].current = run[p].count
     \/ /\ AtOpenRef(p) /\ ~jobs[j].cancelRequested
        /\ jobs'[j].current = jobs[j].current
        /\ \E pc \in {"provider", "skip"} : LoopAt(p, pc, run[p].pos)

\* The job ends.
Ended(p) ==
  LET j == run[p].job IN
  /\ Fenced(p) /\ UNCHANGED <<proposals, skips, afterCancel>> /\ OtherRowsStay(j)
  /\ run'[p].pc = "idle"
  /\ \/ jobs'[j].status = "failed" /\ jobs'[j].error # "transient_io"
     \/ jobs'[j].status = "cancelled"
     \/ /\ run[p].pc = "document" /\ run[p].pos > Len(Refs[j])
        /\ jobs'[j].current = jobs[j].current
        /\ \/ jobs'[j].status = "failed" /\ run[p].count = 0
           \/ jobs'[j].status = "completed"

\* An outcome is recorded: a proposal or a skipped reference.
Recorded(p) ==
  LET j == run[p].job IN
  /\ Fenced(p) /\ OtherRowsStay(j) /\ CountAfterCancel(j)
  /\ jobs'[j].status = "running"
  /\ run'[p].pc = "document" /\ run'[p].pos = run[p].pos + 1
  /\ run'[p].reviewed = run[p].reviewed
  /\ LET x == [job |-> j, pos |-> run[p].pos, gen |-> run[p].gen]
     IN  \/ /\ run[p].pc = "record" /\ run'[p].count = run[p].count + 1
            /\ jobs'[j].current = run[p].count + 1
            /\ proposals' = proposals \cup {x} /\ skips' = skips
         \/ /\ run[p].pc = "skip" /\ run'[p].count = run[p].count
            /\ jobs'[j].current = jobs[j].current
            /\ skips' = skips \cup {x} /\ proposals' = proposals

\* The columns the reports are made of.
LEMMA RowColumns ==
  ASSUME NEW W, NEW row \in JobRows(W)
  PROVE  /\ \A w : /\ Claimed(row, w).status = "running"
                   /\ Claimed(row, w).cancelRequested = row.cancelRequested
         /\ Renewed(row).status = row.status /\ Renewed(row).current = row.current
         /\ Renewed(row).cancelRequested = row.cancelRequested
         /\ \A c, t : /\ Progressed(row, c, t).status = row.status
                      /\ Progressed(row, c, t).current = c
                      /\ Progressed(row, c, t).cancelRequested = row.cancelRequested
         /\ Completed(row).status = "completed" /\ Completed(row).current = row.current
         /\ Completed(row).cancelRequested = row.cancelRequested
         /\ \A e : /\ Failed(row, e).status = "failed" /\ Failed(row, e).error = e
                   /\ Failed(row, e).current = row.current
                   /\ Failed(row, e).cancelRequested = row.cancelRequested
         /\ Cancelled(row).status = "cancelled"
         /\ Cancelled(row).cancelRequested = row.cancelRequested
<1>1. \A w : /\ Claimed(row, w).status = "running"
             /\ Claimed(row, w).cancelRequested = row.cancelRequested
  BY DEF JobRows, Claimed
<1>2. /\ Renewed(row).status = row.status /\ Renewed(row).current = row.current
      /\ Renewed(row).cancelRequested = row.cancelRequested
  BY DEF JobRows, Renewed
<1>3. \A c, t : /\ Progressed(row, c, t).status = row.status
                /\ Progressed(row, c, t).current = c
                /\ Progressed(row, c, t).cancelRequested = row.cancelRequested
  BY DEF JobRows, Progressed
<1>4. /\ Completed(row).status = "completed" /\ Completed(row).current = row.current
      /\ Completed(row).cancelRequested = row.cancelRequested
  BY DEF JobRows, Completed
<1>5. \A e : /\ Failed(row, e).status = "failed" /\ Failed(row, e).error = e
             /\ Failed(row, e).current = row.current
             /\ Failed(row, e).cancelRequested = row.cancelRequested
  BY DEF JobRows, Failed
<1>6. /\ Cancelled(row).status = "cancelled"
      /\ Cancelled(row).cancelRequested = row.cancelRequested
  BY DEF JobRows, Cancelled
<1> QED
  BY <1>1, <1>2, <1>3, <1>4, <1>5, <1>6

\* What an accepted write makes of the table.
LEMMA RowWritten ==
  ASSUME TypeOK, NEW p \in Procs, NEW new,
         jobs' = [jobs EXCEPT ![run[p].job] = new],
         new.gen = jobs[run[p].job].gen,
         new.cancelRequested = jobs[run[p].job].cancelRequested
  PROVE  OtherRowsStay(run[p].job) /\ jobs'[run[p].job] = new
<1>1. run[p].job \in Jobs
  BY DEF TypeOK, Runs
<1> QED
  BY <1>1 DEF OtherRowsStay, TypeOK

\* Where a step leaves the run.
LEMMA RunWritten ==
  ASSUME TypeOK, NEW p \in Procs
  PROVE  /\ Stop(p) => run'[p].pc = "idle" /\ run'[p].pos = 0
         /\ \A pc : Goto(p, pc) => LoopAt(p, pc, run[p].pos)
         /\ Advance(p, run[p]) => LoopAt(p, "document", run[p].pos + 1)
         /\ Advance(p, [run[p] EXCEPT !.count = @ + 1]) =>
              /\ run'[p].pc = "document" /\ run'[p].pos = run[p].pos + 1
              /\ run'[p].reviewed = run[p].reviewed
              /\ run'[p].count = run[p].count + 1
<1>0. run[p] \in Runs
  BY DEF TypeOK
<1>1. Stop(p) => run'[p].pc = "idle" /\ run'[p].pos = 0
  BY DEF Stop, TypeOK, IdleRun
<1>2. \A pc : Goto(p, pc) => LoopAt(p, pc, run[p].pos)
  BY <1>0 DEF Goto, TypeOK, Runs, LoopAt
<1>3. Advance(p, run[p]) => LoopAt(p, "document", run[p].pos + 1)
  BY <1>0 DEF Advance, TypeOK, Runs, LoopAt
<1>4. Advance(p, [run[p] EXCEPT !.count = @ + 1]) =>
              /\ run'[p].pc = "document" /\ run'[p].pos = run[p].pos + 1
              /\ run'[p].reviewed = run[p].reviewed
              /\ run'[p].count = run[p].count + 1
  BY <1>0 DEF Advance, TypeOK, Runs
<1> QED
  BY <1>1, <1>2, <1>3, <1>4

\* Every worker step is one of the above.
LEMMA WorkEffects ==
  ASSUME TypeOK, NEW p \in Procs, Work(p)
  PROVE  Unwritten(p) \/ Progress(p) \/ Ended(p) \/ Recorded(p)
<1> DEFINE r == run[p]
           j == run[p].job
           row == jobs[run[p].job]
<1>0. r \in Runs /\ j \in Jobs /\ row \in JobRows(WorkerIds)
  BY DEF TypeOK, Runs
<1>1. ASSUME NEW new, NEW Effect, Write(p, new, Effect)
      PROVE  \/ Unwritten(p)
             \/ /\ Fenced(p) /\ row.status = "running" /\ Effect
                /\ jobs' = [jobs EXCEPT ![j] = new]
  <2>1. CASE Stop(p) /\ UNCHANGED table
    BY <2>1, RunWritten DEF Unwritten
  <2>2. CASE Goto(p, "fail") /\ UNCHANGED table
    BY <2>2, RunWritten DEF Unwritten, LoopAt
  <2> QED
    BY <1>1, <2>1, <2>2 DEF Write, Fenced, Holds
<1>2. CASE Dispatch(p)
  <2>1. PICK next \in {"start", "unavailable"} :
          Write(p, row, Goto(p, next) /\ UNCHANGED <<proposals, skips, afterCancel>>)
    BY <1>2 DEF Dispatch
  <2>2. CASE /\ Fenced(p) /\ row.status = "running"
             /\ Goto(p, next) /\ UNCHANGED <<proposals, skips, afterCancel>>
             /\ jobs' = [jobs EXCEPT ![j] = row]
    BY <1>2, <2>2, RowWritten, RunWritten DEF Dispatch, Progress, LoopAt
  <2> QED
    BY <1>1, <2>1, <2>2
<1>3. CASE MarkUnavailable(p)
  <2> DEFINE new == Failed(row, "capability_unavailable")
  <2>1. /\ new.gen = row.gen /\ new.cancelRequested = row.cancelRequested
        /\ new.status = "failed" /\ new.error # "transient_io"
    BY <1>0, RowColumns, RowGenerations
  <2>2. Write(p, new, Stop(p) /\ UNCHANGED <<proposals, skips, afterCancel>>)
    BY <1>3 DEF MarkUnavailable
  <2> HIDE DEF new
  <2>3. CASE /\ Fenced(p) /\ row.status = "running"
             /\ Stop(p) /\ UNCHANGED <<proposals, skips, afterCancel>>
             /\ jobs' = [jobs EXCEPT ![j] = new]
    BY <2>1, <2>3, RowWritten, RunWritten DEF Ended
  <2> QED
    BY <1>1, <2>2, <2>3
<1>4. CASE ReadReviewed(p)
  <2>1. /\ run[p].pc = "start" /\ run'[p].pc = "progress" /\ run'[p].pos = run[p].pos
        /\ run'[p].reviewed = Reviewed(j) /\ run'[p].count = Cardinality(Reviewed(j))
    BY <1>0, <1>4 DEF ReadReviewed, TypeOK, Runs
  <2> QED
    BY <1>4, <2>1 DEF ReadReviewed, Unwritten
<1>5. CASE InitialProgress(p)
  <2> DEFINE new == Progressed(row, r.count, Len(Refs[j]))
  <2>1. /\ new.gen = row.gen /\ new.cancelRequested = row.cancelRequested
        /\ new.status = row.status /\ new.current = r.count
    BY <1>0, RowColumns, RowGenerations
  <2>2. Write(p, new, Advance(p, r) /\ UNCHANGED <<proposals, skips, afterCancel>>)
    BY <1>5 DEF InitialProgress
  <2> HIDE DEF new
  <2>3. CASE /\ Fenced(p) /\ row.status = "running"
             /\ Advance(p, r) /\ UNCHANGED <<proposals, skips, afterCancel>>
             /\ jobs' = [jobs EXCEPT ![j] = new]
    BY <1>5, <2>1, <2>3, RowWritten, RunWritten DEF InitialProgress, Progress
  <2> QED
    BY <1>1, <2>2, <2>3
<1>6. CASE PassOver(p)
  BY <1>6, RunWritten DEF PassOver, Unwritten
<1>7. CASE Checkpoint(p)
  <2>0. AtOpenRef(p)
    BY <1>7 DEF Checkpoint
  <2>1. CASE row.cancelRequested
    <3> DEFINE new == Cancelled(row)
    <3>1. /\ new.gen = row.gen /\ new.cancelRequested = row.cancelRequested
          /\ new.status = "cancelled"
      BY <1>0, RowColumns, RowGenerations
    <3>2. Write(p, new, Stop(p) /\ UNCHANGED <<proposals, skips, afterCancel>>)
      BY <1>7, <2>1 DEF Checkpoint
    <3> HIDE DEF new
    <3>3. CASE /\ Fenced(p) /\ row.status = "running"
               /\ Stop(p) /\ UNCHANGED <<proposals, skips, afterCancel>>
               /\ jobs' = [jobs EXCEPT ![j] = new]
      BY <3>1, <3>3, RowWritten, RunWritten DEF Ended
    <3> QED
      BY <1>1, <3>2, <3>3
  <2>2. CASE ~row.cancelRequested
    <3> DEFINE new == Renewed(row)
               d == Refs[j][r.pos]
               pc == IF Reviewable(d) THEN "provider" ELSE "skip"
               reason == IF Reviewable(d) THEN "none" ELSE "unavailable"
    <3>1. /\ new.gen = row.gen /\ new.cancelRequested = row.cancelRequested
          /\ new.status = row.status /\ new.current = row.current
      BY <1>0, RowColumns, RowGenerations
    <3>2. pc \in {"provider", "skip"}
      OBVIOUS
    <3>3. Write(p, new, /\ run' = [run EXCEPT ![p].pc = pc, ![p].reason = reason]
                        /\ UNCHANGED <<proposals, skips, afterCancel>>)
      BY <1>7, <2>2 DEF Checkpoint
    <3> HIDE DEF new, pc, reason
    <3>4. CASE /\ Fenced(p) /\ row.status = "running"
               /\ run' = [run EXCEPT ![p].pc = pc, ![p].reason = reason]
               /\ UNCHANGED <<proposals, skips, afterCancel>>
               /\ jobs' = [jobs EXCEPT ![j] = new]
      <4>1. LoopAt(p, pc, r.pos)
        BY <1>0, <3>4 DEF LoopAt, TypeOK, Runs
      <4> QED
        BY <2>0, <2>2, <3>1, <3>2, <3>4, <4>1, RowWritten DEF Progress
    <3> QED
      BY <1>1, <3>3, <3>4
  <2> QED
    BY <2>1, <2>2
<1>8. CASE ProviderAnswers(p)
  <2>1. CASE Goto(p, "record") \/ Goto(p, "fail")
    BY <1>8, <2>1, RunWritten DEF ProviderAnswers, Unwritten, LoopAt
  <2>2. CASE run' = [run EXCEPT ![p].pc = "skip", ![p].reason = "provider",
                                ![p].failed = @ + 1]
    <3>1. LoopAt(p, "skip", r.pos)
      BY <1>0, <2>2 DEF LoopAt, TypeOK, Runs
    <3> QED
      BY <1>8, <3>1 DEF ProviderAnswers, Unwritten
  <2> QED
    BY <1>8, <2>1, <2>2 DEF ProviderAnswers
<1>9. CASE RecordReviewed(p)
  <2> DEFINE new == Progressed(row, r.count + 1, Len(Refs[j]))
             x == [job |-> j, pos |-> r.pos, gen |-> r.gen]
  <2>1. /\ new.gen = row.gen /\ new.cancelRequested = row.cancelRequested
        /\ new.status = row.status /\ new.current = r.count + 1
    BY <1>0, RowColumns, RowGenerations
  <2>2. Write(p, new, /\ proposals' = proposals \cup {x} /\ CountAfterCancel(j)
                      /\ Advance(p, [r EXCEPT !.count = @ + 1]) /\ UNCHANGED skips)
    BY <1>9 DEF RecordReviewed
  <2> HIDE DEF new
  <2>3. CASE /\ Fenced(p) /\ row.status = "running"
             /\ proposals' = proposals \cup {x} /\ CountAfterCancel(j)
             /\ Advance(p, [r EXCEPT !.count = @ + 1]) /\ UNCHANGED skips
             /\ jobs' = [jobs EXCEPT ![j] = new]
    BY <1>9, <2>1, <2>3, RowWritten, RunWritten DEF RecordReviewed, Recorded
  <2> QED
    BY <1>1, <2>2, <2>3
<1>10. CASE RecordSkipped(p)
  <2> DEFINE x == [job |-> j, pos |-> r.pos, gen |-> r.gen]
  <2>2. Write(p, row, /\ skips' = skips \cup {x} /\ CountAfterCancel(j)
                      /\ Advance(p, r) /\ UNCHANGED proposals)
    BY <1>10 DEF RecordSkipped
  <2>3. CASE /\ Fenced(p) /\ row.status = "running"
             /\ skips' = skips \cup {x} /\ CountAfterCancel(j)
             /\ Advance(p, r) /\ UNCHANGED proposals
             /\ jobs' = [jobs EXCEPT ![j] = row]
    BY <1>10, <2>3, RowWritten, RunWritten DEF RecordSkipped, Recorded, LoopAt
  <2> QED
    BY <1>1, <2>2, <2>3
<1>11. CASE MarkFailed(p)
  <2> DEFINE new == Failed(row, "unexpected")
  <2>1. /\ new.gen = row.gen /\ new.cancelRequested = row.cancelRequested
        /\ new.status = "failed" /\ new.error # "transient_io"
    BY <1>0, RowColumns, RowGenerations
  <2>2. Write(p, new, Stop(p) /\ UNCHANGED <<proposals, skips, afterCancel>>)
    BY <1>11 DEF MarkFailed
  <2> HIDE DEF new
  <2>3. CASE /\ Fenced(p) /\ row.status = "running"
             /\ Stop(p) /\ UNCHANGED <<proposals, skips, afterCancel>>
             /\ jobs' = [jobs EXCEPT ![j] = new]
    BY <2>1, <2>3, RowWritten, RunWritten DEF Ended
  <2> QED
    BY <1>1, <2>2, <2>3
<1>12. CASE Finish(p)
  <2> DEFINE new == IF r.count = 0 /\ r.failed > 0
                    THEN Failed(row, "transient_io") ELSE Completed(row)
  <2>1. /\ new.gen = row.gen /\ new.cancelRequested = row.cancelRequested
        /\ new.current = row.current
        /\ \/ new.status = "failed" /\ r.count = 0
           \/ new.status = "completed"
    BY <1>0, RowColumns, RowGenerations
  <2>2. Write(p, new, Stop(p) /\ UNCHANGED <<proposals, skips, afterCancel>>)
    BY <1>12 DEF Finish
  <2> HIDE DEF new
  <2>3. CASE /\ Fenced(p) /\ row.status = "running"
             /\ Stop(p) /\ UNCHANGED <<proposals, skips, afterCancel>>
             /\ jobs' = [jobs EXCEPT ![j] = new]
    BY <1>12, <2>1, <2>3, RowWritten, RunWritten DEF Finish, Ended
  <2> QED
    BY <1>1, <2>2, <2>3
<1> QED
  BY <1>2, <1>3, <1>4, <1>5, <1>6, <1>7, <1>8, <1>9, <1>10, <1>11, <1>12 DEF Work

\* Requests, purges, crashes and lapses as they affect a job: nothing is
\* recorded, no run begins, and the row is touched in one of three ways.
OwnerTouches(k) ==
  \/ jobs'[k] = jobs[k] /\ afterCancel'[k] = afterCancel[k]
  \/ /\ jobs'[k].status = jobs[k].status /\ jobs'[k].current = jobs[k].current
     /\ jobs'[k].error = jobs[k].error /\ jobs'[k].gen = jobs[k].gen
     /\ jobs[k].cancelRequested => jobs'[k].cancelRequested
     /\ afterCancel'[k] = afterCancel[k]
  \/ /\ jobs'[k].status = "queued" /\ jobs'[k].gen = jobs[k].gen
     /\ afterCancel'[k] = (IF jobs'[k].cancelRequested THEN afterCancel[k] ELSE 0)
     /\ \E r \in Requests : req[r].kind = "retry" /\ req[r].job = k

LEMMA OwnerEffects ==
  ASSUME TypeOK, Next, ~(\E p \in Procs : Work(p) \/ \E j \in Jobs : Claim(p, j))
  PROVE  /\ proposals' = proposals /\ skips' = skips
         /\ \A q \in Procs : run'[q] = run[q] \/ run'[q].pc = "idle"
         /\ \E k \in Jobs :
              OwnerTouches(k) /\ \A l \in Jobs : l # k => /\ jobs'[l] = jobs[l]
                                                          /\ afterCancel'[l] = afterCancel[l]
<1> DEFINE Touched == \E k \in Jobs :
              OwnerTouches(k) /\ \A l \in Jobs : l # k => /\ jobs'[l] = jobs[l]
                                                          /\ afterCancel'[l] = afterCancel[l]
<1>0. /\ \A j \in Jobs : jobs[j] \in JobRows(WorkerIds)
      /\ DOMAIN jobs = Jobs /\ DOMAIN afterCancel = Jobs
      /\ \A r \in Requests : req[r].job \in Jobs
  BY DEF TypeOK
<1>1. UNCHANGED table => Touched /\ UNCHANGED <<proposals, skips>>
  BY ConstantsOK DEF table, OwnerTouches
<1>2. /\ skips' = skips /\ proposals' = proposals
      /\ \A q \in Procs : run'[q] = run[q] \/ run'[q].pc = "idle"
  <2>1. skips' = skips
    BY DEF Next, Crash, Request, ReadForCancel, CommitCancel, ReadForRetry,
       CommitRetry, Purge, LapseLease, table
  <2> QED
    BY <2>1, OwnerFrame
<1> HIDE DEF Touched
<1>3. ASSUME NEW r \in Requests, CommitCancel(r) PROVE Touched
  <2> DEFINE j == req[r].job
             new == CancelRequested(jobs[j])
  <2>1. /\ new.status = jobs[j].status /\ new.current = jobs[j].current
        /\ new.error = jobs[j].error /\ new.gen = jobs[j].gen /\ new.cancelRequested
    BY <1>0 DEF CancelRequested, JobRows
  <2>2. jobs' = [jobs EXCEPT ![j] = new] /\ afterCancel' = afterCancel /\ j \in Jobs
    BY <1>0, <1>3 DEF CommitCancel
  <2> HIDE DEF new, j
  <2>3. jobs'[j] = new /\ \A l \in Jobs : l # j => jobs'[l] = jobs[l]
    BY <1>0, <2>2
  <2>4. OwnerTouches(j)
    BY <2>1, <2>2, <2>3 DEF OwnerTouches
  <2> QED
    BY <2>2, <2>3, <2>4 DEF Touched
<1>4. ASSUME NEW r \in Requests, CommitRetry(r) PROVE Touched
  <2> DEFINE j == req[r].job
             new == Retried(jobs[j], req[r].read)
  <2>1. /\ new.status = "queued" /\ new.gen = jobs[j].gen
    BY <1>0 DEF Retried, JobRows
  <2>2. j \in Jobs /\ req[r].kind = "retry"
    BY <1>0, <1>4 DEF CommitRetry
  <2>3. \/ UNCHANGED <<jobs, afterCancel>>
        \/ /\ jobs' = [jobs EXCEPT ![j] = new]
           /\ afterCancel' = [afterCancel EXCEPT
                ![j] = IF new.cancelRequested THEN @ ELSE 0]
    BY <1>4 DEF CommitRetry
  <2> DEFINE J == req[r].job
  <2> HIDE DEF new
  <2>4. CASE UNCHANGED <<jobs, afterCancel>>
    BY <2>2, <2>4 DEF OwnerTouches, Touched
  <2>5. CASE /\ jobs' = [jobs EXCEPT ![j] = new]
             /\ afterCancel' = [afterCancel EXCEPT
                  ![j] = IF new.cancelRequested THEN @ ELSE 0]
    <3>1. /\ jobs'[j] = new
          /\ afterCancel'[j] = (IF new.cancelRequested THEN afterCancel[j] ELSE 0)
          /\ \A l \in Jobs : l # j => /\ jobs'[l] = jobs[l]
                                      /\ afterCancel'[l] = afterCancel[l]
      BY <1>0, <2>2, <2>5
    <3>2. OwnerTouches(j)
      BY <2>1, <2>2, <3>1 DEF OwnerTouches
    <3> QED
      BY <2>2, <3>1, <3>2 DEF Touched
  <2> QED
    BY <2>3, <2>4, <2>5
<1>5. ASSUME NEW j \in Jobs, LapseLease(j) PROVE Touched
  <2> DEFINE new == [jobs[j] EXCEPT !.lease = "expired"]
  <2>1. /\ new.status = jobs[j].status /\ new.current = jobs[j].current
        /\ new.error = jobs[j].error /\ new.gen = jobs[j].gen
        /\ new.cancelRequested = jobs[j].cancelRequested
    BY <1>0 DEF JobRows
  <2>2. jobs' = [jobs EXCEPT ![j] = new] /\ afterCancel' = afterCancel
    BY <1>5 DEF LapseLease
  <2> HIDE DEF new
  <2>3. jobs'[j] = new /\ \A l \in Jobs : l # j => jobs'[l] = jobs[l]
    BY <1>0, <2>2
  <2>4. OwnerTouches(j)
    BY <2>1, <2>2, <2>3 DEF OwnerTouches
  <2> QED
    BY <2>2, <2>3, <2>4 DEF Touched
<1>6. Touched
  <2>1. \/ \E r \in Requests : CommitCancel(r) \/ CommitRetry(r)
        \/ \E j \in Jobs : LapseLease(j)
        \/ UNCHANGED table
    BY DEF Next, Crash, Request, ReadForCancel, ReadForRetry, Purge
  <2> QED
    BY <1>1, <1>3, <1>4, <1>5, <2>1
<1> QED
  BY <1>2, <1>6 DEF Touched

\* A claim gives the row and the run a new generation.
LEMMA ClaimEffects ==
  ASSUME TypeOK, NEW p \in Procs, NEW j \in Jobs, Claim(p, j)
  PROVE  /\ UNCHANGED <<proposals, skips, afterCancel>>
         /\ jobs[j].status \in {"queued", "running"} /\ run[p].pc = "idle"
         /\ jobs'[j].status = "running" /\ jobs'[j].gen = jobs[j].gen + 1
         /\ jobs'[j].cancelRequested = jobs[j].cancelRequested
         /\ \A k \in Jobs : k # j => jobs'[k] = jobs[k]
         /\ \A q \in Procs : q # p => run'[q] = run[q]
         /\ run'[p].pc = "dispatch" /\ run'[p].job = j /\ run'[p].pos = 0
         /\ run'[p].gen = jobs[j].gen + 1
<1>0. jobs[j] \in JobRows(WorkerIds) /\ DOMAIN jobs = Jobs
  BY DEF TypeOK
<1>1. /\ Claimed(jobs[j], WorkerId[p]).status = "running"
      /\ Claimed(jobs[j], WorkerId[p]).gen = jobs[j].gen + 1
      /\ Claimed(jobs[j], WorkerId[p]).cancelRequested = jobs[j].cancelRequested
  BY <1>0, RowColumns, RowGenerations
<1>2. jobs' = [jobs EXCEPT ![j] = Claimed(jobs[j], WorkerId[p])]
  BY DEF Claim
<1>3. jobs[j].status \in {"queued", "running"} /\ run[p].pc = "idle"
  BY DEF Claim, Claimable
<1>4. /\ \A q \in Procs : q # p => run'[q] = run[q]
      /\ run'[p].pc = "dispatch" /\ run'[p].job = j /\ run'[p].pos = 0
      /\ run'[p].gen = jobs[j].gen + 1
  BY IdleTypes DEF Claim, TypeOK, IdleRun
<1> QED
  BY <1>0, <1>1, <1>2, <1>3, <1>4 DEF Claim

-----------------------------------------------------------------------------
(* Promptness of a cancel                                                  *)

\* Nothing is recorded after a request that has not been made, one outcome at
\* most after one that has, and then nobody who could write is past the
\* checkpoint.
PromptRight ==
  /\ \A j \in Jobs : afterCancel[j] \in {0, 1}
  /\ \A j \in Jobs : ~jobs[j].cancelRequested => afterCancel[j] = 0
  /\ \A p \in Procs : run[p].pc \in {"provider", "record", "skip"} /\ Current(p)
       => afterCancel[run[p].job] = 0

LEMMA PromptStep ==
  ASSUME FenceInv, TypeOK', PromptRight, [Next]_vars
  PROVE  PromptRight'
<1> USE DEF FenceInv
<1>0. /\ \A q \in Procs : run[q].job \in Jobs /\ run'[q].job \in Jobs
      /\ \A q \in Procs : run[q].gen \in Nat
      /\ \A k \in Jobs : jobs[k].gen \in Nat /\ jobs[k].cancelRequested \in BOOLEAN
      /\ DOMAIN afterCancel = Jobs
  BY DEF TypeOK, Runs, JobRows
<1>1. CASE UNCHANGED vars
  BY <1>1 DEF vars, PromptRight, Current
<1>2. ASSUME NEW p \in Procs, Work(p) PROVE PromptRight'
  <2> DEFINE j == run[p].job
  <2>0. /\ \A q \in Procs : q # p => run'[q] = run[q]
        /\ \A k \in Jobs : jobs'[k].gen = jobs[k].gen
        /\ \/ run'[p].pc = "idle"
           \/ run'[p].job = j /\ run'[p].gen = run[p].gen
    BY <1>2, WorkFrame
  <2>1. CASE Unwritten(p)
    BY <1>0, <2>0, <2>1 DEF Unwritten, LoopAt, table, PromptRight, Current
  <2>2. CASE Progress(p)
    <3>1. /\ afterCancel' = afterCancel
          /\ \A k \in Jobs : jobs'[k].cancelRequested = jobs[k].cancelRequested
      BY <1>0, <2>2 DEF Progress, OtherRowsStay
    <3>2. run'[p].pc \in {"provider", "record", "skip"} => ~jobs[j].cancelRequested
      BY <2>2 DEF Progress, LoopAt
    <3> QED
      BY <1>0, <2>0, <3>1, <3>2 DEF PromptRight, Current
  <2>3. CASE Ended(p)
    <3>1. /\ afterCancel' = afterCancel /\ run'[p].pc = "idle"
          /\ \A k \in Jobs : jobs'[k].cancelRequested = jobs[k].cancelRequested
      BY <1>0, <2>3 DEF Ended, OtherRowsStay
    <3> QED
      BY <1>0, <2>0, <3>1 DEF PromptRight, Current
  <2>4. CASE Recorded(p)
    <3>1. /\ run'[p].pc = "document" /\ CountAfterCancel(j)
          /\ run[p].pc \in {"record", "skip"}
          /\ \A k \in Jobs : jobs'[k].cancelRequested = jobs[k].cancelRequested
      BY <1>0, <2>4 DEF Recorded, OtherRowsStay
    <3>2. Current(p)
      BY <2>4 DEF Recorded, Fenced, Holds, Current
    <3>3. afterCancel[j] = 0
      BY <3>1, <3>2 DEF PromptRight
    <3>4. /\ afterCancel'[j] = (IF jobs[j].cancelRequested THEN 1 ELSE 0)
          /\ \A k \in Jobs : k # j => afterCancel'[k] = afterCancel[k]
      BY <1>0, <3>1, <3>3 DEF CountAfterCancel
    <3>5. ASSUME NEW q \in Procs, q # p, run[q].pc \in {"provider", "record", "skip"},
                 Current(q)
          PROVE  run[q].job # j
      BY <3>1, <3>2, <3>5 DEF DistinctGenerations, Active, Current
    <3> QED
      BY <1>0, <2>0, <3>1, <3>4, <3>5 DEF PromptRight, Current
  <2> QED
    BY <1>2, <2>1, <2>2, <2>3, <2>4, WorkEffects
<1>3. ASSUME NEW p \in Procs, NEW j \in Jobs, Claim(p, j) PROVE PromptRight'
  <2>1. /\ afterCancel' = afterCancel
        /\ \A k \in Jobs : jobs'[k].cancelRequested = jobs[k].cancelRequested
        /\ \A q \in Procs : q # p => run'[q] = run[q]
        /\ run'[p].pc = "dispatch"
        /\ \A k \in Jobs : jobs'[k].gen \in {jobs[k].gen, jobs[k].gen + 1}
    BY <1>0, <1>3, ClaimEffects
  <2>2. ASSUME NEW q \in Procs, Active(q), q # p, Current(q)' PROVE Current(q)
    <3>1. run'[q] = run[q] /\ run[q].gen <= jobs[run[q].job].gen
      BY <2>1, <2>2 DEF GenerationsBounded
    <3> QED
      BY <1>0, <2>1, <2>2, <3>1 DEF Current
  <2> QED
    BY <1>0, <2>1, <2>2 DEF PromptRight, Active
<1>4. ASSUME Next, ~(\E p \in Procs : Work(p) \/ \E j \in Jobs : Claim(p, j))
      PROVE  PromptRight'
  <2>1. /\ \A q \in Procs : run'[q] = run[q] \/ run'[q].pc = "idle"
        /\ \A k \in Jobs : jobs'[k].gen = jobs[k].gen
    BY <1>4, OwnerEffects, OwnerFrame
  <2>2. \A k \in Jobs :
          \/ jobs'[k] = jobs[k] /\ afterCancel'[k] = afterCancel[k]
          \/ /\ jobs[k].cancelRequested => jobs'[k].cancelRequested
             /\ afterCancel'[k] = afterCancel[k]
          \/ afterCancel'[k] = (IF jobs'[k].cancelRequested THEN afterCancel[k] ELSE 0)
    BY <1>4, OwnerEffects DEF OwnerTouches
  <2> QED
    BY <1>0, <2>1, <2>2 DEF PromptRight, Current
<1> QED
  BY <1>1, <1>2, <1>3, <1>4 DEF Next

-----------------------------------------------------------------------------
(* The reports of an ended job                                             *)

\* No input_refs list names a document twice.
DistinctRefs ==
  \A j \in Jobs : \A a, b \in DOMAIN Refs[j] : Refs[j][a] = Refs[j][b] => a = b

Findings == [j \in Jobs |-> {x \in proposals : x.job = j}]

\* The count of whoever could write is the number of proposals, and the row
\* shows it.
CountRight ==
  \A p \in Procs : run[p].pc \in Loop \cup {"progress"} /\ Current(p) =>
    /\ run[p].count = Cardinality(Findings[run[p].job])
    /\ run[p].pc \in Loop /\ jobs[run[p].job].status = "running"
         => jobs[run[p].job].current = run[p].count

\* ReportsAreTrue, with the empty scan said of the proposals.
ReportsRight ==
  \A j \in Jobs :
    /\ jobs[j].status = "completed" => jobs[j].current = Cardinality(Findings[j])
    /\ jobs[j].status = "failed" /\ jobs[j].error = "transient_io" => Findings[j] = {}

\* The scan for reviewed documents counts the proposals.
LEMMA ScanCounts ==
  ASSUME DistinctRefs, TypeOK, ProposalsInRefs, OneProposalPerRef, NEW j \in Jobs
  PROVE  /\ IsFiniteSet(Findings[j])
         /\ Cardinality(Reviewed(j)) = Cardinality(Findings[j])
<1> DEFINE own == Findings[j]
           f == [x \in own |-> Refs[j][x.pos]]
<1>1. IsFiniteSet(own)
  BY FS_Subset DEF ProposalsInRefs, Findings
<1>2. Reviewed(j) = {Refs[j][x.pos] : x \in own}
  BY DEF Reviewed, Findings
<1>3. \A x, y \in own : Refs[j][x.pos] = Refs[j][y.pos] => x = y
  BY DEF DistinctRefs, ProposalsInRefs, OneProposalPerRef, Findings
<1> HIDE DEF own
<1>4. f \in Bijection(own, Reviewed(j))
  BY <1>2, <1>3 DEF Bijection, Injection, Surjection, IsInjective
<1>5. ExistsBijection(own, Reviewed(j))
  BY <1>4 DEF ExistsBijection
<1>6. Cardinality(own) = Cardinality(Reviewed(j))
  BY <1>1, <1>5, FS_Bijection
<1> QED
  BY <1>1, <1>6 DEF own

\* A proposal that is recorded is new.
LEMMA ProposalIsNew ==
  ASSUME FenceInv, RestartInv, NEW p \in Procs, Fenced(p), run[p].pc = "record"
  PROVE  \A x \in proposals : ~(x.job = run[p].job /\ x.pos = run[p].pos)
<1>1. run[p].pos \in Nat /\ \A x \in proposals : x.pos \in Nat
  BY DEF FenceInv, TypeOK, Runs, Outcomes
<1>2. \A x \in proposals : x.job = run[p].job => Known(p, x)
  BY DEF RestartInv, SnapshotCovers, Fenced, Holds
<1> QED
  BY <1>1, <1>2 DEF Known, RestartInv, OpenReference

LEMMA FindingsGrow ==
  ASSUME FenceInv, RestartInv, NEW p \in Procs, Fenced(p), run[p].pc = "record",
         proposals' = proposals \cup
           {[job |-> run[p].job, pos |-> run[p].pos, gen |-> run[p].gen]}
  PROVE  /\ Cardinality(Findings'[run[p].job]) = Cardinality(Findings[run[p].job]) + 1
         /\ \A k \in Jobs : k # run[p].job => Findings'[k] = Findings[k]
<1> DEFINE j == run[p].job
           x == [job |-> j, pos |-> run[p].pos, gen |-> run[p].gen]
<1>1. x \notin proposals /\ x.job = j /\ j \in Jobs
  BY ProposalIsNew DEF FenceInv, TypeOK, Runs
<1> HIDE DEF x
<1>2. Findings'[j] = {y \in proposals' : y.job = j}
  BY <1>1 DEF Findings
<1>3. {y \in proposals' : y.job = j} = Findings[j] \cup {x} /\ x \notin Findings[j]
  BY <1>1 DEF Findings, x
<1>4. IsFiniteSet(Findings[j])
  BY <1>1, FS_Subset DEF Findings, FenceInv, ProposalsInRefs
<1>5. Cardinality(Findings'[j]) = Cardinality(Findings[j]) + 1
  <2>1. Cardinality(Findings[j] \cup {x}) = Cardinality(Findings[j]) + 1
    BY <1>3, <1>4, FS_AddElement
  <2> QED
    BY <1>2, <1>3, <2>1
<1>6. \A k \in Jobs : k # j => Findings'[k] = Findings[k]
  BY <1>1 DEF Findings, x
<1> QED
  BY <1>5, <1>6

LEMMA ReportStep ==
  ASSUME DistinctRefs, FenceInv, RestartInv, TypeOK', CountRight, ReportsRight,
         [Next]_vars
  PROVE  CountRight' /\ ReportsRight'
<1> USE DEF FenceInv
<1>0. /\ \A q \in Procs : run[q].job \in Jobs /\ run'[q].job \in Jobs
      /\ \A q \in Procs : run[q].gen \in Nat
      /\ \A k \in Jobs : jobs[k].gen \in Nat /\ IsFiniteSet(Findings[k])
  <2>1. \A k \in Jobs : IsFiniteSet(Findings[k])
    BY ScanCounts DEF RestartInv
  <2> QED
    BY <2>1 DEF TypeOK, Runs, JobRows
<1>1. ASSUME proposals' = proposals,
             \A k \in Jobs :
               \/ /\ jobs'[k].status = jobs[k].status
                  /\ jobs'[k].current = jobs[k].current /\ jobs'[k].error = jobs[k].error
               \/ jobs'[k].status \in {"queued", "running"}
      PROVE  ReportsRight'
  BY <1>1 DEF ReportsRight, Findings
<1>6. proposals' = proposals => Findings' = Findings
  BY DEF Findings
<1>2. CASE UNCHANGED vars
  <2>1. proposals' = proposals /\ jobs' = jobs /\ run' = run
    BY <1>2 DEF vars
  <2> QED
    BY <1>1, <1>6, <2>1 DEF CountRight, Current
<1>3. ASSUME NEW p \in Procs, Work(p) PROVE CountRight' /\ ReportsRight'
  <2> DEFINE j == run[p].job
  <2>0. /\ \A q \in Procs : q # p => run'[q] = run[q]
        /\ \A k \in Jobs : jobs'[k].gen = jobs[k].gen
        /\ Active(p) /\ j \in Jobs
        /\ \/ run'[p].pc = "idle"
           \/ run'[p].job = j /\ run'[p].gen = run[p].gen
    BY <1>0, <1>3, WorkFrame
  <2>1. ASSUME Fenced(p), NEW q \in Procs, q # p, run[q].pc \in Loop \cup {"progress"},
               Current(q)
        PROVE  run[q].job # j
    BY <2>0, <2>1 DEF DistinctGenerations, Active, Current, Fenced, Holds, Loop
  <2>2. CASE Unwritten(p)
    <3>1. proposals' = proposals /\ jobs' = jobs
      BY <2>2 DEF Unwritten, table
    <3>2. ReportsRight' /\ Findings' = Findings
      BY <1>1, <1>6, <3>1
    <3>3. Cardinality(Reviewed(j)) = Cardinality(Findings[j])
      BY <2>0, ScanCounts DEF RestartInv
    <3>4. run'[p].pc \in Loop \cup {"progress"} /\ Current(p)' =>
            /\ run'[p].count = Cardinality(Findings[j])
            /\ run'[p].pc \in Loop /\ jobs[j].status = "running"
                 => jobs[j].current = run'[p].count
      BY <2>0, <2>2, <3>1, <3>3 DEF Unwritten, LoopAt, CountRight, Current, Loop
    <3> QED
      BY <1>0, <2>0, <3>1, <3>2, <3>4 DEF CountRight, Current, Loop
  <2>3. CASE Progress(p)
    <3>1. /\ proposals' = proposals /\ Fenced(p) /\ jobs'[j].status = "running"
          /\ \A k \in Jobs : k # j => jobs'[k] = jobs[k]
      BY <2>3 DEF Progress, OtherRowsStay
    <3>2. ReportsRight' /\ Findings' = Findings
      BY <1>1, <1>6, <3>1
    <3>3. Current(p) /\ jobs[j].status = "running"
      BY <3>1 DEF Fenced, Holds, Current
    <3>4. run'[p].pc \in Loop \cup {"progress"} =>
            /\ run'[p].count = Cardinality(Findings[j])
            /\ run'[p].pc \in Loop => jobs'[j].current = run'[p].count
      BY <2>3, <3>3 DEF Progress, LoopAt, CountRight, Loop, AtOpenRef
    <3> QED
      BY <1>0, <2>0, <2>1, <3>1, <3>2, <3>4 DEF CountRight, Current, Loop
  <2>4. CASE Ended(p)
    <3>1. /\ proposals' = proposals /\ Fenced(p) /\ run'[p].pc = "idle"
          /\ \A k \in Jobs : k # j => jobs'[k] = jobs[k]
      BY <2>4 DEF Ended, OtherRowsStay
    <3>2. Findings' = Findings
      BY <1>1, <1>6, <3>1
    <3>3. CountRight'
      BY <1>0, <2>0, <2>1, <3>1, <3>2 DEF CountRight, Current, Loop
    <3>4. Current(p) /\ jobs[j].status = "running"
      BY <3>1 DEF Fenced, Holds, Current
    <3>5. /\ jobs'[j].status = "completed" => jobs'[j].current = Cardinality(Findings[j])
          /\ jobs'[j].status = "failed" /\ jobs'[j].error = "transient_io"
               => Findings[j] = {}
      <4>1. CASE run[p].pc = "document"
        <5>1. run[p].count = Cardinality(Findings[j]) /\ jobs[j].current = run[p].count
          BY <3>4, <4>1 DEF CountRight, Loop
        <5>2. Cardinality(Findings[j]) = 0 => Findings[j] = {}
          BY <1>0, <2>0, FS_EmptySet
        <5> QED
          BY <2>4, <5>1, <5>2 DEF Ended
      <4>2. CASE run[p].pc # "document"
        BY <2>4, <4>2 DEF Ended
      <4> QED
        BY <4>1, <4>2
    <3> QED
      BY <1>0, <2>0, <3>1, <3>2, <3>3, <3>5 DEF ReportsRight
  <2>5. CASE Recorded(p)
    <3>1. /\ Fenced(p) /\ jobs'[j].status = "running" /\ run'[p].pc = "document"
          /\ \A k \in Jobs : k # j => jobs'[k] = jobs[k]
      BY <2>5 DEF Recorded, OtherRowsStay
    <3>2. Current(p) /\ jobs[j].status = "running"
      BY <3>1 DEF Fenced, Holds, Current
    <3>3. run[p].pc \in {"record", "skip"}
      BY <2>5 DEF Recorded
    <3>4. run[p].count = Cardinality(Findings[j]) /\ jobs[j].current = run[p].count
      BY <3>2, <3>3 DEF CountRight, Loop
    <3>5. /\ run'[p].count = Cardinality(Findings'[j])
          /\ jobs'[j].current = run'[p].count
          /\ \A k \in Jobs : k # j => Findings'[k] = Findings[k]
      <4>1. CASE run[p].pc = "record"
        BY <2>5, <3>1, <3>4, <4>1, FindingsGrow DEF Recorded
      <4>2. CASE run[p].pc = "skip"
        <5>1. proposals' = proposals
          BY <2>5, <4>2 DEF Recorded
        <5>2. Findings' = Findings
          BY <1>6, <5>1
        <5> QED
          BY <2>5, <3>4, <4>2, <5>2 DEF Recorded
      <4> QED
        BY <3>3, <4>1, <4>2
    <3>6. CountRight'
      BY <1>0, <2>0, <2>1, <3>1, <3>5 DEF CountRight, Current, Loop
    <3> QED
      BY <1>0, <2>0, <3>1, <3>5, <3>6 DEF ReportsRight
  <2> QED
    BY <1>3, <2>2, <2>3, <2>4, <2>5, WorkEffects
<1>4. ASSUME NEW p \in Procs, NEW j \in Jobs, Claim(p, j)
      PROVE  CountRight' /\ ReportsRight'
  <2>1. /\ proposals' = proposals /\ jobs'[j].status = "running"
        /\ jobs'[j].gen = jobs[j].gen + 1
        /\ \A k \in Jobs : k # j => jobs'[k] = jobs[k]
        /\ \A q \in Procs : q # p => run'[q] = run[q]
        /\ run'[p].pc = "dispatch"
    BY <1>4, ClaimEffects
  <2>2. ASSUME NEW q \in Procs, Active(q), q # p, Current(q)'
        PROVE  Current(q) /\ run[q].job # j
    <3>1. run'[q] = run[q] /\ run[q].gen <= jobs[run[q].job].gen
      BY <2>1, <2>2 DEF GenerationsBounded
    <3> QED
      BY <1>0, <2>1, <2>2, <3>1 DEF Current
  <2>3. ReportsRight' /\ Findings' = Findings
    BY <1>1, <1>6, <2>1
  <2> QED
    BY <1>0, <2>1, <2>2, <2>3 DEF CountRight, Active, Loop
<1>5. ASSUME Next, ~(\E p \in Procs : Work(p) \/ \E j \in Jobs : Claim(p, j))
      PROVE  CountRight' /\ ReportsRight'
  <2>1. /\ \A q \in Procs : run'[q] = run[q] \/ run'[q].pc = "idle"
        /\ proposals' = proposals
    BY <1>5, OwnerEffects
  <2>2. \A k \in Jobs :
          /\ jobs'[k].gen = jobs[k].gen
          /\ \/ /\ jobs'[k].status = jobs[k].status /\ jobs'[k].current = jobs[k].current
                /\ jobs'[k].error = jobs[k].error
             \/ jobs'[k].status = "queued"
    BY <1>5, OwnerEffects DEF OwnerTouches
  <2>3. ReportsRight' /\ Findings' = Findings
    BY <1>1, <1>6, <2>1, <2>2
  <2> QED
    BY <1>0, <2>1, <2>2, <2>3 DEF CountRight, Current, Loop
<1> QED
  BY <1>2, <1>3, <1>4, <1>5 DEF Next

LEMMA PromptInit == Init => PromptRight
  BY IdleTypes DEF Init, PromptRight

LEMMA ReportInit == Init => CountRight /\ ReportsRight
<1> SUFFICES ASSUME Init PROVE CountRight /\ ReportsRight
  OBVIOUS
<1>1. \A j \in Jobs : jobs[j].status = "queued"
  BY DEF Init, NewJobRow
<1> QED
  BY <1>1, IdleTypes DEF Init, CountRight, ReportsRight, Loop

\* After the owner asks for a cancel at most the outcome in flight is still
\* recorded, whatever overlapping requests, crashes and reclaims there are.
THEOREM CancelsArePrompt == Spec => []CancelIsPrompt
<1>1. FenceInv /\ RestartInv /\ PromptRight /\ [Next]_vars => PromptRight'
  BY StepInv, PromptStep DEF FenceInv
<1>2. PromptRight => CancelIsPrompt
  BY DEF PromptRight, CancelIsPrompt
<1> QED
  BY <1>1, <1>2, PromptInit, InvariantHolds, PTL DEF Spec

\* The count a completed job shows is the number of its proposals, and a job
\* that failed as transient_io has none, for any number of overlapping requests.
THEOREM ReportsHold ==
  ASSUME DistinctRefs
  PROVE  Spec => []ReportsAreTrue
<1>1. FenceInv /\ RestartInv /\ CountRight /\ ReportsRight /\ [Next]_vars
        => (CountRight /\ ReportsRight)'
  BY StepInv, ReportStep DEF FenceInv
<1>2. ReportsRight => ReportsAreTrue
  BY DEF ReportsRight, Findings, ReportsAreTrue, CompletedCountIsTrue,
     TransientMeansNothingReviewed, Reviewed
<1> QED
  BY <1>1, <1>2, ReportInit, InvariantHolds, PTL DEF Spec

-----------------------------------------------------------------------------
(* The runtime implements the contract                                     *)

\* At most one request of the owner is under way.
OneRequest == \A r, s \in Requests : r = s

\* A skip belongs to a reference and to an attempt that has been made, and
\* lies behind the loop of the run that recorded it.
SkipsRight ==
  \A x \in skips :
    /\ x.pos \in DOMAIN Refs[x.job] /\ x.gen <= jobs[x.job].gen
    /\ \A p \in Procs : Active(p) /\ run[p].job = x.job /\ run[p].gen = x.gen
         => x.pos < run[p].pos

\* What is behind a loop has been found, or skipped in the same attempt.
LoopCovered ==
  \A p \in Procs :
    /\ run[p].pc \in {"dispatch", "start", "progress"} => run[p].pos = 0
    /\ run[p].pc \in Loop \cup {"progress"} => run[p].reviewed \subseteq Reviewed(run[p].job)
    /\ run[p].pc \in Loop => \A i \in 1 .. run[p].pos - 1 :
         \/ \E x \in proposals : x.job = run[p].job /\ x.pos = i
         \/ \E x \in skips : x.job = run[p].job /\ x.gen = run[p].gen /\ x.pos = i

\* The retry under way will find the row as it read it.
RetryRight ==
  \A r \in Requests : req[r].kind = "retry" => jobs[req[r].job].status = "failed"

LEMMA SkipsStep ==
  ASSUME FenceInv, RestartInv, TypeOK', SkipsRight, [Next]_vars
  PROVE  SkipsRight'
<1> USE DEF FenceInv
<1>0. /\ \A q \in Procs : /\ run[q].job \in Jobs /\ run[q].pos \in Nat
                          /\ run[q].gen \in Nat
      /\ \A k \in Jobs : jobs[k].gen \in Nat
      /\ \A x \in skips : x.job \in Jobs /\ x.gen \in Nat /\ x.pos \in Nat
  BY DEF TypeOK, Runs, JobRows, Outcomes
<1>1. CASE UNCHANGED vars
  BY <1>1 DEF vars, SkipsRight, Active
<1>2. ASSUME NEW p \in Procs, Work(p) PROVE SkipsRight'
  <2>0. /\ \A q \in Procs : q # p => run'[q] = run[q]
        /\ \A k \in Jobs : jobs'[k].gen = jobs[k].gen
        /\ Active(p)
        /\ \/ run'[p].pc = "idle"
           \/ run'[p].job = run[p].job /\ run'[p].gen = run[p].gen
    BY <1>2, WorkFrame
  <2>1. run'[p].pc = "idle" \/ run'[p].pos \in {run[p].pos, run[p].pos + 1}
    BY <1>2, WorkEffects DEF Unwritten, Progress, Ended, Recorded, LoopAt
  <2>2. CASE skips' = skips
    BY <1>0, <2>0, <2>1, <2>2 DEF SkipsRight, Active
  <2>3. CASE skips' # skips
    <3> DEFINE x == [job |-> run[p].job, pos |-> run[p].pos, gen |-> run[p].gen]
    <3>1. /\ Fenced(p) /\ run[p].pc = "skip" /\ skips' = skips \cup {x}
          /\ run'[p].pc = "document" /\ run'[p].pos = run[p].pos + 1
      BY <1>2, <2>3, WorkEffects DEF Unwritten, Progress, Ended, Recorded, table
    <3>2. /\ x.job = run[p].job /\ x.pos = run[p].pos /\ x.gen = run[p].gen
          /\ x.pos \in DOMAIN Refs[x.job] /\ x.gen = jobs[x.job].gen
      BY <3>1 DEF RestartInv, OpenReference, Fenced, Holds
    <3> HIDE DEF x
    <3>3. \A q \in Procs : Active(q) /\ run[q].job = x.job /\ run[q].gen = x.gen => q = p
      BY <2>0, <3>2 DEF DistinctGenerations
    <3>4. \A y \in skips :
            /\ y.pos \in DOMAIN Refs[y.job] /\ y.gen <= jobs'[y.job].gen
            /\ \A q \in Procs : Active(q)' /\ run'[q].job = y.job /\ run'[q].gen = y.gen
                 => y.pos < run'[q].pos
      BY <1>0, <2>0, <3>1 DEF SkipsRight, Active
    <3>5. /\ x.gen <= jobs'[x.job].gen
          /\ \A q \in Procs : Active(q)' /\ run'[q].job = x.job /\ run'[q].gen = x.gen
               => x.pos < run'[q].pos
      BY <1>0, <2>0, <3>1, <3>2, <3>3 DEF Active
    <3> QED
      BY <3>1, <3>2, <3>4, <3>5 DEF SkipsRight
  <2> QED
    BY <2>2, <2>3
<1>3. ASSUME NEW p \in Procs, NEW j \in Jobs, Claim(p, j) PROVE SkipsRight'
  <2>1. /\ skips' = skips /\ jobs'[j].gen = jobs[j].gen + 1
        /\ \A k \in Jobs : k # j => jobs'[k] = jobs[k]
        /\ \A q \in Procs : q # p => run'[q] = run[q]
        /\ run'[p].job = j /\ run'[p].gen = jobs[j].gen + 1
    BY <1>3, ClaimEffects
  <2> QED
    BY <1>0, <2>1 DEF SkipsRight, Active
<1>4. ASSUME Next, ~(\E p \in Procs : Work(p) \/ \E j \in Jobs : Claim(p, j))
      PROVE  SkipsRight'
  <2>1. /\ \A q \in Procs : run'[q] = run[q] \/ run'[q].pc = "idle"
        /\ skips' = skips /\ \A k \in Jobs : jobs'[k].gen = jobs[k].gen
    BY <1>4, OwnerEffects, OwnerFrame
  <2> QED
    BY <1>0, <2>1 DEF SkipsRight, Active
<1> QED
  BY <1>1, <1>2, <1>3, <1>4 DEF Next

\* Nothing recorded is forgotten, and what has been reviewed stays so.
LEMMA OutcomesGrow ==
  ASSUME TypeOK, [Next]_vars
  PROVE  /\ proposals \subseteq proposals' /\ skips \subseteq skips'
         /\ \A k \in Jobs : Reviewed(k) \subseteq Reviewed(k)'
<1>1. proposals \subseteq proposals' /\ skips \subseteq skips'
  BY WorkEffects, ClaimEffects, OwnerEffects
     DEF Next, vars, Unwritten, Progress, Ended, Recorded, table
<1> QED
  BY <1>1 DEF Reviewed

\* LoopCovered, for one run.
CoveredFor(p) ==
  /\ run[p].pc \in {"dispatch", "start", "progress"} => run[p].pos = 0
  /\ run[p].pc \in Loop \cup {"progress"} => run[p].reviewed \subseteq Reviewed(run[p].job)
  /\ run[p].pc \in Loop => \A i \in 1 .. run[p].pos - 1 :
       \/ \E x \in proposals : x.job = run[p].job /\ x.pos = i
       \/ \E x \in skips : x.job = run[p].job /\ x.gen = run[p].gen /\ x.pos = i

LEMMA CoveredStep ==
  ASSUME DistinctRefs, FenceInv, TypeOK', LoopCovered, [Next]_vars
  PROVE  LoopCovered'
<1> USE DEF FenceInv
<1>0. \A q \in Procs : run[q].job \in Jobs /\ run[q].pos \in Nat /\ CoveredFor(q)
  BY DEF TypeOK, Runs, LoopCovered, CoveredFor
<1>1. /\ proposals \subseteq proposals' /\ skips \subseteq skips'
      /\ \A k \in Jobs : Reviewed(k) \subseteq Reviewed(k)'
  BY OutcomesGrow
<1> SUFFICES ASSUME NEW p \in Procs PROVE CoveredFor(p)'
  BY DEF LoopCovered, CoveredFor
<1> DEFINE j == run[p].job
           g == run[p].gen
<1>2. CASE run'[p] = run[p] \/ run'[p].pc = "idle"
  BY <1>0, <1>1, <1>2 DEF CoveredFor, Loop
<1>3. CASE \E k \in Jobs : Claim(p, k)
  <2>1. run'[p].pc = "dispatch" /\ run'[p].pos = 0
    BY <1>3, ClaimEffects
  <2> QED
    BY <2>1 DEF CoveredFor, Loop
<1>4. CASE Work(p) /\ run'[p].pc # "idle"
  <2>0. /\ run'[p].job = j /\ run'[p].gen = g /\ j \in Jobs
        /\ run[p].pos \in Nat
    BY <1>0, <1>4, WorkFrame
  <2>1. ASSUME run[p].pc \in Loop \cup {"progress"}, run'[p].pc \in Loop,
               run'[p].reviewed = run[p].reviewed, run'[p].pos = run[p].pos + 1,
               run[p].pc \in Loop =>
                 \/ \E x \in proposals' : x.job = j /\ x.pos = run[p].pos
                 \/ \E x \in skips' : x.job = j /\ x.gen = g /\ x.pos = run[p].pos
        PROVE  CoveredFor(p)'
    <3>1. run'[p].reviewed \subseteq Reviewed(j)'
      BY <1>0, <1>1, <2>0, <2>1 DEF CoveredFor
    <3>2. ASSUME NEW i \in 1 .. run[p].pos
          PROVE  \/ \E x \in proposals' : x.job = j /\ x.pos = i
                 \/ \E x \in skips' : x.job = j /\ x.gen = g /\ x.pos = i
      <4>1. CASE i = run[p].pos /\ run[p].pc \in Loop
        BY <2>1, <4>1
      <4>2. CASE i < run[p].pos /\ run[p].pc \in Loop
        <5>1. i \in 1 .. run[p].pos - 1
          BY <2>0, <4>2
        <5> QED
          BY <1>0, <1>1, <4>2, <5>1 DEF CoveredFor
      <4>3. CASE run[p].pc = "progress"
        BY <1>0, <4>3 DEF CoveredFor
      <4> QED
        BY <2>0, <2>1, <4>1, <4>2, <4>3
    <3>3. run'[p].pos - 1 = run[p].pos
      BY <2>0, <2>1
    <3> QED
      BY <2>0, <2>1, <3>1, <3>2, <3>3 DEF CoveredFor, Loop
  <2>2. ASSUME run[p].pc \in Loop, run'[p].reviewed = run[p].reviewed,
               run'[p].pos = run[p].pos, run'[p].pc \in Loop
        PROVE  CoveredFor(p)'
    BY <1>0, <1>1, <2>0, <2>2 DEF CoveredFor, Loop
  <2>3. CASE Unwritten(p)
    <3>1. CASE run[p].pc = "start" /\ run'[p].pc = "progress"
      BY <1>0, <1>1, <2>0, <2>3, <3>1 DEF Unwritten, LoopAt, CoveredFor, Loop
    <3>2. CASE /\ run[p].pc = "document" /\ run[p].pos \in DOMAIN Refs[j]
               /\ Refs[j][run[p].pos] \in run[p].reviewed
               /\ LoopAt(p, "document", run[p].pos + 1)
      <4>1. Refs[j][run[p].pos] \in Reviewed(j)
        BY <1>0, <3>2 DEF CoveredFor, Loop
      <4>2. PICK x \in proposals : x.job = j /\ Refs[j][x.pos] = Refs[j][run[p].pos]
        BY <4>1 DEF Reviewed
      <4>3. x.pos \in DOMAIN Refs[j]
        BY <4>2 DEF ProposalsInRefs
      <4>4. x.pos = run[p].pos
        BY <2>0, <3>2, <4>2, <4>3 DEF DistinctRefs
      <4> QED
        BY <1>1, <2>1, <3>2, <4>2, <4>4 DEF LoopAt, Loop
    <3>3. CASE run[p].pc = "provider"
               /\ \E pc \in {"record", "skip"} : LoopAt(p, pc, run[p].pos)
      BY <2>2, <3>3 DEF LoopAt, Loop
    <3>4. CASE run'[p].pc = "fail"
      BY <3>4 DEF CoveredFor, Loop
    <3> QED
      BY <1>4, <2>3, <3>1, <3>2, <3>3, <3>4 DEF Unwritten
  <2>4. CASE Progress(p)
    <3>1. CASE run'[p].pc \in {"start", "unavailable"} /\ run[p].pc = "dispatch"
      BY <1>0, <2>4, <3>1 DEF Progress, LoopAt, CoveredFor, Loop, AtOpenRef
    <3>2. CASE run[p].pc = "progress" /\ LoopAt(p, "document", run[p].pos + 1)
      BY <2>1, <3>2 DEF LoopAt, Loop
    <3>3. CASE AtOpenRef(p) /\ \E pc \in {"provider", "skip"} : LoopAt(p, pc, run[p].pos)
      BY <2>2, <3>3 DEF LoopAt, Loop, AtOpenRef
    <3> QED
      BY <2>4, <3>1, <3>2, <3>3 DEF Progress
  <2>5. CASE Recorded(p)
    <3> DEFINE x == [job |-> j, pos |-> run[p].pos, gen |-> g]
    <3>1. \/ x \in proposals' \/ x \in skips'
      BY <2>5 DEF Recorded
    <3>2. /\ run[p].pc \in Loop /\ run'[p].pc \in Loop
          /\ run'[p].reviewed = run[p].reviewed /\ run'[p].pos = run[p].pos + 1
      BY <2>5 DEF Recorded, Loop
    <3>3. x.job = j /\ x.pos = run[p].pos /\ x.gen = g
      OBVIOUS
    <3> HIDE DEF x
    <3> QED
      BY <2>1, <3>1, <3>2, <3>3
  <2> QED
    BY <1>4, <2>3, <2>4, <2>5, WorkEffects DEF Ended
<1>5. \/ run'[p] = run[p] \/ run'[p].pc = "idle"
      \/ \E k \in Jobs : Claim(p, k)
      \/ Work(p)
  <2>1. ASSUME NEW q \in Procs, Work(q), q # p PROVE run'[p] = run[p]
    BY <2>1, WorkFrame
  <2>2. ASSUME NEW q \in Procs, NEW k \in Jobs, Claim(q, k), q # p PROVE run'[p] = run[p]
    BY <2>2, ClaimEffects
  <2>3. CASE ~(\E q \in Procs : Work(q) \/ \E k \in Jobs : Claim(q, k)) /\ Next
    BY <2>3, OwnerEffects
  <2>4. CASE UNCHANGED vars
    BY <2>4 DEF vars
  <2> QED
    BY <2>1, <2>2, <2>3, <2>4
<1> QED
  BY <1>2, <1>3, <1>4, <1>5

\* While one request is under way nobody else makes a failed job anything else.
LEMMA RetryStep ==
  ASSUME OneRequest, TypeOK, RetryRight, [Next]_vars
  PROVE  RetryRight'
<1>0. /\ \A j \in Jobs : jobs[j] \in JobRows(WorkerIds)
      /\ \A r \in Requests : req[r].job \in Jobs
      /\ DOMAIN req = Requests /\ DOMAIN jobs = Jobs
  BY DEF TypeOK
<1>1. CASE UNCHANGED vars
  BY <1>1 DEF vars, RetryRight
<1>2. ASSUME req' = req,
             \A j \in Jobs : jobs[j].status = "failed" => jobs'[j].status = "failed"
      PROVE  RetryRight'
  BY <1>0, <1>2 DEF RetryRight
<1>3. ASSUME NEW p \in Procs, Work(p) PROVE RetryRight'
  <2>1. req' = req
    BY <1>3 DEF Work, Dispatch, MarkUnavailable, ReadReviewed, InitialProgress,
       PassOver, Checkpoint, ProviderAnswers, RecordReviewed, RecordSkipped,
       MarkFailed, Finish
  <2>2. \A j \in Jobs : jobs[j].status = "failed" => jobs'[j].status = "failed"
    BY <1>3, WorkEffects DEF Unwritten, Progress, Ended, Recorded, OtherRowsStay,
       Fenced, Holds, table
  <2> QED
    BY <1>2, <2>1, <2>2
<1>4. ASSUME NEW p \in Procs, NEW j \in Jobs, Claim(p, j) PROVE RetryRight'
  <2>1. req' = req
    BY <1>4 DEF Claim
  <2> QED
    BY <1>2, <1>4, <2>1, ClaimEffects
<1>5. ASSUME NEW r \in Requests, Request(r) PROVE RetryRight'
  <2>1. Requests = {r}
    BY DEF OneRequest
  <2>2. CASE CommitCancel(r) \/ CommitRetry(r)
    BY <1>0, <2>1, <2>2 DEF CommitCancel, CommitRetry, RetryRight, IdleRequest
  <2>3. ASSUME NEW j \in Jobs, ReadForCancel(r, j) PROVE RetryRight'
    BY <1>0, <2>1, <2>3 DEF ReadForCancel, RetryRight, IdleRequest
  <2>4. ASSUME NEW j \in Jobs, ReadForRetry(r, j) PROVE RetryRight'
    BY <1>0, <2>1, <2>4 DEF ReadForRetry, RetryRight, Retryable, table
  <2> QED
    BY <1>5, <2>2, <2>3, <2>4 DEF Request
<1>6. ASSUME NEW p \in Procs, Crash(p) PROVE RetryRight'
  BY <1>2, <1>6 DEF Crash, table
<1>7. ASSUME NEW d \in Purgeable, Purge(d) PROVE RetryRight'
  BY <1>2, <1>7 DEF Purge, table
<1>8. ASSUME NEW j \in Jobs, LapseLease(j) PROVE RetryRight'
  BY <1>0, <1>2, <1>8 DEF LapseLease
<1> QED
  BY <1>1, <1>3, <1>4, <1>5, <1>6, <1>7, <1>8 DEF Next

\* The variables of the contract, as functions of the runtime's.
Status == [j \in Jobs |-> jobs[j].status]
Found == [j \in Jobs |-> {x.pos : x \in {y \in proposals : y.job = j}}]
Skipped == [j \in Jobs |-> {x.pos : x \in {y \in skips :
                                      y.job = j /\ y.gen = jobs[j].gen}}]

LEMMA ContractState ==
  /\ Contract!Init <=> /\ Status = [j \in Jobs |-> "queued"]
                       /\ Found = [j \in Jobs |-> {}]
                       /\ Skipped = [j \in Jobs |-> {}]
  /\ Contract!contractVars = <<Status, Found, Skipped>>
  BY DEF Contract!Init, Contract!contractVars, Status, Found, Skipped

\* How a step that keeps the generations shows in the contract.
LEMMA OutcomesMapped ==
  ASSUME TypeOK, NEW j \in Jobs, NEW i, NEW x, x.job = j, x.pos = i,
         \A k \in Jobs : jobs'[k].gen = jobs[k].gen
  PROVE  /\ proposals' = proposals => Found' = Found
         /\ skips' = skips => Skipped' = Skipped
         /\ proposals' = proposals \cup {x}
              => Found' = [Found EXCEPT ![j] = @ \cup {i}]
         /\ skips' = skips \cup {x} /\ x.gen = jobs[j].gen
              => Skipped' = [Skipped EXCEPT ![j] = @ \cup {i}]
<1>1. proposals' = proposals => Found' = Found
  BY DEF Found
<1>2. skips' = skips => Skipped' = Skipped
  BY DEF Skipped
<1>3. ASSUME proposals' = proposals \cup {x}
      PROVE  Found' = [Found EXCEPT ![j] = @ \cup {i}]
  <2> DEFINE now(k) == {z.pos : z \in {y \in proposals' : y.job = k}}
             old(k) == {z.pos : z \in {y \in proposals : y.job = k}}
  <2>1. now(j) = old(j) \cup {i}
    BY <1>3
  <2>2. \A k \in Jobs : k # j => now(k) = old(k)
    BY <1>3
  <2>3. Found' = [k \in Jobs |-> now(k)] /\ Found = [k \in Jobs |-> old(k)]
    BY DEF Found
  <2> HIDE DEF now, old
  <2> QED
    BY <2>1, <2>2, <2>3
<1>4. ASSUME skips' = skips \cup {x}, x.gen = jobs[j].gen
      PROVE  Skipped' = [Skipped EXCEPT ![j] = @ \cup {i}]
  <2> DEFINE now(k) == {z.pos : z \in {y \in skips' : y.job = k /\ y.gen = jobs'[k].gen}}
             old(k) == {z.pos : z \in {y \in skips : y.job = k /\ y.gen = jobs[k].gen}}
  <2>1. now(j) = old(j) \cup {i}
    BY <1>4
  <2>2. \A k \in Jobs : k # j => now(k) = old(k)
    BY <1>4
  <2>3. Skipped' = [k \in Jobs |-> now(k)] /\ Skipped = [k \in Jobs |-> old(k)]
    BY DEF Skipped
  <2> HIDE DEF now, old
  <2> QED
    BY <2>1, <2>2, <2>3
<1> QED
  BY <1>1, <1>2, <1>3, <1>4

\* Every step of the runtime is a step of the contract or leaves it alone.
LEMMA ContractStep ==
  ASSUME DistinctRefs, FenceInv, RestartInv, SkipsRight, LoopCovered, RetryRight,
         TypeOK', [Next]_vars
  PROVE  [Contract!Next]_(Contract!contractVars)
<1> USE DEF FenceInv
<1>0. /\ \A q \in Procs : run[q].job \in Jobs /\ run[q].pos \in Nat
      /\ DOMAIN jobs = Jobs /\ DOMAIN jobs' = Jobs
      /\ \A k \in Jobs : jobs[k].gen \in Nat
      /\ \A k \in Jobs : Status[k] = jobs[k].status
  BY DEF TypeOK, Runs, JobRows, Status
<1>1. Status' = Status /\ Found' = Found /\ Skipped' = Skipped
        => [Contract!Next]_(Contract!contractVars)
  BY DEF Contract!contractVars, Status, Found, Skipped
<1>2. ASSUME NEW j \in Jobs, NEW s, \A k \in Jobs : k # j => jobs'[k] = jobs[k],
             jobs'[j].status = s
      PROVE  Status' = [Status EXCEPT ![j] = s]
  BY <1>0, <1>2 DEF Status
<1>3. CASE UNCHANGED vars
  BY <1>1, <1>3 DEF vars, Status, Found, Skipped
<1>4. ASSUME NEW p \in Procs, Work(p), NEW j \in Jobs, j = run[p].job,
             NEW i \in Nat, i = run[p].pos
      PROVE  [Contract!Next]_(Contract!contractVars)
  <2>0. /\ j \in Jobs /\ \A k \in Jobs : jobs'[k].gen = jobs[k].gen
        /\ Fenced(p) => Status[j] = "running" /\ jobs[j].gen = run[p].gen
    BY <1>0, <1>4, WorkFrame DEF Fenced, Holds
  <2>1. CASE Unwritten(p)
    BY <1>4, <1>1, <2>1 DEF Unwritten, table, Status, Found, Skipped
  <2>2. CASE Progress(p)
    <3>1. Found' = Found /\ Skipped' = Skipped
      BY <1>4, <2>0, <2>2 DEF Progress, Found, Skipped
    <3>2. Status' = [Status EXCEPT ![j] = "running"]
      BY <1>4, <1>2, <2>0, <2>2 DEF Progress, OtherRowsStay
    <3>3. Status' = Status
      BY <1>4, <2>0, <2>2, <3>2 DEF Progress, Status
    <3> QED
      BY <1>4, <1>1, <3>1, <3>3
  <2>3. CASE Ended(p)
    <3>1. Found' = Found /\ Skipped' = Skipped
      BY <1>4, <2>0, <2>3 DEF Ended, Found, Skipped
    <3>2. Status' = [Status EXCEPT ![j] = jobs'[j].status]
      BY <1>4, <1>2, <2>0, <2>3 DEF Ended, OtherRowsStay
    <3>3. CASE jobs'[j].status \in {"failed", "cancelled"}
      <4>1. Contract!GiveUp(j)
        BY <1>4, <2>0, <2>3, <3>1, <3>2, <3>3
           DEF Ended, Contract!GiveUp, Status, Found, Skipped
      <4> QED
        BY <1>4, <2>0, <4>1 DEF Contract!Next
    <3>4. CASE jobs'[j].status = "completed"
      <4>1. run[p].pc = "document" /\ i > Len(Refs[j]) /\ Fenced(p)
        BY <1>4, <2>3, <3>4 DEF Ended
      <4>2. \A n \in 1 .. Len(Refs[j]) : n \in Found[j] \cup Skipped[j]
        <5>1. ASSUME NEW n \in 1 .. Len(Refs[j]) PROVE n \in Found[j] \cup Skipped[j]
          <6>1. n \in 1 .. i - 1
            BY <1>4, <1>0, <2>0, <4>1, RefTypes
          <6>2. \/ \E x \in proposals : x.job = j /\ x.pos = n
                \/ \E x \in skips : x.job = j /\ x.gen = run[p].gen /\ x.pos = n
            BY <1>4, <4>1, <6>1 DEF LoopCovered, Loop
          <6> QED
            BY <1>4, <2>0, <4>1, <6>2 DEF Found, Skipped
        <5> QED
          BY <5>1
      <4>3. Found[j] \cup Skipped[j] \subseteq DOMAIN Refs[j]
        BY <1>4, <2>0 DEF Found, Skipped, ProposalsInRefs, SkipsRight
      <4>4. Found[j] \cup Skipped[j] = RefsOf(j)
        BY <1>4, <2>0, <4>2, <4>3, RefTypes DEF RefsOf
      <4>5. Contract!Complete(j)
        BY <1>4, <2>0, <3>1, <3>2, <3>4, <4>1, <4>4
           DEF Contract!Complete, Status, Found, Skipped
      <4> QED
        BY <1>4, <2>0, <4>5 DEF Contract!Next
    <3> QED
      BY <1>4, <2>3, <3>3, <3>4 DEF Ended
  <2>4. CASE Recorded(p)
    <3> DEFINE x == [job |-> j, pos |-> i, gen |-> run[p].gen]
    <3>0. x.job = j /\ x.pos = i /\ x.gen = run[p].gen
      OBVIOUS
    <3>1. Fenced(p) /\ run[p].pc \in {"record", "skip"}
      BY <1>4, <2>4 DEF Recorded
    <3>2. Status' = Status
      <4>1. Status' = [Status EXCEPT ![j] = "running"]
        BY <1>4, <1>2, <2>0, <2>4 DEF Recorded, OtherRowsStay
      <4> QED
        BY <1>4, <2>0, <3>1, <4>1 DEF Status
    <3>3. i \in RefsOf(j)
      BY <1>4, <3>1 DEF RestartInv, OpenReference, RefsOf
    <3>4. i \notin Found[j]
      <4>1. \A y \in proposals : y.job = j => Known(p, y)
        BY <1>4, <2>0, <3>1 DEF RestartInv, SnapshotCovers, Fenced, Holds
      <4>2. \A y \in proposals : y.job = j => y.pos # i
        BY <1>4, <1>0, <2>0, <3>1, <4>1 DEF Known, RestartInv, OpenReference
      <4> QED
        BY <1>4, <2>0, <4>2 DEF Found
    <3>5. i \notin Skipped[j]
      <4>1. \A y \in skips : y.job = j /\ y.gen = jobs[j].gen => y.pos < i
        BY <1>4, <2>0, <3>1 DEF SkipsRight, Active
      <4>2. \A y \in skips : y.job = j /\ y.gen = jobs[j].gen => y.pos # i
        BY <1>4, <1>0, <4>1
      <4> QED
        BY <1>4, <2>0, <4>2 DEF Skipped
    <3>6. CASE proposals' = proposals \cup {x} /\ skips' = skips
      <4>1. Found' = [Found EXCEPT ![j] = @ \cup {i}] /\ Skipped' = Skipped
        BY <1>4, <2>0, <3>0, <3>6, OutcomesMapped
      <4>2. Contract!Find(j, i)
        BY <1>4, <2>0, <3>1, <3>2, <3>4, <3>5, <4>1
           DEF Contract!Find, Status, Found, Skipped
      <4> QED
        BY <1>4, <2>0, <3>3, <4>2 DEF Contract!Next
    <3>7. CASE skips' = skips \cup {x} /\ proposals' = proposals
      <4>1. Skipped' = [Skipped EXCEPT ![j] = @ \cup {i}] /\ Found' = Found
        BY <1>4, <2>0, <3>0, <3>1, <3>7, OutcomesMapped
      <4>2. Contract!Skip(j, i)
        BY <1>4, <2>0, <3>1, <3>2, <3>4, <3>5, <4>1
           DEF Contract!Skip, Status, Found, Skipped
      <4> QED
        BY <1>4, <2>0, <3>3, <4>2 DEF Contract!Next
    <3> QED
      BY <1>4, <2>4, <3>6, <3>7 DEF Recorded
  <2> QED
    BY <1>4, <2>1, <2>2, <2>3, <2>4, WorkEffects
<1>5. ASSUME NEW p \in Procs, NEW j \in Jobs, Claim(p, j)
      PROVE  [Contract!Next]_(Contract!contractVars)
  <2>1. /\ UNCHANGED <<proposals, skips, afterCancel>>
        /\ jobs[j].status \in {"queued", "running"}
        /\ jobs'[j].status = "running" /\ jobs'[j].gen = jobs[j].gen + 1
        /\ \A k \in Jobs : k # j => jobs'[k] = jobs[k]
    BY <1>5, ClaimEffects
  <2>2. Found' = Found /\ Status' = [Status EXCEPT ![j] = "running"]
    BY <1>2, <2>1 DEF Found
  <2>3. Skipped' = [Skipped EXCEPT ![j] = {}]
    <3> DEFINE now(k) == {z.pos : z \in {y \in skips' : y.job = k /\ y.gen = jobs'[k].gen}}
               old(k) == {z.pos : z \in {y \in skips : y.job = k /\ y.gen = jobs[k].gen}}
    <3>1. \A y \in skips : y.job = j => y.gen # jobs'[j].gen
      <4>1. \A y \in skips : y.job = j => y.gen <= jobs[j].gen /\ y.gen \in Nat
        BY DEF SkipsRight, TypeOK, Outcomes
      <4> QED
        BY <1>0, <2>1, <4>1
    <3>2. now(j) = {}
      BY <2>1, <3>1
    <3>3. \A k \in Jobs : k # j => now(k) = old(k)
      BY <2>1
    <3>4. Skipped' = [k \in Jobs |-> now(k)] /\ Skipped = [k \in Jobs |-> old(k)]
      BY DEF Skipped
    <3> HIDE DEF now, old
    <3> QED
      BY <3>2, <3>3, <3>4
  <2>4. Contract!Attempt(j)
    BY <1>0, <2>1, <2>2, <2>3 DEF Contract!Attempt, Status, Found, Skipped
  <2> QED
    BY <2>4 DEF Contract!Next
<1>6. ASSUME Next, ~(\E p \in Procs : Work(p) \/ \E j \in Jobs : Claim(p, j))
      PROVE  [Contract!Next]_(Contract!contractVars)
  <2>1. PICK k \in Jobs : /\ OwnerTouches(k)
                          /\ \A l \in Jobs : l # k => jobs'[l] = jobs[l]
    BY <1>6, OwnerEffects
  <2>2. /\ proposals' = proposals /\ skips' = skips
        /\ \A l \in Jobs : jobs'[l].gen = jobs[l].gen
    BY <1>6, <2>1, OwnerEffects DEF OwnerTouches
  <2>3. Found' = Found /\ Skipped' = Skipped
    BY <2>2 DEF Found, Skipped
  <2>4. CASE jobs'[k].status = jobs[k].status
    <3>1. Status' = Status
      BY <2>1, <2>4 DEF Status
    <3> QED
      BY <1>1, <2>3, <3>1
  <2>5. CASE jobs[k].status = "failed" /\ jobs'[k].status = "queued"
    <3>1. Status' = [Status EXCEPT ![k] = "queued"]
      BY <1>2, <2>1, <2>5
    <3>2. Contract!Retry(k)
      BY <1>0, <2>3, <2>5, <3>1 DEF Contract!Retry, Status, Found, Skipped
    <3> QED
      BY <3>2 DEF Contract!Next
  <2> QED
    BY <2>1, <2>4, <2>5 DEF OwnerTouches, RetryRight
<1> QED
  BY <1>0, <1>3, <1>4, <1>5, <1>6

LEMMA ContractInit ==
  Init => Contract!Init /\ SkipsRight /\ LoopCovered /\ RetryRight
<1> SUFFICES ASSUME Init PROVE Contract!Init /\ SkipsRight /\ LoopCovered /\ RetryRight
  OBVIOUS
<1>1. Contract!Init
  BY DEF Init, Contract!Init, NewJobRow
<1>2. SkipsRight /\ LoopCovered
  BY IdleTypes DEF Init, SkipsRight, LoopCovered, Loop
<1>3. RetryRight
  BY DEF Init, RetryRight, IdleRequest
<1> QED
  BY <1>1, <1>2, <1>3

\* With workers, leases, generations, crashes and restarts the runtime keeps
\* the contract of ReviewContract, as long as the owner sends one request at a
\* time: every reference is found or visibly skipped before a job completes,
\* nothing is found twice, and an ended job stays ended unless it is retried.
THEOREM RuntimeKeepsContract ==
  ASSUME DistinctRefs, OneRequest
  PROVE  Spec => KeepsContract
<1> DEFINE Inv == FenceInv /\ RestartInv
           CInv == SkipsRight /\ LoopCovered /\ RetryRight
<1>1. Inv /\ Inv' /\ CInv /\ [Next]_vars => CInv'
  BY SkipsStep, CoveredStep, RetryStep DEF FenceInv
<1>2. Inv /\ Inv' /\ CInv /\ [Next]_vars => [Contract!Next]_(Contract!contractVars)
  BY ContractStep DEF FenceInv
<1>3. Init => Contract!Init /\ CInv
  BY ContractInit
<1>4. Spec => []Inv
  BY InvariantHolds
<1> HIDE DEF Inv, CInv
<1> QED
  BY <1>1, <1>2, <1>3, <1>4, PTL DEF Spec, KeepsContract, Contract!Spec

=============================================================================
