----------------------------- MODULE MainAIJob -----------------------------
(***************************************************************************)
(* One row of mainai_jobs and the statements that write it.                *)
(*                                                                         *)
(* Everything here is a constant-level operator from a row to a row: the   *)
(* specifications of the job handlers apply these to their job table, one  *)
(* statement per step.  Wall-clock time is abstracted to what the claim    *)
(* query compares: a lease is live (lease_expires_at >= now()) or expired. *)
(***************************************************************************)
EXTENDS Integers

\* SQL NULL in an integer column.
NULL == -1

Statuses == {"queued", "running", "completed", "failed", "cancelled",
             "superseded"}
TerminalStatuses == {"completed", "failed", "cancelled", "superseded"}

ErrorCategories == {"none", "transient_io", "unexpected",
                    "capability_unavailable"}

Leases == {"none", "live", "expired"}

\* The columns the runtime's control depends on; completed_at, started_at and
\* public_message follow from status, provider/model/phase only from the work.
JobRows(workerIds) ==
  [status : Statuses, lockedBy : workerIds \cup {"none"}, gen : Nat,
   lease : Leases, current : Nat, total : Nat \cup {NULL},
   retries : Nat, error : ErrorCategories,
   cancelRequested : BOOLEAN, cancelAcknowledged : BOOLEAN]

NewJobRow ==
  [status |-> "queued", lockedBy |-> "none", gen |-> 0, lease |-> "none",
   current |-> 0, total |-> NULL, retries |-> 0, error |-> "none",
   cancelRequested |-> FALSE, cancelAcknowledged |-> FALSE]

-----------------------------------------------------------------------------
(* Claim and lease: app/jobs/mainai_job_lease.py                           *)

\* Mutant: an abandoned claim is never taken over.
ClaimableQueuedOnly(row) == row.status = "queued"

\* The WHERE clause of the claim query, for every type but task_execution.
Claimable(row) ==
  \/ row.status = "queued"
  \/ row.status = "running" /\ row.lease = "expired"

\* The SET clause: the generation is bumped on a fresh claim and a reclaim.
Claimed(row, worker) ==
  [row EXCEPT !.status = "running", !.lockedBy = worker,
              !.gen = @ + 1, !.lease = "live"]

\* Mutant: worker_id alone as the fencing key.
HoldsByWorkerId(row, worker, generation) ==
  row.status = "running" /\ row.lockedBy = worker

\* The fencing condition every worker-driven UPDATE repeats in its WHERE.
Holds(row, worker, generation) ==
  /\ row.status = "running"
  /\ row.lockedBy = worker
  /\ row.gen = generation

Renewed(row) == [row EXCEPT !.lease = "live"]

-----------------------------------------------------------------------------
(* Constraints the database adds to every UPDATE: migrations 0028 and 0029 *)

\* CHECK ck_mainai_jobs_progress_current_le_total.
ProgressWithinTotal(row) == row.total # NULL => row.current <= row.total

\* BEFORE UPDATE trigger mainai_jobs_deny_progress_regression.
NoProgressRegression(old, new) ==
  \/ new.current >= old.current
  \/ old.status = "failed" /\ new.status = "queued" /\ new.current = 0

\* An UPDATE the database accepts; otherwise it raises and rolls back.
Accepts(old, new) == ProgressWithinTotal(new) /\ NoProgressRegression(old, new)

-----------------------------------------------------------------------------
(* The worker-driven writes: app/jobs/service.py                           *)

Progressed(row, current, total) ==
  [row EXCEPT !.current = current, !.total = total]

Completed(row) == [row EXCEPT !.status = "completed"]

Failed(row, category) == [row EXCEPT !.status = "failed", !.error = category]

Cancelled(row) ==
  [row EXCEPT !.status = "cancelled", !.cancelAcknowledged = TRUE]

-----------------------------------------------------------------------------
(* The owner-driven writes: request_cancel and retry_job                   *)
(*                                                                         *)
(* Both load the row with the ORM, check it in Python and flush an UPDATE  *)
(* by primary key.  The flush writes only the attributes whose value       *)
(* differs from the one that was loaded, so the new row depends on the row *)
(* read and on the row the UPDATE finds.                                   *)

Cancellable(row) == row.status \in {"queued", "running"}

CancelRequested(row) == [row EXCEPT !.cancelRequested = TRUE]

Retryable(row, maxRetries) ==
  row.status = "failed" /\ row.retries < maxRetries

\* "read" is the row as loaded, "row" the row the UPDATE overwrites.
Retried(row, read) ==
  [row EXCEPT
     !.status = "queued",
     !.retries = read.retries + 1,
     !.error = IF read.error = "none" THEN @ ELSE "none",
     !.cancelRequested = @ /\ ~read.cancelRequested,
     !.cancelAcknowledged = @ /\ ~read.cancelAcknowledged,
     !.current = IF read.current = 0 THEN @ ELSE 0,
     !.total = IF read.total = NULL THEN @ ELSE NULL]

=============================================================================
