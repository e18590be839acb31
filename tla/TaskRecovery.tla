---------------------------- MODULE TaskRecovery ----------------------------
(***************************************************************************)
(* The execution of one repo_edit task with GitHub writes enabled, and the *)
(* recovery of its dead jobs: dispatch (executor.py), the runner with its  *)
(* checkpoints, worktree and push (execution_job.py, worktree.py), and     *)
(* detect, inspect, classify, salvage and takeover (recovery_*.py) by the  *)
(* worker's tick or the founder's /recover.                                *)
(*                                                                         *)
(* A step of a runner is what it does between two commits.  A job of this  *)
(* type is claimed from queued only, hence once: a write by a runner holds *)
(* exactly while its job is running, whatever its lease says.  Every       *)
(* worktree starts at the base commit and gets at most one commit, so a    *)
(* commit is named by the job that made the tree; an answer of the agent   *)
(* changes some file.  Commits of two trees have no common line.           *)
(***************************************************************************)
EXTENDS Integers, FiniteSets

CONSTANTS MaxAttempts,  \* MainAITask.max_attempts
          MaxFaults,    \* kills, lapses, crashes and git failures considered,
                        \* and cancels and first envelopes by the founder
          Disturb       \* whether a takeover can be disturbed between its two
                        \* commits, and a live job be "recovered"

ASSUME MaxAttemptsAssumption == MaxAttempts \in Nat \ {0}
ASSUME MaxFaultsAssumption == MaxFaults \in Nat
ASSUME DisturbAssumption == Disturb \in BOOLEAN

\* Every dispatch takes an attempt or follows a fault.
Jobs == 1..(MaxAttempts + MaxFaults)
Trees == Jobs

VARIABLES
  task,       \* the mainai_tasks row
  job,        \* the mainai_jobs rows
  pc,         \* where the runner of each job is
  ckpt,       \* steps for which a job has a checkpoint
  work,       \* the worktree a job's work_result names, 0 for none
  tree,       \* worktree rows with the directory they stand for
  remote,     \* tip of the task's branch on GitHub, 0 if there is none
  passed,     \* ghost: trees whose content passed a verification
  rec,        \* recovery records, by the dead job
  rx,         \* the recoverer: its place, the dead and the new job
  governed,   \* the goal has had an execution envelope
  adv,        \* auto-advance has read "ready and not governed"
  faults
vars == <<task, job, pc, ckpt, work, tree, remote, passed, rec, rx, governed,
          adv, faults>>
gitVars == <<tree, remote, passed>>
recVars == <<rec, rx, governed>>

NoTree == [row |-> 0, marker |-> 0, disk |-> "none", recorded |-> FALSE]
NoRecord == [status |-> "none", class |-> "none", hadWork |-> FALSE,
             sha |-> 0, approved |-> FALSE]
Idle == [pc |-> "idle", dead |-> 0, new |-> 0]

Init ==
  /\ task = [status |-> "ready", attempts |-> 0, job |-> 0]
  /\ job = [j \in Jobs |->
              [status |-> "none", lease |-> "none", cancel |-> FALSE]]
  /\ pc = [j \in Jobs |-> "none"]
  /\ ckpt = [j \in Jobs |-> {}]
  /\ work = [j \in Jobs |-> 0]
  /\ tree = [t \in Trees |-> NoTree]
  /\ remote = 0
  /\ passed = {}
  /\ rec = [j \in Jobs |-> NoRecord]
  /\ rx = Idle
  /\ governed = FALSE
  /\ adv = FALSE
  /\ faults = 0

-----------------------------------------------------------------------------
(* Rows                                                                    *)

\* Mutant: the fence does not look at the status.
HoldsUnfenced(j) == job[j].status \in {"running", "superseded"}

\* The WHERE clause of a runner's writes: its job is still running.
Holds(j) == job[j].status = "running"

Renewed(j) == [job EXCEPT ![j].lease = "live"]

\* The worktree whose row names job j, 0 for none (job_id is unique).
TreeOf(j) == IF \E t \in Trees : tree[t].row = j
             THEN CHOOSE t \in Trees : tree[t].row = j ELSE 0

\* verify_worktree_ownership: the marker on disk is the row's.
Owned(t) == t # 0 /\ tree[t].disk # "none" /\ tree[t].marker = tree[t].row

Fresh == {j \in Jobs : job[j].status = "none"}
NewJob == CHOOSE j \in Fresh : \A k \in Fresh : j <= k

\* What _finalize_task_outcome makes of the task.
TaskPassed ==
  IF task.status = "cancelled" THEN task
  ELSE IF task.job # 0 /\ job[task.job].cancel
       THEN [task EXCEPT !.status = "cancelled"]
       ELSE [task EXCEPT !.status = "completed"]
TaskFailed ==
  [task EXCEPT !.status = IF task.attempts < MaxAttempts
                          THEN "retryable" ELSE "failed"]

-----------------------------------------------------------------------------
(* Dispatch, retry and cancel                                              *)

\* _advance_mainai_execution_tasks: the envelope is looked for without a lock.
AdvanceRead ==
  /\ ~adv /\ task.status = "ready" /\ ~governed
  /\ adv' = TRUE
  /\ UNCHANGED <<task, job, pc, ckpt, work, gitVars, recVars, faults>>

\* dispatch_ready_task.  create_job commits the row before the task points to
\* it; auto-advance commits that at once.
AdvanceDispatch ==
  /\ adv
  /\ adv' = FALSE
  /\ IF task.status = "ready" /\ Fresh # {}
     THEN /\ task' = [status |-> "running", attempts |-> task.attempts + 1,
                      job |-> NewJob]
          /\ job' = [job EXCEPT ![NewJob].status = "queued"]
     ELSE UNCHANGED <<task, job>>
  /\ UNCHANGED <<pc, ckpt, work, gitVars, recVars, faults>>

\* retry_task, by the worker once next_retry_at is due or by the founder.
RetryTask ==
  /\ task.status = "retryable"
  /\ task' = [task EXCEPT !.status = "ready"]
  /\ UNCHANGED <<job, pc, ckpt, work, gitVars, recVars, adv, faults>>

\* cancel_task: a running task's job is asked, any other is cancelled.
CancelTask ==
  /\ faults < MaxFaults
  /\ \/ /\ task.status = "running" /\ task.job # 0
        /\ job[task.job].status \in {"queued", "running"}
        /\ ~job[task.job].cancel
        /\ job' = [job EXCEPT ![task.job].cancel = TRUE]
        /\ UNCHANGED task
     \/ /\ task.status \in {"ready", "retryable"}
        /\ task' = [task EXCEPT !.status = "cancelled"]
        /\ UNCHANGED job
  /\ faults' = faults + 1
  /\ UNCHANGED <<pc, ckpt, work, gitVars, recVars, adv>>

\* authorize_execution_scope waits for the goal row a takeover has locked.
Govern ==
  /\ ~governed /\ faults < MaxFaults /\ rx.pc # "locked"
  /\ governed' = TRUE
  /\ faults' = faults + 1
  /\ UNCHANGED <<task, job, pc, ckpt, work, gitVars, rec, rx, adv>>

-----------------------------------------------------------------------------
(* The runner                                                              *)

Claim(j) ==
  /\ job[j].status = "queued"
  /\ job' = [job EXCEPT ![j].status = "running", ![j].lease = "live"]
  /\ pc' = [pc EXCEPT ![j] = "start"]
  /\ UNCHANGED <<task, ckpt, work, gitVars, recVars, adv, faults>>

\* require_capability refuses: the job is failed, then the task.
CapabilityLost(j) ==
  /\ pc[j] = "start" /\ Holds(j)
  /\ job' = [job EXCEPT ![j].status = "failed"]
  /\ pc' = [pc EXCEPT ![j] = "incapable"]
  /\ UNCHANGED <<task, ckpt, work, gitVars, recVars, adv, faults>>

FinalizeIncapable(j) ==
  /\ pc[j] = "incapable"
  /\ task' = IF task.status = "running" THEN TaskFailed ELSE task
  /\ pc' = [pc EXCEPT ![j] = "end"]
  /\ UNCHANGED <<job, ckpt, work, gitVars, recVars, adv, faults>>

\* A step that finds its job no longer running: JobLeaseLostError, rollback.
LoseLease(j) ==
  /\ pc[j] \notin {"none", "dead", "end", "incapable", "agent", "push"}
  /\ ~Holds(j)
  /\ pc' = [pc EXCEPT ![j] = "end"]
  /\ UNCHANGED <<task, job, ckpt, work, gitVars, recVars, adv, faults>>

\* The first renewal, then the work_result checkpoint or a cancel check.
Start(j) ==
  /\ pc[j] = "start" /\ Holds(j)
  /\ job' = Renewed(j)
  /\ pc' = [pc EXCEPT ![j] =
              IF "work" \in ckpt[j] THEN "verify"
              ELSE IF job[j].cancel THEN "cancel" ELSE "tree"]
  /\ UNCHANGED <<task, ckpt, work, gitVars, recVars, adv, faults>>

\* _handle_repo_edit up to the agent: the job's own worktree, with what a dead
\* job left in it, or a new one.
PrepareTree(j) ==
  LET t == TreeOf(j) IN
  /\ pc[j] = "tree" /\ Holds(j)
  /\ job' = Renewed(j)
  /\ IF t = 0
     THEN /\ tree' = [tree EXCEPT ![j] =
                        [row |-> j, marker |-> j, disk |-> "clean",
                         recorded |-> FALSE]]
          /\ pc' = [pc EXCEPT ![j] = "agent"]
     ELSE /\ tree' = [tree EXCEPT ![t] =
                        IF Owned(t) /\ tree[t].disk = "edited"
                        THEN [tree[t] EXCEPT !.disk = "committed",
                                             !.recorded = TRUE]
                        ELSE tree[t]]
          /\ pc' = [pc EXCEPT ![j] =
                      IF ~Owned(t) THEN "error"
                      ELSE IF tree'[t].recorded THEN "work" ELSE "agent"]
  /\ UNCHANGED <<task, ckpt, work, remote, passed, recVars, adv, faults>>

\* The agent's answer is written to the worktree, or cannot be used.
AskAgent(j) ==
  LET t == TreeOf(j) IN
  /\ pc[j] = "agent"
  /\ \/ /\ t # 0
        /\ tree' = [tree EXCEPT ![t].disk = "edited"]
        /\ pc' = [pc EXCEPT ![j] = "commit"]
     \/ /\ UNCHANGED tree
        /\ pc' = [pc EXCEPT ![j] = "error"]
  /\ UNCHANGED <<task, job, ckpt, work, remote, passed, recVars, adv, faults>>

\* commit_worktree_changes and the commit of its row.
CommitEdit(j) ==
  LET t == TreeOf(j) IN
  /\ pc[j] = "commit" /\ Holds(j)
  /\ job' = Renewed(j)
  /\ IF Owned(t)
     THEN /\ tree' = [tree EXCEPT ![t].disk = "committed",
                                  ![t].recorded = TRUE]
          /\ pc' = [pc EXCEPT ![j] = "work"]
     ELSE /\ UNCHANGED tree
          /\ pc' = [pc EXCEPT ![j] = "error"]
  /\ UNCHANGED <<task, ckpt, work, remote, passed, recVars, adv, faults>>

\* Killed between git commit and the commit of the row.
KilledInCommit(j) ==
  LET t == TreeOf(j) IN
  /\ pc[j] = "commit" /\ Holds(j) /\ t # 0 /\ faults < MaxFaults
  /\ tree' = [tree EXCEPT ![t].disk = "committed"]
  /\ pc' = [pc EXCEPT ![j] = "dead"]
  /\ faults' = faults + 1
  /\ UNCHANGED <<task, job, ckpt, work, remote, passed, recVars, adv>>

\* The work_result checkpoint, then a cancel check.
CheckpointWork(j) ==
  /\ pc[j] = "work" /\ Holds(j)
  /\ job' = Renewed(j)
  /\ ckpt' = [ckpt EXCEPT ![j] = @ \cup {"work"}]
  /\ work' = [work EXCEPT ![j] = TreeOf(j)]
  /\ pc' = [pc EXCEPT ![j] = "verify"]
  /\ UNCHANGED <<task, gitVars, recVars, adv, faults>>

\* verify_task on the worktree work_result names.  (A verification checkpoint
\* is never found: it is copied only after a verification_passed event, which
\* leaves no running task behind.)
Verify(j) ==
  /\ pc[j] = "verify"
  /\ \/ /\ job[j].cancel
        /\ pc' = [pc EXCEPT ![j] = "cancel"]
        /\ UNCHANGED <<job, ckpt, passed>>
     \/ /\ ~job[j].cancel /\ Holds(j)
        /\ job' = Renewed(j)
        /\ ckpt' = [ckpt EXCEPT ![j] = @ \cup {"verification"}]
        /\ passed' = passed \cup {work[j]}
        /\ pc' = [pc EXCEPT ![j] = "verified"]
     \/ /\ ~job[j].cancel
        /\ pc' = [pc EXCEPT ![j] = "unverified"]
        /\ UNCHANGED <<job, ckpt, passed>>
  /\ UNCHANGED <<task, work, tree, remote, recVars, adv, faults>>

\* The last cancel check; a finalized checkpoint spares the push.
BeforePush(j) ==
  /\ pc[j] = "verified" /\ Holds(j)
  /\ pc' = [pc EXCEPT ![j] =
              IF job[j].cancel THEN "cancel"
              ELSE IF "finalized" \in ckpt[j] THEN "finish" ELSE "push"]
  /\ job' = IF pc'[j] = "push" THEN Renewed(j) ELSE job
  /\ UNCHANGED <<task, ckpt, work, gitVars, recVars, adv, faults>>

\* _finalize_repo_edit and push_worktree_branch, without --force.
Push(j) ==
  LET t == work[j] IN
  /\ pc[j] = "push"
  /\ IF Owned(t) /\ remote \in {0, t}
     THEN /\ remote' = t
          /\ pc' = [pc EXCEPT ![j] = "pushed"]
     ELSE /\ UNCHANGED remote
          /\ pc' = [pc EXCEPT ![j] = "error"]
  /\ UNCHANGED <<task, job, ckpt, work, tree, passed, recVars, adv, faults>>

CheckpointPush(j) ==
  /\ pc[j] = "pushed" /\ Holds(j)
  /\ job' = Renewed(j)
  /\ ckpt' = [ckpt EXCEPT ![j] = @ \cup {"finalized"}]
  /\ pc' = [pc EXCEPT ![j] = "finish"]
  /\ UNCHANGED <<task, work, gitVars, recVars, adv, faults>>

\* The outcome of the task commits with the fenced outcome of the job.
Conclude(j, from, taskOutcome, jobOutcome) ==
  /\ pc[j] = from /\ Holds(j)
  /\ task' = taskOutcome
  /\ job' = [job EXCEPT ![j].status = jobOutcome]
  /\ pc' = [pc EXCEPT ![j] = "end"]
  /\ UNCHANGED <<ckpt, work, gitVars, recVars, adv, faults>>

Finish(j) == Conclude(j, "finish", TaskPassed, "completed")
FinishUnverified(j) == Conclude(j, "unverified", TaskFailed, "completed")
FinishError(j) == Conclude(j, "error", TaskFailed, "failed")
FinishCancelled(j) ==
  Conclude(j, "cancel", [task EXCEPT !.status = "cancelled"], "cancelled")

\* process_claimed_mainai_job's last resort: the job fails, the task is left.
Crash(j) ==
  /\ pc[j] \notin {"none", "dead", "end"} /\ Holds(j) /\ faults < MaxFaults
  /\ job' = [job EXCEPT ![j].status = "failed"]
  /\ pc' = [pc EXCEPT ![j] = "end"]
  /\ faults' = faults + 1
  /\ UNCHANGED <<task, ckpt, work, gitVars, recVars, adv>>

Kill(j) ==
  /\ pc[j] \notin {"none", "dead", "end"} /\ faults < MaxFaults
  /\ pc' = [pc EXCEPT ![j] = "dead"]
  /\ faults' = faults + 1
  /\ UNCHANGED <<task, job, ckpt, work, gitVars, recVars, adv>>

\* The lease of a slow runner runs out, though it goes on.
Lapse(j) ==
  /\ Holds(j) /\ job[j].lease = "live" /\ pc[j] # "dead"
  /\ faults < MaxFaults
  /\ job' = [job EXCEPT ![j].lease = "lapsed"]
  /\ faults' = faults + 1
  /\ UNCHANGED <<task, pc, ckpt, work, gitVars, recVars, adv>>

\* The lease of a dead runner.
Expire(j) ==
  /\ Holds(j) /\ job[j].lease = "live" /\ pc[j] = "dead"
  /\ job' = [job EXCEPT ![j].lease = "lapsed"]
  /\ UNCHANGED <<task, pc, ckpt, work, gitVars, recVars, adv, faults>>

-----------------------------------------------------------------------------
(* Recovery                                                                *)

\* Lapsed, or ended without an outcome for its task.
Dead(j) ==
  \/ job[j].status = "running" /\ job[j].lease = "lapsed"
  \/ job[j].status \in {"failed", "completed", "cancelled"}

\* The tick's scan; the founder's endpoint looks at the task only.
Recoverable(j) ==
  /\ j # 0 /\ task.job = j /\ task.status = "running"
  /\ (Dead(j) /\ pc[j] # "incapable") \/ Disturb

Detect ==
  LET j == task.job IN
  /\ Recoverable(j) /\ rec[j].status = "none"
  /\ rec' = [rec EXCEPT ![j].status = "detected"]
  /\ UNCHANGED <<task, job, pc, ckpt, work, gitVars, rx, governed, adv,
                 faults>>

\* _classify over the evidence of inspect_recovery_record: a remote tip that is
\* not the tree's own cannot be an ancestor of it.
Classify(j, t) ==
  IF Owned(t) /\ remote \notin {0, t}
  THEN "conflicted"
  ELSE IF \/ remote # 0 /\ Owned(t) /\ tree[t].disk = "committed"
             /\ remote = t
          \/ remote # 0 /\ "finalized" \in ckpt[j]
  THEN "pushed"
  ELSE IF t # 0 /\ tree[t].recorded THEN "local_committed"
  ELSE IF Owned(t) /\ tree[t].disk = "edited"
  THEN "local_uncommitted"
  ELSE IF "work" \in ckpt[j] THEN "checkpointed" ELSE "nothing_done"

\* inspect_recovery_record and classify_recovery_record, which reads only the
\* evidence: what is found now stays in the record.
Inspect ==
  LET j == task.job IN
  /\ Recoverable(j) /\ rec[j].status = "detected"
  /\ rec' = [rec EXCEPT ![j].status = "classified",
                        ![j].class = Classify(j, TreeOf(j)),
                        ![j].hadWork = "work" \in ckpt[j],
                        ![j].sha = remote]
  /\ UNCHANGED <<task, job, pc, ckpt, work, gitVars, rx, governed, adv,
                 faults>>

\* A git or GitHub failure is evidence too: manual review.
InspectUnsafe ==
  LET j == task.job IN
  /\ Recoverable(j) /\ rec[j].status = "detected" /\ faults < MaxFaults
  /\ rec' = [rec EXCEPT ![j].status = "blocked"]
  /\ faults' = faults + 1
  /\ UNCHANGED <<task, job, pc, ckpt, work, gitVars, rx, governed, adv>>

\* grant_recovery_approval by the founder.
Approve(j) ==
  /\ rec[j].status = "classified" /\ rec[j].class = "pushed"
  /\ ~rec[j].approved
  /\ rec' = [rec EXCEPT ![j].approved = TRUE]
  /\ UNCHANGED <<task, job, pc, ckpt, work, gitVars, rx, governed, adv,
                 faults>>

AutoSalvageable ==
  {"nothing_done", "checkpointed", "local_uncommitted", "local_committed",
   "pushed"}

\* require_recovery_approval and the status checks of execute_takeover.
MayTakeOver(j) ==
  /\ rec[j].status = "classified" /\ rec[j].class \in AutoSalvageable
  /\ rec[j].class = "pushed" => rec[j].approved

\* execute_takeover locks the goal row and finds no envelope.
TakeoverLock ==
  LET j == task.job IN
  /\ rx.pc = "idle" /\ Recoverable(j) /\ MayTakeOver(j) /\ ~governed
  /\ rx' = [pc |-> "locked", dead |-> j, new |-> 0]
  /\ UNCHANGED <<task, job, pc, ckpt, work, gitVars, rec, governed, adv,
                 faults>>

\* Mutant: a job that ended without an outcome cannot be fenced.
SupersedableLapsed(j) == job[j].status = "running" /\ job[j].lease = "lapsed"

\* The WHERE clause of mark_job_superseded and of its governed counterpart.
Supersedable(j) ==
  \/ job[j].status = "running" /\ job[j].lease = "lapsed"
  \/ job[j].status \in {"failed", "completed", "cancelled"}

\* _decline_takeover_for_governed_goal: one transaction, refused as a whole if
\* the job is not dead any more.
TakeoverDecline ==
  LET j == task.job IN
  /\ rx.pc = "idle" /\ Recoverable(j) /\ MayTakeOver(j) /\ governed
  /\ Supersedable(j)
  /\ task' = [task EXCEPT !.status = "ready"]
  /\ job' = [job EXCEPT ![j].status = "failed"]
  /\ rec' = [rec EXCEPT ![j].status = "completed"]
  /\ UNCHANGED <<pc, ckpt, work, gitVars, rx, governed, adv, faults>>

\* reset_task_for_takeover and dispatch_ready_task up to create_job's commit,
\* which also releases the lock; a task that is not running any more is left.
TakeoverDispatch ==
  /\ rx.pc = "locked"
  /\ IF task.status = "running" /\ Fresh # {}
     THEN /\ task' = [task EXCEPT !.attempts = @ + 1]
          /\ job' = [job EXCEPT ![NewJob].status = "queued"]
          /\ rx' = [rx EXCEPT !.pc = "salvage", !.new = NewJob]
     ELSE UNCHANGED <<task, job>> /\ rx' = Idle
  /\ UNCHANGED <<pc, ckpt, work, gitVars, rec, governed, adv, faults>>

\* Mutant: a committed change counts as pushed.
SalvagedCkptPushed(j) ==
  (IF rec[j].hadWork THEN {"work"} ELSE {}) \cup
  (IF rec[j].class \in {"pushed", "local_committed"} THEN {"finalized"}
   ELSE {})

\* The checkpoints salvage_recovery_record gives the new job.
SalvagedCkpt(j) ==
  (IF rec[j].hadWork THEN {"work"} ELSE {}) \cup
  (IF rec[j].class = "pushed" THEN {"finalized"} ELSE {})

\* The branch is as inspected (_verify_branch_unchanged_since_inspection), the
\* job can be fenced, and the new job has no worktree yet (job_id is unique).
SalvageHolds(d, n) ==
  /\ Supersedable(d)
  /\ rec[d].class = "pushed" => remote = rec[d].sha
  /\ rec[d].class \in {"local_uncommitted", "local_committed"} /\
     TreeOf(d) # 0 => TreeOf(n) = 0

\* The second transaction of a takeover: salvage, fence, record; or a rollback
\* which the new job, already committed, survives.
TakeoverFinish ==
  LET d == rx.dead
      n == rx.new
      t == TreeOf(d)
      rebind == /\ rec[d].class \in {"local_uncommitted", "local_committed"}
                /\ Owned(t)
  IN
  /\ rx.pc = "salvage"
  /\ rx' = Idle
  /\ IF SalvageHolds(d, n)
     THEN /\ task' = [task EXCEPT !.job = n]
          /\ job' = [job EXCEPT ![d].status = "superseded"]
          /\ ckpt' = [ckpt EXCEPT ![n] = @ \cup SalvagedCkpt(d)]
          /\ work' = [work EXCEPT ![n] = IF rec[d].hadWork THEN work[d] ELSE @]
          /\ tree' = IF rebind
                     THEN [tree EXCEPT ![t].row = n, ![t].marker = n]
                     ELSE tree
          /\ rec' = [rec EXCEPT ![d].status = "completed"]
     ELSE /\ tree' = IF rebind /\ ~Supersedable(d)
                     THEN [tree EXCEPT ![t].marker = n]
                     ELSE tree
          /\ UNCHANGED <<task, job, ckpt, work, rec>>
  /\ UNCHANGED <<pc, remote, passed, governed, adv, faults>>

-----------------------------------------------------------------------------
RunnerStep(j) ==
  \/ FinalizeIncapable(j) \/ LoseLease(j) \/ Start(j) \/ PrepareTree(j)
  \/ AskAgent(j) \/ CommitEdit(j) \/ CheckpointWork(j) \/ Verify(j)
  \/ BeforePush(j) \/ Push(j) \/ CheckpointPush(j) \/ Finish(j)
  \/ FinishUnverified(j) \/ FinishError(j) \/ FinishCancelled(j)

RecoveryStep ==
  \/ Detect \/ Inspect \/ TakeoverLock \/ TakeoverDecline
  \/ TakeoverDispatch \/ TakeoverFinish

\* No takeover is under way, or it may be disturbed.
Calm == rx.pc = "idle" \/ Disturb

Next ==
  \/ RecoveryStep
  \/ Govern
  \/ CancelTask
  \/ Calm /\ (AdvanceRead \/ AdvanceDispatch \/ RetryTask \/ InspectUnsafe)
  \/ Calm /\ \E j \in Jobs :
       \/ Claim(j) \/ CapabilityLost(j) \/ RunnerStep(j) \/ Crash(j)
       \/ Kill(j) \/ KilledInCommit(j) \/ Lapse(j) \/ Expire(j)
  \/ \E j \in Jobs : Approve(j)

Spec == Init /\ [][Next]_vars

\* The worker polls for jobs, ready and retryable tasks and dead jobs, leases of
\* the dead run out, and an asynchronous runner goes on until it is killed.  The
\* founder need not act.
Fairness ==
  /\ WF_vars(RecoveryStep)
  /\ WF_vars(Calm /\ AdvanceRead) /\ WF_vars(Calm /\ AdvanceDispatch)
  /\ WF_vars(Calm /\ RetryTask)
  /\ \A j \in Jobs : /\ WF_vars(Calm /\ Claim(j))
                     /\ WF_vars(Calm /\ RunnerStep(j))
                     /\ WF_vars(Calm /\ Expire(j))

FairSpec == Spec /\ Fairness

-----------------------------------------------------------------------------
(* Properties                                                              *)

\* The rows of mainai_jobs, mainai_checkpoints, mainai_task_worktrees (with its
\* files) and mainai_recovery_records.
JobRows ==
  [status : {"none", "queued", "running", "completed", "failed", "cancelled",
             "superseded"},
   lease : {"none", "live", "lapsed"}, cancel : BOOLEAN]
CheckpointRows == SUBSET {"work", "verification", "finalized"}
WorktreeRows ==
  [row : Jobs \cup {0}, marker : Jobs \cup {0},
   disk : {"none", "clean", "edited", "committed"}, recorded : BOOLEAN]
RecoveryRows ==
  [status : {"none", "detected", "classified", "blocked", "completed"},
   class : AutoSalvageable \cup {"none", "conflicted"}, hadWork : BOOLEAN,
   sha : Trees \cup {0}, approved : BOOLEAN]

\* Types; attempts counts the jobs, which makes their idempotency keys differ.
TypeOK ==
  /\ task \in [status : {"ready", "running", "retryable", "failed",
                         "completed", "cancelled"},
               attempts : {Cardinality(Jobs \ Fresh)},
               job : Jobs \cup {0}]
  /\ job \in [Jobs -> JobRows]
  /\ pc \in [Jobs -> {"none", "start", "incapable", "tree", "agent", "commit",
                      "work", "verify", "verified", "unverified", "push",
                      "pushed", "finish", "error", "cancel", "end", "dead"}]
  /\ ckpt \in [Jobs -> CheckpointRows]
  /\ work \in [Jobs -> Trees \cup {0}]
  /\ tree \in [Trees -> WorktreeRows]
  /\ remote \in Trees \cup {0}
  /\ passed \subseteq Trees
  /\ rec \in [Jobs -> RecoveryRows]
  /\ rx \in [pc : {"idle", "locked", "salvage"}, dead : Jobs \cup {0},
             new : Jobs \cup {0}]
  /\ governed \in BOOLEAN /\ adv \in BOOLEAN
  /\ faults \in 0..MaxFaults

\* A completed task has on GitHub a commit whose content passed verification,
\* whichever jobs died on the way and whatever was salvaged from them
\* (execution_job.py:631-664, recovery_salvage.py:149-160).
CompletedIsTrue ==
  task.status = "completed" => remote # 0 /\ remote \in passed

\* At most one job of the task can do work under authority: queued, or running
\* with a live lease.  recover_task calls itself "safe to call on a task whose
\* job is not actually dead" (routers/mainai_execution.py:277).
LiveJobs == {j \in Jobs : \/ job[j].status = "queued"
                          \/ job[j].status = "running" /\ job[j].lease = "live"}
OneLiveJob == Cardinality(LiveJobs) <= 1

\* A cancel that reached the task's job before the outcome prevails
\* (execution_job.py:829-837), also against the checks made before the push.
CancelWins == task.status = "completed" => ~job[task.job].cancel

\* A completed task stays completed, although the runner of a superseded job may
\* still be at work (execution_job.py:757-762).
CompletedIsFinal == [][task.status = "completed" => task' = task]_vars

\* Recovery never hands a goal that has had an envelope to the envelope-blind
\* executor, even if the first envelope is authorised while a takeover is under
\* way (recovery_takeover.py:125-130).
GovernedNeverTakenOver ==
  [][rx.pc = "locked" /\ rx'.pc = "salvage" => ~governed]_vars

\* A dead attempt found with its own work on GitHub is taken over only with the
\* founder's approval, also when the push was an earlier attempt's that it had
\* itself taken over (recovery_approval.py:56-66).
VisibleNeedsApproval ==
  [][\A d \in Jobs :
       /\ rx.pc = "locked" /\ rx.dead = d /\ rx'.pc = "salvage"
       /\ rec[d].hadWork /\ rec[d].sha # 0 /\ rec[d].sha = work[d]
       => rec[d].approved]_vars

\* The task comes to rest: an outcome, the founder's turn (approval, manual
\* review), or the hands of the Supervisor (a ready task of a governed goal).
Settled ==
  \/ task.status \in {"completed", "failed", "cancelled"}
  \/ task.status = "ready" /\ governed
  \/ /\ task.status = "running" /\ task.job # 0
     /\ \/ rec[task.job].status = "blocked"
        \/ rec[task.job].class = "conflicted"
        \/ rec[task.job].class = "pushed" /\ ~rec[task.job].approved
TaskSettles == []<>Settled

\* The states of a task and its attempts: typed, one live job, completed only
\* when its work is verified and on GitHub and no cancel came before.
RecoveryInv == TypeOK /\ CompletedIsTrue /\ OneLiveJob /\ CancelWins

\* What no step does: undo a completion, take over a governed goal, or take over
\* visible work without approval.
RecoverySteps == CompletedIsFinal /\ GovernedNeverTakenOver /\ VisibleNeedsApproval
=============================================================================
