---------------------------- MODULE Supervisor ----------------------------
(***************************************************************************)
(* The Supervisor's tick over one authorized goal                          *)
(* (development_supervisor/), with the live gap loop it drives             *)
(* (autonomous_gap/): the goal lease, the choice of a task, its dispatch   *)
(* and claim, deferrals, repair children and their parked sources.  What   *)
(* planning and the driver do in between is here only their outcome.       *)
(*                                                                         *)
(* A tick is ONE transaction that create_job, mark_completed and           *)
(* mark_cancelled commit on the way.  db holds the committed rows; the     *)
(* rows a tick has written since its last commit are its own (mine): it    *)
(* reads them, the rest of the system waits for their locks, and an error  *)
(* or a kill drops them.                                                   *)
(***************************************************************************)
EXTENDS Integers, Sequences, FiniteSets

CONSTANTS Ticks,       \* worker processes that run Supervisor ticks
          WorkLists,   \* initial task lists of the goal
          MaxJobs,     \* SupervisorBounds.max_jobs
          MaxDepth,    \* GapGenerationBounds.max_generation_depth
          MaxRows,     \* bound on tasks and on jobs
          MaxUpsets    \* bound on founder steps, lapses, kills and blind runs

NoWorker == "nobody"
ASSUME WorksAssumption ==
  \A work \in WorkLists :
    work \in Seq([prio : Nat, fit : BOOLEAN, independent : BOOLEAN,
                  reverify : BOOLEAN])
ASSUME SupervisorBounds ==
  /\ NoWorker \notin Ticks /\ MaxJobs \in Nat \ {0} /\ MaxDepth \in Nat
  /\ MaxRows \in Nat /\ MaxUpsets \in Nat

VARIABLES
  supGoal,  \* goal status, instruction version, active envelope
  db,       \* committed task, job and goal lease rows
  tick,     \* the tick of each worker
  upsets    \* founder steps, lapses and kills so far
supVars == <<supGoal, db, tick, upsets>>

SupTerminal == {"completed", "failed", "cancelled"}
SupTaskStatuses ==
  {"ready", "running", "blocked", "retryable"} \cup SupTerminal
SupJobStatuses == {"queued", "running"} \cup SupTerminal

\* A task row; parent, source job and depth are the lineage a gap child has.
WorkTask(w) ==
  [prio |-> w.prio, fit |-> w.fit, independent |-> w.independent,
   reverify |-> w.reverify, status |-> "ready", why |-> "none", job |-> 0,
   parent |-> 0, pjob |-> 0, depth |-> 0]
ChildTask(parent, pjob, depth) ==
  [prio |-> 0, fit |-> TRUE, independent |-> TRUE, reverify |-> TRUE,
   status |-> "ready", why |-> "none", job |-> 0,
   parent |-> parent, pjob |-> pjob, depth |-> depth]
QueuedJob(t) == [task |-> t, status |-> "queued", by |-> NoWorker,
                 lapsed |-> FALSE, cancel |-> FALSE, chosen |-> 0,
                 blind |-> FALSE]
Lease(by) == [by |-> by, lapsed |-> FALSE]

Empty == <<>>
Row(i, r) == [k \in {i} |-> r]
NoRows == [task |-> Empty, job |-> Empty, lease |-> Empty]
IdleTick == [at |-> "idle", env |-> 0, instr |-> 0, bound |-> {}, task |-> 0,
             deferred |-> {}, ran |-> 0, mine |-> NoRows]

SupervisorInit ==
  /\ supGoal = [status |-> "running", instr |-> 1, env |-> 1]
  /\ \E work \in WorkLists :
       db = [task |-> [i \in DOMAIN work |-> WorkTask(work[i])],
             job |-> Empty, lease |-> Row(1, Lease(NoWorker))]
  /\ tick = [w \in Ticks |-> IdleTick]
  /\ upsets = 0

-----------------------------------------------------------------------------
(* The transaction of a tick                                               *)

\* A table with some of its rows replaced, and rows that were replaced.
Over(own, all) ==
  [i \in DOMAIN own \cup DOMAIN all |->
     IF i \in DOMAIN own THEN own[i] ELSE all[i]]
Changed(new, old) ==
  LET own == {i \in DOMAIN new : i \in DOMAIN old => new[i] # old[i]}
  IN  [i \in own |-> new[i]]
View(w) ==
  LET own == tick[w].mine
  IN  [task |-> Over(own.task, db.task), job |-> Over(own.job, db.job),
       lease |-> Over(own.lease, db.lease)]
Written(v) ==
  [task |-> Changed(v.task, db.task), job |-> Changed(v.job, db.job),
   lease |-> Changed(v.lease, db.lease)]
\* The row is locked by the open transaction of another tick.
LockedFor(w, k, i) ==
  \E x \in Ticks \ {w} : i \in DOMAIN tick[x].mine[k]
Locked(k, i) == \E x \in Ticks : i \in DOMAIN tick[x].mine[k]

\* The tick goes on from v without a commit, commits v and goes on, commits
\* v and ends, or raises: the worker rolls back.  What finally releases is
\* part of the commit that ends a tick; a rollback undoes it.
Goes(w, t, v) ==
  /\ tick' = [tick EXCEPT ![w] = [t EXCEPT
                !.mine = [Written(v) EXCEPT !.lease = Over(@, t.mine.lease)]]]
  /\ UNCHANGED db
Commits(w, t, v) ==
  /\ db' = v
  /\ tick' = [tick EXCEPT ![w] = [t EXCEPT !.mine = NoRows]]
LeaseReleased(w, v) ==
  IF v.lease[1].by = w THEN [v EXCEPT !.lease[1] = Lease(NoWorker)] ELSE v
Ends(w, v) == Commits(w, IdleTick, LeaseReleased(w, v))
Raises(w) == tick' = [tick EXCEPT ![w] = IdleTick] /\ UNCHANGED db

-----------------------------------------------------------------------------
(* Goal lease and entry                                                    *)

Bindable(v) == {i \in DOMAIN v.task : v.task[i].status \in {"ready",
                                                            "running"}}
\* eligible_authorized_goals: the goal and its envelope are read, and used
\* when its turn in the batch comes.
ReadEligible(w) ==
  /\ tick[w].at = "idle" /\ supGoal.status = "running"
  /\ tick' = [tick EXCEPT ![w].at = "eligible", ![w].env = supGoal.env]
  /\ UNCHANGED <<supGoal, db, upsets>>

MayClaimLease(row) == row.by = NoWorker \/ row.lapsed

StillAuthorized(w) == supGoal.env = tick[w].env
\* The upsert waits for the row's lock; a held lease, a changed envelope and
\* no work to bind end the tick before it did anything.
ClaimGoal(w) ==
  LET v == View(w)
  IN  /\ tick[w].at = "eligible" /\ ~LockedFor(w, "lease", 1)
      /\ IF MayClaimLease(v.lease[1]) /\ StillAuthorized(w)
            /\ Bindable(v) # {}
         THEN Goes(w, [tick[w] EXCEPT !.at = "loop", !.instr = supGoal.instr,
                                      !.bound = Bindable(v)],
                   [v EXCEPT !.lease[1] = Lease(w)])
         ELSE Raises(w)
      /\ UNCHANGED <<supGoal, upsets>>

-----------------------------------------------------------------------------
(* The choice of a task                                                    *)

\* validate_scope
ScopeHolds(w) == supGoal.instr = tick[w].instr
                 /\ supGoal.status \notin {"completed", "cancelled"}
\* _augment_bindings_with_gap_children
BoundTasks(w, v) ==
  tick[w].bound \cup {i \in DOMAIN v.task :
     v.task[i].parent # 0 /\ v.task[i].status \in {"ready", "running",
                                                   "blocked"}}
Candidates(w, v) ==
  {i \in BoundTasks(w, v) :
     v.task[i].status \in {"ready", "running"} /\ v.task[i].fit}
\* _apply_deferred
Actionable(w, v) == Candidates(w, v) \ tick[w].deferred
\* select_candidate: the one with the highest priority, no choice on a tie.
Selected(w, v) ==
  {i \in Actionable(w, v) :
     \A j \in Actionable(w, v) \ {i} : v.task[i].prio > v.task[j].prio}

\* Nothing to choose, the scope no longer holds or a bound is reached: a
\* checkpoint, and the tick ends.  The goal itself completes only under
\* explicit criteria, which the production entry never gives.  (The bound on
\* jobs ends a tick too.)
StopTick(w) ==
  /\ tick[w].at = "loop"
  /\ \/ ~ScopeHolds(w) \/ tick[w].ran >= MaxJobs
     \/ Selected(w, View(w)) = {} \/ Len(db.job) >= MaxRows
  /\ Ends(w, View(w))
  /\ UNCHANGED <<supGoal, upsets>>

\* dispatch_ready_task commits inside create_job; the task's pointer to the
\* new job is written after that and not yet committed.
DispatchChosen(w) ==
  LET v == View(w)
      j == Len(v.job) + 1
  IN  /\ tick[w].at = "loop" /\ ScopeHolds(w) /\ tick[w].ran < MaxJobs
      /\ \E t \in Selected(w, v) :
           LET c == [v EXCEPT !.task[t].status = "running",
                              !.job = Append(@, QueuedJob(t))]
           IN  /\ v.task[t].status = "ready" /\ ~LockedFor(w, "task", t)
               /\ j <= MaxRows
               /\ db' = c
               /\ tick' = [tick EXCEPT
                    ![w] = [@ EXCEPT !.at = "dispatched", !.task = t,
                       !.mine = [NoRows EXCEPT !.task =
                          Row(t, [c.task[t] EXCEPT !.job = j])]]]
      /\ UNCHANGED <<supGoal, upsets>>

\* A running task is taken up again with the job it points to.
ResumeChosen(w) ==
  LET v == View(w)
  IN  /\ tick[w].at = "loop" /\ ScopeHolds(w) /\ tick[w].ran < MaxJobs
      /\ \E t \in Selected(w, v) :
           /\ v.task[t].status = "running"
           /\ IF v.task[t].job = 0 THEN Raises(w)
              ELSE Goes(w, [tick[w] EXCEPT !.at = "dispatched", !.task = t], v)
      /\ UNCHANGED <<supGoal, upsets>>

-----------------------------------------------------------------------------
(* prepare_context                                                         *)

LeaseOf(w, v) == v.lease[1].by = w
\* renew_supervisor_goal_lease
Renews(w, v) == LeaseOf(w, v)
Renewed(w, v) == [v EXCEPT !.lease[1] = Lease(w)]
\* Mutant: the renewal only reads the row.
RenewalLockNone(w) == NoRows.lease
\* Until the next commit its UPDATE locks the row, whether or not it lapses.
RenewalLock(w) == Row(1, Lease(w))

Job(w, v) == v.task[tick[w].task].job
\* claim_specific_mainai_job, or the same worker's own unexpired claim.
Claimed(w, v) ==
  [v EXCEPT !.job[Job(w, v)].status = "running", !.job[Job(w, v)].by = w,
            !.job[Job(w, v)].lapsed = FALSE]
Holds(w, row) == row.status = "running" /\ row.by = w
Claims(w, v) ==
  LET row == v.job[Job(w, v)]
  IN  row.status = "queued" \/ (Holds(w, row) /\ ~row.lapsed)

\* record_evidence of the selection: the same key and other candidates is a
\* conflict.
SelectionFits(w, v) ==
  v.job[Job(w, v)].chosen \in {0, Len(v.task)}

Prepare(w) ==
  LET v == View(w)
      c == [Claimed(w, Renewed(w, v)) EXCEPT
              !.job[Job(w, v)].chosen = Len(v.task)]
  IN  /\ tick[w].at = "dispatched"
      /\ ~LockedFor(w, "lease", 1) /\ ~LockedFor(w, "job", Job(w, v))
      /\ IF StillAuthorized(w) /\ Renews(w, v) /\ Claims(w, v)
            /\ SelectionFits(w, v)
         THEN /\ tick' = [tick EXCEPT
                   ![w] = [@ EXCEPT !.at = "driving",
                      !.mine = [Written(c) EXCEPT !.lease = RenewalLock(w)]]]
              /\ UNCHANGED db
         ELSE Raises(w)
      /\ UNCHANGED <<supGoal, upsets>>

-----------------------------------------------------------------------------
(* What planning and the driver make of it                                 *)

\* Mutant: the task is not put aside for the rest of the run.
DeferredNot(t, i) == [t EXCEPT !.task = i, !.at = "loop"]
Deferred(t, i) == [t EXCEPT !.deferred = @ \cup {i}, !.at = "loop"]
\* An independent task is put aside, any other ends the tick.
PutAside(w, v) ==
  IF v.task[tick[w].task].independent
  THEN Goes(w, Deferred(tick[w], tick[w].task), v)
  ELSE Ends(w, v)

\* Anything that leaves task and job running: an unusable plan, work for
\* later, an approval, a stale authority, a cancel seen before effects.
StopsRunning(w) ==
  /\ tick[w].at = "driving"
  /\ Ends(w, View(w))
  /\ UNCHANGED <<supGoal, upsets>>

\* An exception: a lost lease, a refused path, a failed git command.
DriveRaises(w) ==
  /\ tick[w].at = "driving"
  /\ Raises(w)
  /\ UNCHANGED <<supGoal, upsets>>

ReleasedJob(w, row) ==
  IF Holds(w, row) THEN [row EXCEPT !.status = "failed"] ELSE row
\* _release_midflight_job_and_set_task_status: the job first, and the task
\* only if the job was ours to fail.
ParkedFor(w, v, why) ==
  LET t == tick[w].task
      j == Job(w, v)
  IN  IF ~Holds(w, v.job[j]) THEN v
      ELSE [v EXCEPT
              !.job[j] = ReleasedJob(w, @),
              !.task[t] = IF @.status = "running"
                          THEN [@ EXCEPT !.status = "blocked", !.why = why]
                          ELSE @]

Unlocked(w, v) ==
  ~LockedFor(w, "job", Job(w, v)) /\ ~LockedFor(w, "task", tick[w].task)
\* WAITING_PROVIDER and PROVIDER_SPEND_NOT_AUTHORIZED.
WaitsForProvider(w) ==
  LET v == View(w)
  IN  /\ tick[w].at = "driving" /\ Unlocked(w, v)
      /\ PutAside(w, ParkedFor(w, v, "provider"))
      /\ UNCHANGED <<supGoal, upsets>>

\* CAPABILITY_MISSING: production scopes do not allow self-work, so the gap
\* is recorded and no child inserted.
CapabilityIsMissing(w) ==
  /\ tick[w].at = "driving"
  /\ PutAside(w, View(w))
  /\ UNCHANGED <<supGoal, upsets>>

-----------------------------------------------------------------------------
(* The live gap loop                                                       *)

\* _live_generation_depth
GapDepth(v, t) == IF v.task[t].parent = 0 THEN 0 ELSE v.task[t].depth + 1
\* _gap_identity_key and _find_replay: same source task, same source job.
SameGap(v, t, j) ==
  {i \in DOMAIN v.task : v.task[i].parent = t /\ v.task[i].pjob = j}
\* require_live_gap_lease, assess_gap_authority, insert_plan_tasks.
GapAccepted(w, v) ==
  LET row == v.job[Job(w, v)]
  IN  /\ Holds(w, row) /\ ~row.lapsed
      /\ supGoal.instr = tick[w].instr /\ supGoal.status = "running"
      /\ GapDepth(v, tick[w].task) < MaxDepth

WithChild(w, v) ==
  LET t == tick[w].task
      j == Job(w, v)
  IN  IF SameGap(v, t, j) # {} THEN v
      ELSE [v EXCEPT !.task = Append(@,
              [ChildTask(t, j, GapDepth(v, t)) EXCEPT
                 !.reverify = v.task[t].reverify])]
\* park_source_task_for_repair leaves the source's job as it is.
ParkedSource(v, t) ==
  IF v.task[t].status \in SupTerminal THEN v
  ELSE [v EXCEPT !.task[t].status = "blocked", !.task[t].why = "repair"]

NoInsertionOpen(w) ==
  \A x \in Ticks \ {w} : DOMAIN tick[x].mine.task \subseteq DOMAIN db.task
\* VERIFICATION_REQUIRED and FAILED_NONRETRYABLE.
DriverFails(w) ==
  LET v == View(w)
      t == tick[w].task
  IN  /\ tick[w].at = "driving" /\ Unlocked(w, v) /\ NoInsertionOpen(w)
      /\ IF GapAccepted(w, v)
         THEN PutAside(w, ParkedSource(WithChild(w, v), t))
         ELSE PutAside(w, v)
      /\ UNCHANGED <<supGoal, upsets>>

-----------------------------------------------------------------------------
(* Completion                                                              *)

OutcomeOf(of) == IF of = {"completed"} THEN "completed" ELSE "failed"
\* record_final_report, at every boundary of a task.
RolledUp(v) ==
  LET of == {v.task[i].status : i \in DOMAIN v.task}
  IN  IF supGoal.status # "running" \/ ~(of \subseteq SupTerminal)
      THEN supGoal
      ELSE [supGoal EXCEPT !.status = OutcomeOf(of)]

\* Mutant: mark_completed is not fenced.
FencePassesAll(w, row) == row.task = tick[w].task
\* _finalize_task_outcome(passed) and mark_completed, which commits; the
\* latter's fence undoes the former when the job is no longer ours.
FencePasses(w, row) == Holds(w, row)
DriverCompletes(w) ==
  LET v == View(w)
      t == tick[w].task
      j == Job(w, v)
      done == [v EXCEPT !.task[t].status =
                 IF @ = "cancelled" THEN @
                 ELSE IF v.job[j].cancel THEN "cancelled" ELSE "completed",
                 !.job[j].status = "completed"]
  IN  /\ tick[w].at = "driving" /\ Unlocked(w, v)
      /\ IF FencePasses(w, v.job[j])
         THEN /\ Commits(w, [tick[w] EXCEPT !.at = "completed"], done)
              /\ supGoal' = RolledUp(done)
         ELSE Raises(w) /\ UNCHANGED supGoal
      /\ UNCHANGED upsets

\* The cancel found after verification: task and job end cancelled.
DriverCancels(w) ==
  LET v == View(w)
      t == tick[w].task
      j == Job(w, v)
      done == [v EXCEPT !.task[t].status = "cancelled",
                        !.job[j].status = "cancelled"]
  IN  /\ tick[w].at = "driving" /\ Unlocked(w, v)
      /\ v.job[j].cancel /\ Holds(w, v.job[j])
      /\ Commits(w, [tick[w] EXCEPT !.at = "cancelled"], done)
      /\ supGoal' = RolledUp(done)
      /\ UNCHANGED upsets

CancelReturns(w) ==
  /\ tick[w].at = "cancelled"
  /\ Ends(w, View(w))
  /\ UNCHANGED <<supGoal, upsets>>

\* resume_source_after_repair
Resumed(v, t) ==
  LET s == v.task[t].parent
  IN  IF s = 0 \/ v.task[s].status \notin {"blocked", "retryable", "running"}
      THEN v
      ELSE [v EXCEPT !.task[s].status = "ready", !.task[s].why = "none"]
\* After a child its source is made ready, which raises when the failure has
\* no structured check to repeat (_reverify_candidate_for_source).
Reassess(w) ==
  LET v == View(w)
      t == tick[w].task
      s == v.task[t].parent
      resumes == Resumed(v, t) # v
  IN  /\ tick[w].at = "completed"
      /\ s # 0 => ~LockedFor(w, "task", s)
      /\ IF resumes /\ ~v.task[s].reverify THEN Raises(w)
         ELSE Goes(w, [tick[w] EXCEPT !.at = "loop", !.ran = @ + 1,
                         !.bound = IF resumes THEN @ \cup {s} ELSE @,
                         !.deferred = IF resumes THEN @ \ {s} ELSE @],
                   Resumed(v, t))
      /\ UNCHANGED <<supGoal, upsets>>

-----------------------------------------------------------------------------
(* The rest of the worker's round                                          *)

Upset == upsets < MaxUpsets /\ upsets' = upsets + 1

\* claim_next_mainai_job: any queued job, and run_task_execution_job runs it.
ClaimNext(w) ==
  /\ tick[w].at = "idle" /\ Upset
  /\ \E j \in DOMAIN db.job :
       /\ db.job[j].status = "queued" /\ ~Locked("job", j)
       /\ db' = [db EXCEPT !.job[j].status = "running", !.job[j].by = w,
                           !.job[j].blind = TRUE]
       /\ tick' = [tick EXCEPT ![w].at = "blind", ![w].task = db.job[j].task]
  /\ UNCHANGED supGoal

\* The outcome of that run for task and job, unless the job is no longer its.
BlindEnds(w) ==
  LET t == tick[w].task
      mine == {j \in DOMAIN db.job : /\ db.job[j].task = t /\ db.job[j].blind
                                     /\ Holds(w, db.job[j])}
  IN  /\ tick[w].at = "blind" /\ ~Locked("task", t)
      /\ \A j \in mine : ~Locked("job", j)
      /\ \E passed \in BOOLEAN :
           LET c == [db EXCEPT
                 !.job = [j \in DOMAIN @ |-> IF j \notin mine THEN @[j]
                            ELSE [@[j] EXCEPT !.status =
                                    IF passed THEN "completed"
                                    ELSE "failed"]],
                 !.task[t].status = IF @ = "cancelled" \/ mine = {} THEN @
                                    ELSE IF passed THEN "completed"
                                    ELSE "retryable"]
           IN  /\ db' = c
               /\ supGoal' = IF mine = {} THEN supGoal ELSE RolledUp(c)
      /\ tick' = [tick EXCEPT ![w] = IdleTick]
      /\ UNCHANGED upsets

\* _advance_mainai_execution_retries, wake_due_waiting_provider_backoff_tasks
\* and the reconciliation of parked spend.
WakeDue ==
  /\ \E t \in DOMAIN db.task :
       /\ db.task[t].status = "retryable" \/ db.task[t].why = "provider"
       /\ db.task[t].status \in {"retryable", "blocked"} /\ ~Locked("task", t)
       /\ db' = [db EXCEPT !.task[t].status = "ready", !.task[t].why = "none"]
  /\ UNCHANGED <<supGoal, tick, upsets>>

\* A dead attempt of a governed goal: the job fails, the task is ready again
\* for the Supervisor (_decline_takeover_for_governed_goal).
DeclineTakeover ==
  /\ \E t \in DOMAIN db.task :
       LET j == db.task[t].job
       IN  /\ j # 0 /\ db.task[t].status = "running"
           /\ ~Locked("task", t) /\ ~Locked("job", j)
           /\ \/ db.job[j].status = "running" /\ db.job[j].lapsed
              \/ db.job[j].status \in SupTerminal
           /\ db' = [db EXCEPT !.job[j].status = "failed",
                               !.task[t].status = "ready"]
  /\ UNCHANGED <<supGoal, tick, upsets>>

-----------------------------------------------------------------------------
(* Founder and faults                                                      *)

\* authorize_execution_scope: a new envelope supersedes the active one.
ChangeEnvelope ==
  /\ Upset
  /\ supGoal' = [supGoal EXCEPT !.env = @ + 1]
  /\ UNCHANGED <<db, tick>>

\* record_founder_correction waits for the goal row, which an insertion holds.
Correct ==
  /\ Upset
  /\ \A x \in Ticks : DOMAIN tick[x].mine.task \subseteq DOMAIN db.task
  /\ supGoal' = [supGoal EXCEPT !.instr = @ + 1, !.status = "running"]
  /\ UNCHANGED <<db, tick>>

RequestCancel ==
  /\ Upset
  /\ \E j \in DOMAIN db.job :
       /\ db.job[j].status \in {"queued", "running"} /\ ~Locked("job", j)
       /\ db' = [db EXCEPT !.job[j].cancel = TRUE]
  /\ UNCHANGED <<supGoal, tick>>

\* The process is killed, or stalls for longer than a lease lasts.
KillTick ==
  /\ Upset
  /\ \E w \in Ticks : tick[w].at # "idle" /\ Raises(w)
  /\ UNCHANGED supGoal
Stall ==
  /\ Upset
  /\ \/ /\ db.lease[1].by # NoWorker /\ db' = [db EXCEPT !.lease[1].lapsed = TRUE]
     \/ \E j \in DOMAIN db.job :
          /\ db.job[j].status = "running" /\ ~Locked("job", j)
          /\ db' = [db EXCEPT !.job[j].lapsed = TRUE]
  /\ UNCHANGED <<supGoal, tick>>

\* What nobody renews any more lapses by itself.
LeaseExpires ==
  /\ db.lease[1].by # NoWorker /\ ~db.lease[1].lapsed
  /\ tick[db.lease[1].by].at \in {"idle", "eligible"}
  /\ db' = [db EXCEPT !.lease[1].lapsed = TRUE]
  /\ UNCHANGED <<supGoal, tick, upsets>>

-----------------------------------------------------------------------------
TickStep(w) ==
  \/ ReadEligible(w) \/ ClaimGoal(w) \/ StopTick(w)
  \/ DispatchChosen(w) \/ ResumeChosen(w) \/ Prepare(w)
  \/ StopsRunning(w) \/ DriveRaises(w) \/ WaitsForProvider(w)
  \/ CapabilityIsMissing(w) \/ DriverFails(w)
  \/ DriverCompletes(w) \/ DriverCancels(w) \/ CancelReturns(w) \/ Reassess(w)
  \/ BlindEnds(w)
SupervisorNext ==
  \/ \E w \in Ticks : TickStep(w) \/ ClaimNext(w)
  \/ WakeDue \/ DeclineTakeover \/ LeaseExpires
  \/ ChangeEnvelope \/ Correct \/ RequestCancel \/ KillTick \/ Stall

\* A running worker keeps executing its tick, and row locks are granted in the
\* order they are asked for, so a waiting tick is not passed over for ever:
\* strong fairness.  Time passes.
SupervisorFairness ==
  /\ \A w \in Ticks : SF_supVars(TickStep(w) /\ tick[w].at # "idle")
  /\ WF_supVars(LeaseExpires)
SupervisorSpec ==
  SupervisorInit /\ [][SupervisorNext]_supVars /\ SupervisorFairness

-----------------------------------------------------------------------------
\* Rows and ticks stay within their types.
SupTypeOK ==
  /\ supGoal.status \in {"running", "completed", "failed"}
  /\ \A t \in DOMAIN db.task : db.task[t].status \in SupTaskStatuses
  /\ \A j \in DOMAIN db.job : db.job[j].status \in SupJobStatuses
  /\ db.lease[1].by \in Ticks \cup {NoWorker}
  /\ \A w \in Ticks :
       /\ tick[w].at \in {"idle", "eligible", "loop", "dispatched", "driving",
                          "completed", "cancelled", "blind"}
       /\ tick[w].at = "driving" => Job(w, View(w)) # 0

\* The goal's tasks share one working tree, without a marker of its own: the
\* lease of the goal must keep two workers from driving in it at once.
OneDriver ==
  \A w, x \in Ticks :
    tick[w].at = "driving" /\ tick[x].at = "driving" => w = x

\* No job of a task or of its repairs was claimed and run past the Supervisor.
NoBlindRun(t) ==
  \A j \in DOMAIN db.job :
    t \in {db.job[j].task, db.task[db.job[j].task].parent} => ~db.job[j].blind

\* A source has one repair open at a time: it stays parked, through takeovers
\* and resumptions, until that child has ended.  (A blind run of the source or
\* of the child may reopen it.)
OneOpenRepair ==
  \A t, u \in DOMAIN db.task :
    /\ db.task[t].parent # 0 /\ db.task[t].parent = db.task[u].parent
    /\ {db.task[t].status, db.task[u].status} \cap SupTerminal = {}
    /\ NoBlindRun(db.task[t].parent)
    => t = u

\* Repairs of repairs end: no lineage, of tasks each a repair of the one before
\* it, has more generations than the bound.
LineageBounded ==
  \A line \in [0..(MaxDepth + 1) -> DOMAIN db.task] :
    \E i \in 1..(MaxDepth + 1) : db.task[line[i]].parent # line[i - 1]

\* A task parked for the provider has given its job back: waking it can not
\* put a second live attempt beside the first.
ParkedIsReleased ==
  \A t \in DOMAIN db.task :
    db.task[t].why = "provider" /\ db.task[t].status = "blocked" =>
      db.task[t].job = 0
        \/ db.job[db.task[t].job].status \notin {"queued", "running"}

\* A tick completes only a task that is still its own, not one that recovery
\* has taken from it, and a completed task stays completed: takeovers,
\* resumptions and late answers included.  (A blind run may overwrite it.)
CompletedByItsJob ==
  [][\A t \in DOMAIN db.task :
       LET old == db.task[t]
           new == db'.task[t]
       IN  NoBlindRun(t) =>
           /\ old.status = "completed" => new = old
           /\ \A w \in Ticks :
                (old.status # new.status /\ new.status = "completed"
                   /\ tick[w].at = "driving" /\ tick'[w].at = "completed")
                => old.status = "running"]_supVars

\* A run that puts a task aside, completes work or stops always comes to an
\* end: no deferral sends it back to the same task for ever.
TickEnds == \A w \in Ticks : []<>(tick[w].at \in {"idle", "eligible"})

\* The states of the goal between ticks: typed, one driver, one open repair per
\* source, bounded lineages, and parked work that has let go of its job.
SupervisorInv ==
  SupTypeOK /\ OneDriver /\ OneOpenRepair /\ LineageBounded /\ ParkedIsReleased
=============================================================================
