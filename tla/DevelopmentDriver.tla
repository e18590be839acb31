-------------------------- MODULE DevelopmentDriver --------------------------
(***************************************************************************)
(* What a Supervisor tick does for one task once it holds the goal: plan   *)
(* (safe_planner), then the Development Driver walks the accepted plan and *)
(* the Development Operator changes the goal's working tree                *)
(* (development_driver/, development_operator/).                           *)
(*                                                                         *)
(* Rows are committed only when a tick returns; files, the git index and   *)
(* git commits are there at once and stay when the tick is killed.  A job  *)
(* first claimed by the tick resets the tree to HEAD; a job resumed by the *)
(* same worker goes on from its last checkpoint and the files as they are. *)
(***************************************************************************)
EXTENDS Integers, Sequences, FiniteSets, TLC

CONSTANTS DevFiles,     \* paths of the plan
          DevPlans,     \* candidate plans, one of which the task gets
          MaxActions,   \* run_driver's max_actions
          MaxFailures,  \* DevelopmentPlan.max_failures
          MaxAttempts,  \* bound on jobs of the task
          MaxDevUpsets  \* bound on kills, lapses, cancels, new envelopes

DevCapabilities ==
  {"read_file", "patch_file", "delete_file", "run_focused_test",
   "stage_scoped_changes", "commit_scoped_changes", "unregistered",
   "verification_evaluate", "provider_step", "external_review"}
Absent == 0  \* content of a file that is not there
DevSteps == [capability : DevCapabilities, path : DevFiles, before : Nat,
             after : Nat, retry : BOOLEAN, required : BOOLEAN,
             independent : BOOLEAN]
ASSUME PlansAssumption ==
  \A p \in DevPlans :
    /\ p \in [recipe : BOOLEAN, steps : Seq(DevSteps)] /\ p.steps # <<>>
    /\ \A i \in DOMAIN p.steps :
         p.steps[i].capability = "delete_file" => p.steps[i].after = Absent
ASSUME DriverBounds ==
  /\ MaxActions \in Nat \ {0} /\ MaxFailures \in Nat
  /\ MaxAttempts \in Nat \ {0} /\ MaxDevUpsets \in Nat

VARIABLES
  dev,     \* the task: its candidate plan
  tree,    \* the goal's worktree: files, index, HEAD, write intents, commits
  rows,    \* committed rows of the current attempt
  drive,   \* the tick that drives it, with its uncommitted rows
  world    \* envelope, lease and cancellation, as others see them
devVars == <<dev, tree, rows, drive, world>>

Results == {"succeeded", "failed", "capability_missing"}
DriverState(n) == [next |-> 1, failures |-> 0, completed |-> <<>>,
                   attempts |-> [i \in 1..n |-> 0], pending |-> FALSE]
Attempt(n, verified) ==
  [n |-> n, job |-> "queued", plan |-> <<>>, state |-> DriverState(0),
   verified |-> verified]
NoTick == [at |-> "idle", open |-> <<>>, actions |-> 0, env |-> 0]

DriverInit ==
  /\ dev \in DevPlans
  /\ LET base == [f \in DevFiles |->
                    IF \E i \in DOMAIN dev.steps :
                         /\ dev.steps[i].path = f
                         /\ dev.steps[i].before = 1
                    THEN 1 ELSE Absent]
     IN  tree = [files |-> base, index |-> base, head |-> base,
                 intents |-> {}, commits |-> {}]
  /\ rows = Attempt(1, [a \in 1..MaxAttempts |-> "none"])
  /\ drive = NoTick
  /\ world = [env |-> 1, lapsed |-> FALSE, cancel |-> FALSE,
              revoked |-> FALSE, effects |-> 0, upsets |-> 0]

-----------------------------------------------------------------------------
(* Ends of a tick                                                          *)

open == drive.open
Proceeds(at, o) ==
  drive' = [drive EXCEPT !.at = at, !.open = o] /\ UNCHANGED rows
\* The tick returns and the worker commits.
Returns(o) == rows' = o /\ drive' = NoTick
\* The Supervisor gives the attempt up: it releases the job, or parks the
\* task for a repair, and dispatches a new job later.
Parks(o) == Returns([o EXCEPT !.job = "failed"])
\* An exception: the worker rolls back.
Errs == drive' = NoTick /\ UNCHANGED rows

-----------------------------------------------------------------------------
(* The tick claims the job and plans                                       *)

\* Mutant: the tree is reset on a resumption too.
IsFreshAlways(job) == job \in {"queued", "running"}
IsFresh(job) == job = "queued"
\* prepare_context: a fresh claim resets the tree to its last commit, write
\* intents included; the same worker resumes within its lease.
TickStarts ==
  /\ drive.at = "idle"
  /\ rows.job = "queued" \/ (rows.job = "running" /\ ~world.lapsed)
  /\ drive' = [at |-> "plan", open |-> [rows EXCEPT !.job = "running"],
               actions |-> 0, env |-> world.env]
  /\ tree' = IF IsFresh(rows.job)
             THEN [tree EXCEPT !.files = tree.head, !.index = tree.head,
                               !.intents = {}]
             ELSE tree
  /\ world' = [world EXCEPT !.lapsed = FALSE, !.revoked = world.cancel,
                            !.effects = 0]
  /\ UNCHANGED <<dev, rows>>

\* The plan the task gets now: a repair recipe takes the expected contents
\* from the files as they are (build_multiplication_repair_candidate).
PlannedSteps ==
  [i \in DOMAIN dev.steps |->
     IF dev.recipe /\ dev.steps[i].capability = "patch_file"
     THEN [dev.steps[i] EXCEPT !.before = tree.files[dev.steps[i].path]]
     ELSE dev.steps[i]]
\* validate_candidate: one accepted plan per job, unless it is a revision.
\* Another candidate is refused, and the tick returns OUT_OF_SCOPE.
PlanTask ==
  /\ drive.at = "plan"
  /\ \/ /\ open.plan \notin {<<>>, PlannedSteps} \/ world.cancel
        /\ Returns(open)
     \/ /\ open.plan \in {<<>>, PlannedSteps} /\ ~world.cancel
        /\ Proceeds("loop", IF open.plan = PlannedSteps THEN open
                            ELSE [open EXCEPT !.plan = PlannedSteps,
                                    !.state = DriverState(Len(PlannedSteps))])
  /\ UNCHANGED <<dev, tree, world>>

-----------------------------------------------------------------------------
(* run_driver: directives                                                  *)

Here == open.state.next
Step == open.plan[Here]
InPlan == drive.at = "loop" /\ Here <= Len(open.plan)
BoundReached == drive.actions >= MaxActions
WaitsHere == open.state.pending /\ ~Step.independent
At(capabilities) ==
  InPlan /\ ~BoundReached /\ ~WaitsHere /\ Step.capability \in capabilities

\* ACTION_BOUND_REACHED: the job stays running for a later tick.
ActionBound ==
  /\ InPlan /\ BoundReached
  /\ Returns(open)
  /\ UNCHANGED <<dev, tree, world>>

\* WAITING_PROVIDER
WaitProvider ==
  /\ InPlan /\ ~BoundReached /\ WaitsHere
  /\ Parks(open)
  /\ UNCHANGED <<dev, tree, world>>

AfterProvider(s) == [s EXCEPT !.pending = TRUE, !.next = @ + 1]
\* provider_step: what does not need the provider goes on.
ProviderStep ==
  /\ At({"provider_step"})
  /\ LET o == [open EXCEPT !.state = AfterProvider(@)]
     IN  IF \E i \in (Here + 1)..Len(open.plan) : open.plan[i].independent
         THEN Proceeds("loop", o) ELSE Parks(o)
  /\ UNCHANGED <<dev, tree, world>>

\* EXTERNAL_REVIEW_REQUIRED
ExternalReview ==
  /\ At({"external_review"})
  /\ Returns(open)
  /\ UNCHANGED <<dev, tree, world>>

Entry(i, result) == [step |-> i, result |-> result]
\* Every result a required step ever had counts, a retried failure too.
EvidencePasses(s) ==
  LET required == {k \in DOMAIN s.completed :
                     open.plan[s.completed[k].step].required}
  IN  /\ required # {}
      /\ \A k \in required : s.completed[k].result = "succeeded"
\* verification_evaluate: the checkpoint commit_changes and the end look at.
Evaluate ==
  /\ At({"verification_evaluate"})
  /\ LET passed == EvidencePasses(open.state)
         o == [open EXCEPT !.verified[open.n] =
                             IF passed THEN "passed" ELSE "failed"]
     IN  IF passed
         THEN drive' = [drive EXCEPT !.actions = @ + 1,
                !.open = [o EXCEPT !.state.next = @ + 1,
                  !.state.completed = Append(@, Entry(Here, "succeeded"))]]
              /\ UNCHANGED rows
         ELSE Parks(o)
  /\ UNCHANGED <<dev, tree, world>>

-----------------------------------------------------------------------------
(* run_driver: operator steps                                              *)

\* _require_context: envelope, lease and link are read again at each effect.
Authorized == world.env = drive.env /\ ~world.lapsed
MayAct == Authorized /\ ~world.cancel
Operator ==
  DevCapabilities \ {"verification_evaluate", "provider_step",
                     "external_review"}

\* A cancel is CANCELLED, anything else STALE_AUTHORITY.
StopsBefore ==
  /\ At(Operator) /\ ~MayAct
  /\ Returns(open)
  /\ UNCHANGED <<dev, tree, world>>

FailedState(s, retries) ==
  [s EXCEPT !.failures = @ + 1, !.next = IF retries THEN @ - 1 ELSE @]

\* The result of the step at hand: completed, attempts and next_step move
\* before the operator's own checkpoint asks for authority once more.
Records(result) ==
  LET s == [open.state EXCEPT !.completed = Append(@, Entry(Here, result)),
                              !.attempts[Here] = @ + 1, !.next = @ + 1]
      o == [open EXCEPT !.state = s]
      retries == Step.retry /\ s.failures + 1 <= MaxFailures
      f == [open EXCEPT !.state = FailedState(s, retries)]
  IN  IF ~Authorized THEN Returns(o)
      ELSE IF result = "capability_missing" THEN Returns(o)
      ELSE IF result = "succeeded"
      THEN /\ drive' = [drive EXCEPT !.at = "loop", !.open = o,
                                     !.actions = @ + 1]
           /\ UNCHANGED rows
      ELSE IF retries THEN Returns(f) ELSE Parks(f)

\* read_file, search_text, list_files, inspect_repository
ReadsFile ==
  /\ At({"read_file"}) /\ MayAct
  /\ Records("succeeded")
  /\ UNCHANGED <<dev, tree, world>>

\* run_profile
RunsCheck ==
  /\ At({"run_focused_test"}) /\ MayAct
  /\ \E result \in {"succeeded", "failed"} : Records(result)
  /\ UNCHANGED <<dev, tree, world>>

CapabilityMissing ==
  /\ At({"unregistered"}) /\ MayAct
  /\ Records("capability_missing")
  /\ UNCHANGED <<dev, tree, world>>

\* An effect on the tree, counted when it comes after a revocation.
Effect ==
  world' = [world EXCEPT !.effects = IF world.revoked THEN @ + 1 ELSE @]

\* The key of a step, which a write intent also carries.
Key == [n |-> open.n, step |-> Here, attempt |-> open.state.attempts[Here]]
\* write_file: nothing is replayed, since an action's trace and the
\* checkpoint that steps over it are committed together.  A write that
\* landed before a kill is recognised by its intent.
WriteRecovered ==
  /\ At({"patch_file"}) /\ MayAct
  /\ tree.files[Step.path] = Step.after /\ Key \in tree.intents
  /\ Records("succeeded")
  /\ tree' = [tree EXCEPT !.intents = @ \ {Key}]
  /\ UNCHANGED <<dev, world>>
WriteIntended ==
  /\ At({"patch_file"}) /\ MayAct
  /\ ~(tree.files[Step.path] = Step.after /\ Key \in tree.intents)
  /\ IF tree.files[Step.path] = Step.before
     THEN /\ tree' = [tree EXCEPT !.intents = @ \cup {Key}]
          /\ Proceeds("intended", open)
     ELSE Errs /\ UNCHANGED tree
  /\ UNCHANGED <<dev, world>>
WriteLands ==
  /\ drive.at = "intended"
  /\ tree' = [tree EXCEPT !.files[Step.path] = Step.after]
  /\ Proceeds("landed", open) /\ Effect
  /\ UNCHANGED dev

\* A delete leaves no intent.
DeleteLands ==
  /\ At({"delete_file"}) /\ MayAct
  /\ IF tree.files[Step.path] = Step.before /\ Step.before # Absent
     THEN /\ tree' = [tree EXCEPT !.files[Step.path] = Absent]
          /\ Proceeds("landed", open) /\ Effect
     ELSE Errs /\ UNCHANGED <<tree, world>>
  /\ UNCHANGED dev

\* stage_scoped_changes
StageLands ==
  /\ At({"stage_scoped_changes"}) /\ MayAct
  /\ tree' = [tree EXCEPT !.index = tree.files]
  /\ Proceeds("landed", open) /\ Effect
  /\ UNCHANGED dev

\* latest_checkpoint_for_step: this task and this job.
Verified(o) == o.verified[o.n] = "passed"
\* commit_changes
CommitLands ==
  /\ At({"commit_scoped_changes"}) /\ MayAct
  /\ IF Verified(open) /\ tree.index # tree.head
     THEN /\ tree' = [tree EXCEPT !.head = tree.index,
                !.commits = @ \cup {[by |-> open.n, files |-> tree.index,
                                     passed |-> open.verified[open.n]]}]
          /\ Proceeds("landed", open) /\ Effect
     ELSE Errs /\ UNCHANGED <<tree, world>>
  /\ UNCHANGED dev

\* The audit is flushed and the intent removed; the audit's commit comes
\* with the end of the tick.
EffectRecorded ==
  /\ drive.at = "landed"
  /\ Records("succeeded")
  /\ tree' = [tree EXCEPT !.intents = @ \ {Key}]
  /\ UNCHANGED <<dev, world>>

-----------------------------------------------------------------------------
(* run_driver: the end of the plan                                         *)

PendingAtEnd(s) == s.pending
\* Waiting, unverified, cancelled or complete; the last two are committed
\* with the task's own outcome.
PlanEnds ==
  /\ drive.at = "loop" /\ Here > Len(open.plan)
  /\ IF PendingAtEnd(open.state) \/ ~Verified(open) THEN Parks(open)
     ELSE Returns([open EXCEPT !.job = IF world.cancel THEN "cancelled"
                                       ELSE "completed"])
  /\ UNCHANGED <<dev, tree, world>>

-----------------------------------------------------------------------------
(* Others                                                                  *)

\* Recovery fails a lapsed attempt; it, a repair or a wake-up leads to a new
\* job, which remembers nothing of this one but the commits.
NewAttempt ==
  /\ drive.at = "idle" /\ rows.n < MaxAttempts
  /\ rows.job = "failed" \/ (rows.job = "running" /\ world.lapsed)
  /\ rows' = Attempt(rows.n + 1, rows.verified)
  /\ world' = [world EXCEPT !.cancel = FALSE]
  /\ UNCHANGED <<dev, tree, drive>>

DevUpset(w) ==
  /\ world.upsets < MaxDevUpsets
  /\ world' = [w EXCEPT !.upsets = @ + 1, !.revoked = TRUE]
NewEnvelope ==
  /\ DevUpset([world EXCEPT !.env = @ + 1])
  /\ UNCHANGED <<dev, tree, rows, drive>>
\* A job claimed by the open tick is locked: a cancel waits for its end.
CancelJob ==
  /\ rows.job \in {"queued", "running"}
  /\ drive.at = "idle" \/ rows.job = "running"
  /\ DevUpset([world EXCEPT !.cancel = TRUE])
  /\ UNCHANGED <<dev, tree, rows, drive>>
\* The goal's or the job's lease runs out.
LeaseLapses ==
  /\ rows.job = "running" \/ drive.at # "idle"
  /\ DevUpset([world EXCEPT !.lapsed = TRUE])
  /\ UNCHANGED <<dev, tree, rows, drive>>
\* The process dies, or an operation fails unexpectedly.
TickDies ==
  /\ drive.at # "idle" /\ world.upsets < MaxDevUpsets
  /\ world' = [world EXCEPT !.upsets = @ + 1]
  /\ Errs
  /\ UNCHANGED <<dev, tree>>

-----------------------------------------------------------------------------
DriveStep ==
  \/ PlanTask \/ ActionBound \/ WaitProvider \/ ProviderStep \/ ExternalReview
  \/ Evaluate \/ StopsBefore \/ ReadsFile \/ RunsCheck \/ CapabilityMissing
  \/ WriteRecovered \/ WriteIntended \/ WriteLands \/ DeleteLands
  \/ StageLands \/ CommitLands \/ EffectRecorded \/ PlanEnds
DriverNext ==
  \/ TickStarts \/ DriveStep \/ NewAttempt
  \/ NewEnvelope \/ CancelJob \/ LeaseLapses \/ TickDies

\* A worker that drives goes on driving: one process, one call at a time.
DriverFairness == WF_devVars(DriveStep)
DriverSpec == DriverInit /\ [][DriverNext]_devVars /\ DriverFairness

-----------------------------------------------------------------------------
\* Rows, files and ticks stay within their types.
DriverTypeOK ==
  /\ rows.job \in {"queued", "running", "failed", "completed", "cancelled"}
  /\ rows.state.next \in 1..(Len(rows.plan) + 1)
  /\ \A k \in DOMAIN rows.state.completed :
       rows.state.completed[k].result \in Results
  /\ DOMAIN tree.files = DevFiles /\ tree.commits \in SUBSET
       [by : 1..MaxAttempts, files : [DevFiles -> Nat],
        passed : {"none", "passed", "failed"}]
  /\ drive.at \in {"idle", "plan", "loop", "intended", "landed"}

\* What a resumed attempt finds on disk is what its checkpoint says was
\* written, or what its next steps write: no tick between has lost it.
DiskFollowsCheckpoint ==
  (drive.at = "idle" /\ rows.job = "running") =>
    \A f \in DevFiles :
      LET writes == {i \in DOMAIN rows.plan :
                       /\ rows.plan[i].capability \in {"patch_file",
                                                       "delete_file"}
                       /\ rows.plan[i].path = f}
          done == {i \in writes : i < rows.state.next}
          last == CHOOSE i \in done : \A j \in done : j <= i
      IN  done # {} =>
            tree.files[f] \in {rows.plan[last].after}
                                \cup {rows.plan[i].after : i \in writes \ done}

\* After the founder revokes, replaces or cancels, or the lease is lost, at
\* most the effect already under way still lands.
OneEffectAfterRevocation == world.effects <= 1

\* commit_changes: no commit without this attempt's own passed verification.
CommitHasItsCheck == \A c \in tree.commits : c.passed = "passed"

\* Completed work did all its plan says, the provider's part included, and
\* this attempt's verification passed, on checks that all succeeded.  Only a
\* missing tool, and a check that failed while the authority was lost, are
\* passed over.
MayBePassedOver == {"unregistered", "run_focused_test"}
CompletedDidItAll ==
  rows.job = "completed" =>
    /\ rows.verified[rows.n] = "passed"
    /\ \A i \in DOMAIN rows.plan : \E k \in DOMAIN rows.state.completed :
         /\ rows.state.completed[k].step = i
         /\ \/ rows.state.completed[k].result = "succeeded"
            \/ rows.plan[i].capability \in MayBePassedOver
    /\ \A e \in DOMAIN rows.plan, k \in DOMAIN rows.state.completed :
         LET entry == rows.state.completed[k]
         IN  (/\ rows.plan[e].capability = "verification_evaluate"
              /\ entry.step < e /\ rows.plan[entry.step].required)
               => entry.result = "succeeded"

\* A failing step is not tried for ever: over all ticks of an attempt it
\* fails once more than max_failures at most.
RetriesBounded ==
  \A i \in DOMAIN rows.plan :
    Cardinality({k \in DOMAIN rows.state.completed :
                   rows.state.completed[k] = Entry(i, "failed")})
      <= MaxFailures + 1

\* Every tick comes back to its worker.
TickReturns == []<>(drive.at = "idle")

\* The states of an attempt: typed, its files what its checkpoint says,
\* nothing done without authority, no commit unchecked, nothing left undone
\* at the end and failures bounded.
DriverInv ==
  /\ DriverTypeOK /\ DiskFollowsCheckpoint /\ OneEffectAfterRevocation
  /\ CommitHasItsCheck /\ CompletedDidItAll /\ RetriesBounded
=============================================================================
