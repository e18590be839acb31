--------------------------- MODULE GoalExecution ---------------------------
(***************************************************************************)
(* One goal with its plans and their task graph: planning and automatic    *)
(* replanning around an AI call (planner.py, replan.py), readiness         *)
(* (graph.py), approval, dispatch, retry and cancel (executor.py), the     *)
(* outcome of an attempt and the wait for CI (execution_job.py,            *)
(* ci_wait.py), insertion into the active plan (plan_insertion.py) and the *)
(* roll-up of the goal (final_report.py), by the worker's ticks, the       *)
(* runners and the founder.                                                *)
(*                                                                         *)
(* Every action is one transaction.  What a runner does before its outcome *)
(* and how a dead one is replaced is TaskRecovery's; here a job ends.      *)
(***************************************************************************)
EXTENDS Integers, Sequences, FiniteSets, FiniteSetsExt

CONSTANTS Shapes,          \* plans the AI may propose: sequences of task specs
          Keys,            \* idempotency keys of insertions
          MaxAutoReplans,  \* replan.MAX_AUTO_REPLANS
          MaxInterventions \* plan requests, insertions and cancels

Kinds == {"audit", "edit", "pr"}
ASSUME ShapesAssumption ==
  \A s \in Shapes :
    s \in Seq([kind : Kinds, deps : SUBSET Nat, needs : BOOLEAN,
               max : Nat \ {0}])
ASSUME KeysAssumption == "none" \notin Keys
ASSUME BoundsAssumption ==
  MaxAutoReplans \in Nat /\ MaxInterventions \in Nat

VARIABLES
  goal,      \* the mainai_goals row
  plans,     \* the mainai_plans rows of the goal, oldest first
  task,      \* the mainai_tasks rows of the goal, oldest first
  planner,   \* the founder's request and the replan tick: awaiting the AI?
  used       \* interventions so far
vars == <<goal, plans, task, planner, used>>

Planners == {"founder", "replan"}
Terminal == {"completed", "failed", "cancelled"}
GoalTerminal == {"completed", "failed"}
Statuses == {"pending", "ready", "running", "waiting_ci", "blocked",
             "retryable"} \cup Terminal

GoalRow(status, version) == [status |-> status, version |-> version]
PlanRow(version, by) == [version |-> version, active |-> TRUE, by |-> by]
NewTask(spec, plan, deps, key) ==
  [plan |-> plan, kind |-> spec.kind, needs |-> spec.needs, deps |-> deps,
   max |-> spec.max, granted |-> FALSE, status |-> "pending", attempts |-> 0,
   job |-> FALSE, cancel |-> FALSE, wait |-> FALSE, key |-> key]

\* A planner that awaits no answer; the version is what it read before.
Answered == [awaiting |-> FALSE, version |-> 0]

Init ==
  /\ goal = GoalRow("pending", 0)
  /\ plans = <<>>
  /\ task = <<>>
  /\ planner = [p \in Planners |-> Answered]
  /\ used = 0

ActivePlans == {i \in DOMAIN plans : plans[i].active}
OfPlan(ts, p) == {t \in DOMAIN ts : ts[t].plan = p}

-----------------------------------------------------------------------------
(* The graph                                                               *)

\* _detect_cycle: some nodes each have an edge to another of them.
Cyclic(nodes, deps) ==
  \E S \in (SUBSET nodes) \ {{}} : \A n \in S : deps[n] \cap S # {}

\* recompute_task_readiness.
Recompute(ts) ==
  [t \in DOMAIN ts |->
     LET of == {ts[d].status : d \in ts[t].deps}
     IN  IF ts[t].status # "pending" THEN ts[t]
         ELSE IF of \cap {"failed", "cancelled"} # {}
              THEN [ts[t] EXCEPT !.status = "blocked"]
              ELSE IF of \subseteq {"completed"}
                   THEN [ts[t] EXCEPT !.status = "ready"]
                   ELSE ts[t]]

\* _cascade_cancel_dependents_blocked_by_cancelled with the recomputation
\* between its passes: every open task that a cancelled one is upstream of.
Cascade(ts) ==
  LET open == {t \in DOMAIN ts : ts[t].status \in {"pending", "blocked"}}
      down == UNION {X \in SUBSET open : \A t \in X : \E d \in ts[t].deps :
                       ts[d].status = "cancelled" \/ d \in X}
  IN  [t \in DOMAIN ts |-> IF t \in down
                          THEN [ts[t] EXCEPT !.status = "cancelled"] ELSE ts[t]]

\* generate_goal_report's outcomes: those of the tasks of all plans.
Outcomes(ts) == {ts[t].status : t \in DOMAIN ts}

\* record_final_report: the status of the goal given its tasks.
Report(ts) ==
  LET of == Outcomes(ts)
      idle == "waiting_ci" \in of /\ of \cap {"running", "ready"} = {}
  IN  IF goal.status \in GoalTerminal THEN goal.status
      ELSE IF of # {} /\ of \subseteq Terminal
           THEN IF of = {"completed"} THEN "completed" ELSE "failed"
           ELSE IF idle /\ goal.status = "running" THEN "waiting"
                ELSE IF ~idle /\ goal.status = "waiting" THEN "running"
                     ELSE goal.status

-----------------------------------------------------------------------------
(* Planning: a request waits for the AI, then create_plan takes the goal's *)
(* lock and reads the goal again.                                          *)

ValidPlan(spec) ==
  /\ spec # <<>>
  /\ \A i \in DOMAIN spec : spec[i].deps \subseteq DOMAIN spec
  /\ ~Cyclic(DOMAIN spec, [i \in DOMAIN spec |-> spec[i].deps])

\* The active plan is superseded and its open tasks cancelled; their jobs and
\* waits are left alone.
Superseded(ts) ==
  [t \in DOMAIN ts |->
     IF plans[ts[t].plan].active /\ ts[t].status \notin Terminal
     THEN [ts[t] EXCEPT !.status = "cancelled"] ELSE ts[t]]

\* create_plan, which also (re)starts the goal.
CreatePlan(p, spec, version) ==
  LET n == Len(task)
      new == [i \in DOMAIN spec |->
                NewTask(spec[i], Len(plans) + 1,
                        {n + d : d \in spec[i].deps}, "none")]
  IN  /\ ValidPlan(spec)
      /\ plans' = Append([i \in DOMAIN plans |->
                            [plans[i] EXCEPT !.active = FALSE]],
                         PlanRow(version, p))
      /\ task' = Recompute(Superseded(task) \o new)
      /\ goal' = GoalRow("running", version)
      /\ planner' = [planner EXCEPT ![p] = Answered]
      /\ UNCHANGED used

Intervene == used < MaxInterventions /\ used' = used + 1

\* propose_and_create_plan until the AI call.
FounderAsks ==
  /\ ~planner["founder"].awaiting /\ Intervene
  /\ planner' = [planner EXCEPT !["founder"] =
                   [awaiting |-> TRUE, version |-> goal.version]]
  /\ UNCHANGED <<goal, plans, task>>

\* find_replan_trigger's bound: how many plans there were, whoever made them.
ReplanDue == goal.version - 1 < MaxAutoReplans

\* find_replan_trigger and trigger_replan until the AI call.
ReplanAsks ==
  /\ ~planner["replan"].awaiting
  /\ goal.status \in {"pending", "running", "waiting"}
  /\ ReplanDue
  /\ \E t \in DOMAIN task :
       task[t].plan \in ActivePlans /\ task[t].status = "failed"
  /\ planner' = [planner EXCEPT !["replan"] =
                   [awaiting |-> TRUE, version |-> goal.version]]
  /\ UNCHANGED <<goal, plans, task, used>>

\* Mutant: the version is the one read before the AI call.
PlannedStale(p) ==
  /\ planner[p].awaiting
  /\ \E spec \in Shapes : CreatePlan(p, spec, planner[p].version + 1)

\* The AI has answered with a valid plan.
Planned(p) ==
  /\ planner[p].awaiting
  /\ \E spec \in Shapes : CreatePlan(p, spec, goal.version + 1)

\* The call fails or create_plan refuses the answer: rolled back.
PlanRefused(p) ==
  /\ planner[p].awaiting
  /\ \E spec \in Shapes : ~ValidPlan(spec)
  /\ planner' = [planner EXCEPT ![p] = Answered]
  /\ UNCHANGED <<goal, plans, task, used>>

\* _find_replay: the key has not been used in this plan; a replay returns the
\* tasks inserted before, or is refused when its content differs.
NoReplay(a, key) == \A t \in OfPlan(task, a) : task[t].key # key

\* _SAFE_TO_ADD_PREREQUISITE_STATUSES.
SafeForPrerequisite == {"pending", "blocked"}

\* The cycle check of an insertion: the plan's graph with the new task, n.
InsertionCyclic(a, after, before) ==
  LET n == Len(task) + 1
  IN  Cyclic(OfPlan(task, a) \cup {n},
             [t \in OfPlan(task, a) \cup {n} |->
                IF t = n THEN after
                ELSE task[t].deps \cup (IF t \in before THEN {n} ELSE {})])

\* What insert_plan_tasks validates; the goal's status is not looked at.
InsertionValid(a, key, after, before) ==
  /\ NoReplay(a, key)
  /\ after \cup before \subseteq OfPlan(task, a)
  /\ \A t \in after : task[t].status \notin {"failed", "cancelled"}
  /\ \A t \in before : task[t].status \in SafeForPrerequisite
  /\ ~InsertionCyclic(a, after, before)

\* insert_plan_tasks with one new task, which depends on `after` and is a new
\* prerequisite of `before`.
Insert(key, spec, after, before) ==
  /\ Intervene
  /\ \E a \in ActivePlans :
       /\ InsertionValid(a, key, after, before)
       /\ task' = Recompute(Append(
            [t \in DOMAIN task |->
               IF t \in before
               THEN [task[t] EXCEPT !.deps = @ \cup {Len(task) + 1}]
               ELSE task[t]],
            NewTask(spec, a, after, key)))
  /\ UNCHANGED <<goal, plans, planner>>

-----------------------------------------------------------------------------
(* Tasks                                                                   *)

\* grant_task_approval.
Approve(t) ==
  /\ task[t].needs /\ ~task[t].granted
  /\ task' = [task EXCEPT ![t].granted = TRUE]
  /\ UNCHANGED <<goal, plans, planner, used>>

\* require_task_approval.
Approved(t) == task[t].needs => task[t].granted

\* dispatch_ready_task, by auto-advance or by the supervisor.
Dispatch(t) ==
  /\ task[t].status = "ready" /\ Approved(t)
  /\ task' = [task EXCEPT ![t].status = "running", ![t].job = TRUE,
                          ![t].cancel = FALSE, ![t].attempts = @ + 1]
  /\ UNCHANGED <<goal, plans, planner, used>>

\* Mutant: a failed task can be retried.
RetryableFailed == {"retryable", "failed"}

\* RETRYABLE_MAINAI_TASK_STATUSES.
Retryable == {"retryable"}

\* retry_task, once next_retry_at is due or by the founder.
Retry(t) ==
  /\ task[t].status \in Retryable
  /\ task' = [task EXCEPT ![t].status = "ready"]
  /\ UNCHANGED <<goal, plans, planner, used>>

\* cancel_task: a running task's job is asked; any other open task is
\* cancelled with its wait and its dependents.
Cancel(t) ==
  /\ Intervene
  /\ \/ /\ task[t].status = "running" /\ ~task[t].cancel
        /\ task' = [task EXCEPT ![t].cancel = TRUE]
     \/ /\ task[t].status \in Statuses \ (Terminal \cup {"running"})
        /\ task' = Cascade(Recompute([task EXCEPT ![t].status = "cancelled",
                                                  ![t].wait = FALSE]))
  /\ UNCHANGED <<goal, plans, planner>>

\* Mutant: readiness is not recomputed.
RollUpStale(ts, t) ==
  /\ task' = ts
  /\ goal' = IF ts[t].status \in {"failed", "retryable"} THEN goal
             ELSE [goal EXCEPT !.status = Report(ts)]
  /\ UNCHANGED <<plans, planner, used>>

\* The transaction that ends with _rollup_goal_after_task_boundary: a failed
\* attempt leaves the goal to the replan and finalize ticks.
RollUp(ts, t) ==
  LET us == Recompute(ts)
  IN  /\ task' = us
      /\ goal' = IF ts[t].status \in {"failed", "retryable"} THEN goal
                 ELSE [goal EXCEPT !.status = Report(us)]
      /\ UNCHANGED <<plans, planner, used>>

\* _finalize_task_outcome of row r.  A pass is void for a cancelled task and
\* a cancel when one was asked for; a failure looks at the attempts alone.
Outcome(r, passed) ==
  LET to == IF ~passed THEN IF r.attempts < r.max THEN "retryable" ELSE "failed"
            ELSE IF r.cancel \/ r.status = "cancelled" THEN "cancelled"
                 ELSE "completed"
  IN  [r EXCEPT !.status = to, !.cancel = FALSE, !.job = FALSE, !.wait = FALSE]

\* _find_repo_edit_branch: an edit of the goal, of whatever plan, completed.
BranchFound == \E t \in DOMAIN task :
                 task[t].kind = "edit" /\ task[t].status = "completed"

\* _handle_open_pr refuses without a branch; an open pull request is reused.
OpensPR(t) == task[t].kind = "pr" /\ BranchFound

\* start_ci_wait, whatever the status was.
WaitStarted(r) ==
  [r EXCEPT !.status = "waiting_ci", !.job = FALSE, !.wait = TRUE]

\* The job of t passes.  A pull request, once open, waits for CI; a task that
\* was cancelled under its job stays as it is, without a roll-up.
JobPasses(t) ==
  /\ task[t].job
  /\ \/ /\ OpensPR(t)
        /\ task' = [task EXCEPT ![t] = WaitStarted(task[t])]
        /\ UNCHANGED <<goal, plans, planner, used>>
     \/ /\ task[t].kind # "pr" /\ task[t].status # "cancelled"
        /\ RollUp([task EXCEPT ![t] = Outcome(task[t], TRUE)], t)
     \/ /\ task[t].kind # "pr" /\ task[t].status = "cancelled"
        /\ task' = [task EXCEPT ![t] = Outcome(task[t], TRUE)]
        /\ UNCHANGED <<goal, plans, planner, used>>

\* Its work or its verification fails.
JobFails(t) ==
  /\ task[t].job
  /\ RollUp([task EXCEPT ![t] = Outcome(task[t], FALSE)], t)

\* It sees the cancel request: _finalize_cancelled_task, without a cascade.
JobCancelled(t) ==
  /\ task[t].job /\ task[t].cancel
  /\ RollUp([task EXCEPT ![t].status = "cancelled", ![t].job = FALSE,
                         ![t].cancel = FALSE], t)

\* evaluate_check_runs: nothing is concluded while there is no run or an open
\* one; neutral and skipped pass, anything unknown fails.
CheckRuns == {"open", "passing", "other"}
Concluded(runs) == runs # {} /\ "open" \notin runs
AllPass(runs) == runs \subseteq {"passing"}

\* resume_waiting_ci_task: the checks have concluded.  The wait of a task that
\* no longer waits stays pending and is passed over.
CIConcludes(t, runs) ==
  /\ task[t].wait /\ task[t].status = "waiting_ci"
  /\ Concluded(runs)
  /\ RollUp([task EXCEPT ![t] = Outcome(task[t], AllPass(runs))], t)

\* They have not when the deadline has passed.
CITimesOut(t) ==
  /\ task[t].wait /\ task[t].status = "waiting_ci"
  /\ RollUp([task EXCEPT ![t] = Outcome(task[t], FALSE)], t)

\* _finalize_mainai_execution_goals, and GET /goals/{id}/report.
Finalize ==
  /\ goal.status \in {"pending", "running", "waiting"}
  /\ Report(task) # goal.status
  /\ goal' = [goal EXCEPT !.status = Report(task)]
  /\ UNCHANGED <<plans, task, planner, used>>

-----------------------------------------------------------------------------
AtMostOne(S) == {{}} \cup {{t} : t \in S}
InsertSpec == [kind |-> "audit", deps |-> {}, needs |-> FALSE, max |-> 1]

Next ==
  \/ FounderAsks
  \/ ReplanAsks
  \/ \E p \in Planners : Planned(p)
  \/ \E p \in Planners : PlanRefused(p)
  \/ \E k \in Keys, s, u \in AtMostOne(DOMAIN task) : Insert(k, InsertSpec, s, u)
  \/ \E t \in DOMAIN task : Approve(t)
  \/ \E t \in DOMAIN task : Dispatch(t)
  \/ \E t \in DOMAIN task : Retry(t)
  \/ \E t \in DOMAIN task : Cancel(t)
  \/ \E t \in DOMAIN task : JobPasses(t)
  \/ \E t \in DOMAIN task : JobFails(t)
  \/ \E t \in DOMAIN task : JobCancelled(t)
  \/ \E t \in DOMAIN task, runs \in SUBSET CheckRuns : CIConcludes(t, runs)
  \/ \E t \in DOMAIN task : CITimesOut(t)
  \/ Finalize

Spec == Init /\ [][Next]_vars

\* The worker's ticks come round, its jobs end and deadlines pass; neither the
\* founder nor GitHub need do anything.
AllTasks == 1..((MaxInterventions + MaxAutoReplans)
                 * Max({Len(s) : s \in Shapes}))
Advance(t) ==
  /\ t \in DOMAIN task
  /\ \/ Dispatch(t) \/ Retry(t)
     \/ JobPasses(t) \/ JobFails(t) \/ JobCancelled(t)
     \/ CITimesOut(t)
Fairness ==
  /\ WF_vars(ReplanAsks) /\ WF_vars(Finalize)
  /\ \A p \in Planners : WF_vars(Planned(p) \/ PlanRefused(p))
  /\ \A t \in AllTasks : WF_vars(Advance(t))
FairSpec == Spec /\ Fairness

-----------------------------------------------------------------------------
(* Properties                                                              *)

\* The rows of mainai_goals, mainai_execution_plans and mainai_tasks; the row
\* of mainai_task_waits is a task's flag, of the job that began it.
GoalRows == [status : {"pending", "running", "waiting"} \cup GoalTerminal,
             version : Nat]
PlanRows == [version : Nat, active : BOOLEAN, by : Planners]
TaskRow(r) ==
  /\ r.status \in Statuses
  /\ r.attempts \in 0..r.max
  /\ r.plan \in DOMAIN plans
  /\ r.deps \subseteq OfPlan(task, r.plan)
  /\ r.job => r.attempts > 0
  /\ r.status = "running" => r.job
WaitRow(r) == /\ r.wait => r.attempts > 0
              /\ r.status = "waiting_ci" => r.wait

\* Rows have their types and a wait or a job belongs to a task that has run.
TypeOK ==
  /\ goal \in GoalRows
  /\ \A i \in DOMAIN plans : plans[i] \in PlanRows
  /\ \A t \in DOMAIN task : TaskRow(task[t]) /\ WaitRow(task[t])

\* create_plan: however the founder's request and the replan tick overlap
\* around their AI calls, versions count up by one, only the newest plan is
\* active and the goal names it.
PlanVersions ==
  /\ \A i \in DOMAIN plans : plans[i].version = i
  /\ goal.version = Len(plans)
  /\ ActivePlans = (IF plans = <<>> THEN {} ELSE {Len(plans)})

\* graph.py and plan_insertion.py: no task runs, waits for CI or is completed
\* before every task it depends on is, prerequisites inserted later included.
DependencyOrder ==
  \A t \in DOMAIN task :
    task[t].status \in {"ready", "running", "waiting_ci", "retryable",
                        "completed"}
      => \A d \in task[t].deps : task[d].status = "completed"

\* insert_plan_tasks: no insertion closes a cycle, in which every task would
\* wait for another for ever.
GraphAcyclic ==
  ~Cyclic(DOMAIN task, [t \in DOMAIN task |-> task[t].deps])

\* _find_replay: a key inserts once into a plan.
InsertedOnce ==
  \A t, u \in DOMAIN task :
    task[t].key \in Keys /\ task[t].key = task[u].key
    /\ task[t].plan = task[u].plan => t = u

\* find_replan_trigger: plans made without the founder stay within the bound,
\* although founder plans and AI calls come in between.
ReplansBounded ==
  Cardinality({i \in DOMAIN plans : plans[i].by = "replan"}) <= MaxAutoReplans

\* Within the active plan a completed, failed or cancelled task stays so.
TerminalIsFinal ==
  [][\A t \in DOMAIN task :
       task[t].plan \in ActivePlans /\ task[t].status \in Terminal
         => task'[t].status = task[t].status]_vars

\* ci_wait.py: "a task must never become falsely completed by waiting forever":
\* no task waits for CI for ever.
CIWaitEnds == \A t \in AllTasks :
                []<>(t \in DOMAIN task => task[t].status # "waiting_ci")

\* A goal with a plan comes to an end, or to a task that only the founder can
\* move: one not approved, or blocked behind a failed or cancelled task.
GoalSettles ==
  []<>(\/ goal.status \in GoalTerminal \cup {"pending"}
       \/ \E t \in DOMAIN task : \/ task[t].status = "ready" /\ ~Approved(t)
                                 \/ task[t].status = "blocked")

\* The states of a plan: typed, one newest plan, dependencies kept and free of
\* cycles, insertions unrepeated and replans bounded.
PlanInv ==
  /\ TypeOK /\ PlanVersions /\ DependencyOrder /\ GraphAcyclic /\ InsertedOnce
  /\ ReplansBounded

\* The goal settles, and on the way no task waits for CI for ever.
GoalEnds == GoalSettles /\ CIWaitEnds
=============================================================================
