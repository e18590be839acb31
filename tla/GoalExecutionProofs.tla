------------------------- MODULE GoalExecutionProofs -------------------------
(***************************************************************************)
(* Proofs about the work on a goal: its plans (GoalExecution) and the      *)
(* attempt that drives one task of it (DevelopmentDriver).                 *)
(*                                                                         *)
(* Plans.  For any keys and bounds, only the newest plan of the goal is    *)
(* active, a task goes past its dependencies only when they are completed, *)
(* the dependencies have no cycle, an insertion is made once, replans stay *)
(* bounded, and within the active plan no ended task changes any more.     *)
(* The invariant GoalRight: plans are numbered (PlansRight), the first is  *)
(* the founder's and a replan under way still has room (ReplansRight), and *)
(* the task rows form a graph (GraphRight): each row is right by itself    *)
(* and with its dependencies (TasksRight), in the active plan no job       *)
(* outlives its task (ClosedInActive), the dependencies have no cycle      *)
(* (AcyclicTasks), and no plan has a key twice (Unrepeated).  A step moves *)
(* rows along the relations Moves and Closes, which keeps the graph        *)
(* (GraphMoved), recomputes readiness (GraphRecomputed), or adds rows (the *)
(* lemmas Joined... for a plan, Inserted... for an insertion).             *)
(*                                                                         *)
(* Attempts.  For any plans, files and bounds, what a resumed tick finds   *)
(* on disk is what its checkpoint wrote or is about to write, one effect   *)
(* at most lands after a revocation, no commit lacks its verification,     *)
(* completed work did all its plan says, and failures are bounded.  The    *)
(* invariant DriverRight: the committed attempt and the one a tick works   *)
(* on are each right by themselves (AttemptRight: DoneRight for the steps  *)
(* stepped over, CheckedRight for the verifications among them,            *)
(* FailuresRight for the shared counter), the files follow both            *)
(* checkpoints at once (RowsRight, OpenRight), an effect in flight is the  *)
(* step at hand (EffectsRight), and a revocation is seen by every later    *)
(* look (AuthorityRight).                                                  *)
(***************************************************************************)
EXTENDS GoalExecution, DevelopmentDriver, SequenceTheorems, FiniteSetTheorems, TLAPS

\* A row of mainai_tasks as the code writes it.
TaskRows ==
  [plan : Nat \ {0}, kind : Kinds, needs : BOOLEAN, deps : SUBSET Nat,
   max : Nat \ {0}, granted : BOOLEAN, status : Statuses, attempts : Nat,
   job : BOOLEAN, cancel : BOOLEAN, wait : BOOLEAN, key : Keys \cup {"none"}]

\* Which states of a row go together: a job belongs to a task that runs or was
\* cancelled under it, a wait to one that waits or was cancelled.
RowRight(r) ==
  /\ r \in TaskRows
  /\ r.attempts <= r.max
  /\ r.job => r.status \in {"running", "cancelled"} /\ r.attempts > 0
  /\ r.wait => r.status \in {"waiting_ci", "cancelled"} /\ r.attempts > 0
  /\ r.status = "running" => r.job
  /\ r.status = "waiting_ci" => r.wait
  /\ r.status \in {"pending", "ready", "retryable", "blocked"}
       => r.attempts < r.max

\* The row is past its dependencies, or could come to be.
Past(r) ==
  \/ r.job \/ r.wait
  \/ r.status \in {"ready", "running", "waiting_ci", "retryable", "completed"}

\* The rows ts of n plans: right each, dependencies inside the plan and
\* completed before a task goes past them.
TasksRight(ts, n) ==
  /\ ts \in Seq(TaskRows)
  /\ \A t \in DOMAIN ts :
       /\ RowRight(ts[t])
       /\ ts[t].plan \in 1..n
       /\ ts[t].deps \subseteq OfPlan(ts, ts[t].plan)
       /\ Past(ts[t]) => \A d \in ts[t].deps : ts[d].status = "completed"

\* In the active plan no job outlives its task.
ClosedInActive(ts, n) ==
  \A t \in DOMAIN ts :
    ts[t].plan = n /\ ts[t].status \in Terminal => ~ts[t].job

AcyclicTasks(ts) == ~Cyclic(DOMAIN ts, [t \in DOMAIN ts |-> ts[t].deps])

Unrepeated(ts) ==
  \A t, u \in DOMAIN ts :
    ts[t].key \in Keys /\ ts[t].key = ts[u].key /\ ts[t].plan = ts[u].plan
      => t = u

GraphRight(ts, n) ==
  TasksRight(ts, n) /\ ClosedInActive(ts, n) /\ AcyclicTasks(ts) /\ Unrepeated(ts)

PlansRight ==
  /\ goal \in GoalRows
  /\ plans \in Seq(PlanRows)
  /\ planner \in [Planners -> [awaiting : BOOLEAN, version : Nat]]
  /\ PlanVersions

\* The first plan is the founder's, and a replan under way still has room.
Replans == {i \in DOMAIN plans : plans[i].by = "replan"}
ReplansRight ==
  /\ Cardinality(Replans) <= MaxAutoReplans
  /\ plans # <<>> => plans[1].by = "founder"
  /\ planner["replan"].awaiting =>
       plans # <<>> /\ Cardinality(Replans) < MaxAutoReplans

GoalRight == PlansRight /\ ReplansRight /\ GraphRight(task, Len(plans))

-----------------------------------------------------------------------------
(* Rows                                                                    *)

SameTask(r, s) == s.plan = r.plan /\ s.deps = r.deps /\ s.key = r.key

\* A row that ended without a job stays as it ended.
Ends(r, s) ==
  r.status \in Terminal /\ ~r.job => s.status = r.status /\ ~s.job

\* What a step may make of a row without looking at its dependencies.
Moves(r, s) ==
  RowRight(s) /\ SameTask(r, s) /\ (Past(s) => Past(r)) /\ Ends(r, s)

\* It ends without a job, unless it had ended with one.
Closes(r, s) ==
  s.status \in Terminal /\ s.job => r.status \in Terminal /\ r.job

MovesAll(ts, us) ==
  /\ us \in Seq(TaskRows) /\ DOMAIN us = DOMAIN ts
  /\ \A t \in DOMAIN ts : Moves(ts[t], us[t])
ClosesAll(ts, us) == \A t \in DOMAIN ts : Closes(ts[t], us[t])
EndsAll(ts, us) ==
  DOMAIN ts \subseteq DOMAIN us /\ \A t \in DOMAIN ts : Ends(ts[t], us[t])

USE DEF Terminal

LEMMA StillRow ==
  ASSUME NEW r, RowRight(r)
  PROVE  Moves(r, r) /\ Closes(r, r)
BY DEF Moves, Closes, SameTask, Ends

LEMMA DispatchedRow ==
  ASSUME NEW r, RowRight(r), r.status = "ready", NEW s,
         s = [r EXCEPT !.status = "running", !.job = TRUE, !.cancel = FALSE,
                       !.attempts = r.attempts + 1]
  PROVE  Moves(r, s) /\ Closes(r, s)
<1>1. r \in TaskRows /\ r.attempts + 1 \in Nat
  BY DEF RowRight, TaskRows
<1>2. s \in TaskRows
  BY <1>1 DEF TaskRows, Statuses
<1>3. s.status = "running" /\ s.job /\ s.attempts = r.attempts + 1
  BY <1>1 DEF TaskRows
<1>4. s.max = r.max /\ s.wait = r.wait /\ SameTask(r, s)
  BY <1>1 DEF TaskRows, SameTask
<1>5. RowRight(s)
  <2>1. r.attempts < r.max /\ ~r.wait /\ r.attempts \in Nat /\ r.max \in Nat
    BY <1>1 DEF RowRight, TaskRows
  <2> QED
    BY <1>2, <1>3, <1>4, <2>1 DEF RowRight
<1> QED
  BY <1>3, <1>4, <1>5 DEF Moves, Closes, Ends, Past

LEMMA ApprovedRow ==
  ASSUME NEW r, RowRight(r), NEW s, s = [r EXCEPT !.granted = TRUE]
  PROVE  Moves(r, s) /\ Closes(r, s)
BY DEF Moves, Closes, SameTask, Ends, Past, RowRight, TaskRows

LEMMA RetriedRow ==
  ASSUME NEW r, RowRight(r), r.status \in Retryable, NEW s,
         s = [r EXCEPT !.status = "ready"]
  PROVE  Moves(r, s) /\ Closes(r, s)
BY DEF Moves, Closes, SameTask, Ends, Past, RowRight, TaskRows, Retryable,
       Statuses

LEMMA AskedRow ==
  ASSUME NEW r, RowRight(r), NEW s, s = [r EXCEPT !.cancel = TRUE]
  PROVE  Moves(r, s) /\ Closes(r, s)
BY DEF Moves, Closes, SameTask, Ends, Past, RowRight, TaskRows

LEMMA CancelledRow ==
  ASSUME NEW r, RowRight(r), r.status \in Statuses \ (Terminal \cup {"running"}),
         NEW s, s = [r EXCEPT !.status = "cancelled", !.wait = FALSE]
  PROVE  Moves(r, s) /\ Closes(r, s)
BY DEF Moves, Closes, SameTask, Ends, Past, RowRight, TaskRows, Statuses

LEMMA SeenRow ==
  ASSUME NEW r, RowRight(r), r.job, NEW s,
         s = [r EXCEPT !.status = "cancelled", !.job = FALSE, !.cancel = FALSE]
  PROVE  Moves(r, s) /\ Closes(r, s)
BY DEF Moves, Closes, SameTask, Ends, Past, RowRight, TaskRows, Statuses

LEMMA WaitingRow ==
  ASSUME NEW r, RowRight(r), r.job
  PROVE  Moves(r, WaitStarted(r)) /\ Closes(r, WaitStarted(r))
BY DEF Moves, Closes, SameTask, Ends, Past, RowRight, TaskRows, Statuses,
       WaitStarted

LEMMA OutcomeRow ==
  ASSUME NEW r, RowRight(r), r.job \/ r.status = "waiting_ci",
         NEW passed \in BOOLEAN
  PROVE  Moves(r, Outcome(r, passed)) /\ Closes(r, Outcome(r, passed))
<1> DEFINE s == Outcome(r, passed)
<1>1. PICK to \in {"retryable", "failed", "cancelled", "completed"} :
        /\ to = "retryable" => r.attempts < r.max
        /\ s = [r EXCEPT !.status = to, !.cancel = FALSE, !.job = FALSE,
                         !.wait = FALSE]
  BY DEF Outcome
<1> HIDE DEF s
<1>2. r \in TaskRows /\ s \in TaskRows /\ s.status = to
  BY <1>1 DEF RowRight, TaskRows, Statuses
<1>3. s.attempts = r.attempts /\ s.max = r.max /\ ~s.job /\ ~s.wait
      /\ SameTask(r, s)
  BY <1>1, <1>2 DEF TaskRows, SameTask
<1>4. RowRight(s)
  BY <1>1, <1>2, <1>3 DEF RowRight
<1>5. Past(r) /\ (r.status \in Terminal => r.job)
  BY <1>2 DEF Past
<1>6. Moves(r, s) /\ Closes(r, s)
  BY <1>3, <1>4, <1>5 DEF Moves, Closes, Ends
<1> QED
  BY <1>6 DEF s

\* Replacing an active plan cancels its open tasks and leaves their jobs.
LEMMA SupersededRow ==
  ASSUME NEW r, RowRight(r), r.status \notin Terminal, NEW s,
         s = [r EXCEPT !.status = "cancelled"]
  PROVE  Moves(r, s)
BY DEF Moves, SameTask, Ends, Past, RowRight, TaskRows, Statuses

\* A cascade cancels tasks that have never run.
LEMMA CascadedRow ==
  ASSUME NEW r, RowRight(r), r.status \in {"pending", "blocked"}, NEW s,
         s = [r EXCEPT !.status = "cancelled"]
  PROVE  Moves(r, s) /\ Closes(r, s)
BY DEF Moves, Closes, SameTask, Ends, Past, RowRight, TaskRows, Statuses

-----------------------------------------------------------------------------
(* Tasks                                                                   *)

\* The same edges make the same cycles.
LEMMA SameGraph ==
  ASSUME NEW ts, NEW us, DOMAIN us = DOMAIN ts,
         \A t \in DOMAIN ts : SameTask(ts[t], us[t]),
         AcyclicTasks(ts), Unrepeated(ts)
  PROVE  AcyclicTasks(us) /\ Unrepeated(us)
<1>1. [t \in DOMAIN ts |-> ts[t].deps] = [t \in DOMAIN us |-> us[t].deps]
  BY DEF SameTask
<1>2. AcyclicTasks(us)
  BY <1>1 DEF AcyclicTasks
<1>3. Unrepeated(us)
  BY DEF Unrepeated, SameTask
<1> QED
  BY <1>2, <1>3

LEMMA SamePlan ==
  ASSUME NEW ts, NEW us, DOMAIN us = DOMAIN ts,
         \A t \in DOMAIN ts : us[t].plan = ts[t].plan, NEW p
  PROVE  OfPlan(us, p) = OfPlan(ts, p)
BY DEF OfPlan

LEMMA MovedRight ==
  ASSUME NEW ts, NEW us, NEW n, TasksRight(ts, n), MovesAll(ts, us)
  PROVE  TasksRight(us, n)
<1> SUFFICES ASSUME NEW t \in DOMAIN us
             PROVE  /\ RowRight(us[t])
                    /\ us[t].plan \in 1..n
                    /\ us[t].deps \subseteq OfPlan(us, us[t].plan)
                    /\ Past(us[t]) =>
                         \A d \in us[t].deps : us[d].status = "completed"
  BY DEF TasksRight, MovesAll
<1>1. t \in DOMAIN ts /\ Moves(ts[t], us[t])
  BY DEF MovesAll
<1>2. /\ ts[t].plan \in 1..n /\ ts[t].deps \subseteq OfPlan(ts, ts[t].plan)
      /\ Past(ts[t]) => \A d \in ts[t].deps : ts[d].status = "completed"
  BY <1>1 DEF TasksRight
<1>3. RowRight(us[t]) /\ us[t].plan = ts[t].plan /\ us[t].deps = ts[t].deps
  BY <1>1 DEF Moves, SameTask
<1>4. OfPlan(us, us[t].plan) = OfPlan(ts, ts[t].plan)
  BY <1>3, SamePlan DEF MovesAll, Moves, SameTask
<1>5. ASSUME Past(us[t]), NEW d \in us[t].deps
      PROVE  us[d].status = "completed"
  <2>1. d \in DOMAIN ts /\ ts[d].status = "completed"
    BY <1>1, <1>2, <1>3, <1>5 DEF Moves, OfPlan
  <2>2. RowRight(ts[d]) /\ Moves(ts[d], us[d])
    BY <2>1 DEF TasksRight, MovesAll
  <2> QED
    BY <2>1, <2>2 DEF RowRight, Moves, Ends
<1> QED
  BY <1>2, <1>3, <1>4, <1>5

LEMMA GraphMoved ==
  ASSUME NEW ts, NEW us, NEW n, GraphRight(ts, n), MovesAll(ts, us),
         ClosesAll(ts, us)
  PROVE  GraphRight(us, n)
<1>1. TasksRight(us, n)
  BY MovedRight DEF GraphRight
<1>2. ClosedInActive(us, n)
  BY DEF ClosedInActive, ClosesAll, MovesAll, Moves, Closes, SameTask,
         GraphRight
<1>3. AcyclicTasks(us) /\ Unrepeated(us)
  BY SameGraph DEF GraphRight, MovesAll, Moves
<1> QED
  BY <1>1, <1>2, <1>3 DEF GraphRight

LEMMA EndsMoved ==
  ASSUME NEW ts, NEW us, MovesAll(ts, us)
  PROVE  EndsAll(ts, us)
BY DEF MovesAll, Moves, EndsAll

LEMMA EndsTwice ==
  ASSUME NEW ts, NEW us, NEW vs, EndsAll(ts, us), EndsAll(us, vs)
  PROVE  EndsAll(ts, vs)
BY DEF EndsAll, Ends

\* A step on one row.
LEMMA OneRowMoves ==
  ASSUME NEW ts, NEW us, NEW n, TasksRight(ts, n), NEW t \in DOMAIN ts,
         us \in Seq(TaskRows), DOMAIN us = DOMAIN ts,
         \A u \in DOMAIN ts \ {t} : us[u] = ts[u],
         Moves(ts[t], us[t]), Closes(ts[t], us[t])
  PROVE  MovesAll(ts, us) /\ ClosesAll(ts, us)
<1>1. \A u \in DOMAIN ts : Moves(ts[u], us[u]) /\ Closes(ts[u], us[u])
  BY StillRow DEF TasksRight
<1> QED
  BY <1>1 DEF MovesAll, ClosesAll

\* What recompute_task_readiness may make of a row.
Readied(ts, t, s) ==
  \/ s = ts[t]
  \/ ts[t].status = "pending" /\ s = [ts[t] EXCEPT !.status = "blocked"]
  \/ /\ ts[t].status = "pending" /\ s = [ts[t] EXCEPT !.status = "ready"]
     /\ \A d \in ts[t].deps : ts[d].status = "completed"

LEMMA RecomputedRow ==
  ASSUME NEW ts, NEW t \in DOMAIN ts
  PROVE  Readied(ts, t, Recompute(ts)[t])
<1> DEFINE of == {ts[d].status : d \in ts[t].deps}
<1>1. of \subseteq {"completed"} => \A d \in ts[t].deps : ts[d].status = "completed"
  OBVIOUS
<1> HIDE DEF of
<1>2. Recompute(ts)[t] =
        IF ts[t].status # "pending" THEN ts[t]
         ELSE IF of \cap {"failed", "cancelled"} # {}
              THEN [ts[t] EXCEPT !.status = "blocked"]
              ELSE IF of \subseteq {"completed"}
                   THEN [ts[t] EXCEPT !.status = "ready"]
                   ELSE ts[t]
  BY DEF Recompute, of
<1> QED
  BY <1>1, <1>2 DEF Readied

LEMMA ReadiedRow ==
  ASSUME NEW ts, NEW n, TasksRight(ts, n), NEW t \in DOMAIN ts, NEW s,
         Readied(ts, t, s)
  PROVE  /\ RowRight(s) /\ SameTask(ts[t], s) /\ Ends(ts[t], s)
         /\ Closes(ts[t], s)
         /\ Past(s) => \A d \in ts[t].deps : ts[d].status = "completed"
<1>1. /\ RowRight(ts[t])
      /\ Past(ts[t]) => \A d \in ts[t].deps : ts[d].status = "completed"
  BY DEF TasksRight
<1>2. CASE s = ts[t]
  BY <1>1, <1>2, StillRow DEF Moves
<1>3. CASE ts[t].status = "pending" /\ s = [ts[t] EXCEPT !.status = "blocked"]
  <2>1. ts[t] \in TaskRows /\ s \in TaskRows /\ s.status = "blocked"
    BY <1>1, <1>3 DEF RowRight, TaskRows, Statuses
  <2>2. ~s.job /\ ~s.wait
    BY <1>1, <1>3, <2>1 DEF RowRight, TaskRows
  <2>3. RowRight(s) /\ ~Past(s)
    BY <1>1, <1>3, <2>1, <2>2 DEF RowRight, TaskRows, Past
  <2> QED
    BY <1>3, <2>1, <2>3 DEF SameTask, Ends, Closes, TaskRows
<1>4. CASE /\ ts[t].status = "pending" /\ s = [ts[t] EXCEPT !.status = "ready"]
           /\ \A d \in ts[t].deps : ts[d].status = "completed"
  <2>1. ts[t] \in TaskRows /\ s \in TaskRows /\ s.status = "ready"
    BY <1>1, <1>4 DEF RowRight, TaskRows, Statuses
  <2>2. RowRight(s)
    BY <1>1, <1>4, <2>1 DEF RowRight, TaskRows
  <2> QED
    BY <1>4, <2>1, <2>2 DEF SameTask, Ends, Closes, TaskRows
<1> QED
  BY <1>2, <1>3, <1>4 DEF Readied

LEMMA RowsInSeq ==
  ASSUME NEW ts \in Seq(TaskRows), NEW us \in [DOMAIN ts -> TaskRows]
  PROVE  us \in Seq(TaskRows) /\ DOMAIN us = DOMAIN ts /\ Len(us) = Len(ts)
<1>1. Len(ts) \in Nat /\ DOMAIN ts = 1..Len(ts)
  BY LenProperties
<1>2. us \in [1..Len(ts) -> TaskRows]
  BY <1>1
<1>3. us \in Seq(TaskRows)
  BY <1>1, <1>2, SeqDef
<1> QED
  BY <1>1, <1>2, <1>3, LenProperties

LEMMA RecomputedRows ==
  ASSUME NEW ts, NEW n, TasksRight(ts, n)
  PROVE  /\ Recompute(ts) \in Seq(TaskRows)
         /\ DOMAIN Recompute(ts) = DOMAIN ts
         /\ Len(Recompute(ts)) = Len(ts)
<1> DEFINE us == Recompute(ts)
<1>1. us = [t \in DOMAIN ts |-> us[t]]
  BY DEF Recompute
<1>2. \A t \in DOMAIN ts : Readied(ts, t, us[t])
  BY RecomputedRow
<1> HIDE DEF us
<1>3. \A t \in DOMAIN ts : us[t] \in TaskRows
  BY <1>2, ReadiedRow DEF RowRight
<1>4. us \in [DOMAIN ts -> TaskRows]
  BY <1>1, <1>3
<1>5. ts \in Seq(TaskRows)
  BY DEF TasksRight
<1> QED
  BY <1>4, <1>5, RowsInSeq DEF us

\* Recomputing readiness keeps the graph right: what it makes ready has its
\* dependencies completed, and nothing completed is touched.
LEMMA GraphRecomputed ==
  ASSUME NEW ts, NEW n, GraphRight(ts, n)
  PROVE  GraphRight(Recompute(ts), n) /\ EndsAll(ts, Recompute(ts))
<1> DEFINE us == Recompute(ts)
<1>1. TasksRight(ts, n)
  BY DEF GraphRight
<1>2. us \in Seq(TaskRows) /\ DOMAIN us = DOMAIN ts
  BY <1>1, RecomputedRows
<1>3. \A t \in DOMAIN ts : Readied(ts, t, us[t])
  BY RecomputedRow
<1> HIDE DEF us
<1>4. \A t \in DOMAIN ts :
        /\ RowRight(us[t]) /\ SameTask(ts[t], us[t]) /\ Ends(ts[t], us[t])
        /\ Closes(ts[t], us[t])
        /\ Past(us[t]) => \A d \in ts[t].deps : ts[d].status = "completed"
  BY <1>1, <1>3, ReadiedRow
<1>5. TasksRight(us, n)
  <2> SUFFICES ASSUME NEW t \in DOMAIN us
               PROVE  /\ us[t].plan \in 1..n
                      /\ us[t].deps \subseteq OfPlan(us, us[t].plan)
                      /\ Past(us[t]) =>
                           \A d \in us[t].deps : us[d].status = "completed"
    BY <1>2, <1>4 DEF TasksRight
  <2>1. us[t].plan = ts[t].plan /\ us[t].deps = ts[t].deps /\ t \in DOMAIN ts
    BY <1>2, <1>4 DEF SameTask
  <2>2. OfPlan(us, us[t].plan) = OfPlan(ts, ts[t].plan)
    BY <1>2, <1>4, <2>1, SamePlan DEF SameTask
  <2>3. ts[t].plan \in 1..n /\ ts[t].deps \subseteq OfPlan(ts, ts[t].plan)
    BY <1>1, <2>1 DEF TasksRight
  <2>4. ASSUME Past(us[t]), NEW d \in us[t].deps
        PROVE  us[d].status = "completed"
    <3>1. d \in DOMAIN ts /\ ts[d].status = "completed"
      BY <1>4, <2>1, <2>3, <2>4 DEF OfPlan
    <3>2. RowRight(ts[d]) /\ Ends(ts[d], us[d])
      BY <1>1, <1>4, <3>1 DEF TasksRight
    <3> QED
      BY <3>1, <3>2 DEF RowRight, Ends
  <2> QED
    BY <2>1, <2>2, <2>3, <2>4
<1>6. ClosedInActive(us, n)
  BY <1>2, <1>4 DEF ClosedInActive, Closes, SameTask, GraphRight
<1>7. AcyclicTasks(us) /\ Unrepeated(us)
  BY <1>2, <1>4, SameGraph DEF GraphRight
<1>8. EndsAll(ts, us)
  BY <1>2, <1>4 DEF EndsAll
<1> QED
  BY <1>5, <1>6, <1>7, <1>8 DEF GraphRight, us

LEMMA CascadeMoves ==
  ASSUME NEW ts, NEW n, TasksRight(ts, n)
  PROVE  MovesAll(ts, Cascade(ts)) /\ ClosesAll(ts, Cascade(ts))
<1> DEFINE waiting == {t \in DOMAIN ts : ts[t].status \in {"pending", "blocked"}}
           down == UNION {X \in SUBSET waiting : \A t \in X : \E d \in ts[t].deps :
                            ts[d].status = "cancelled" \/ d \in X}
           us == Cascade(ts)
<1>1. down \subseteq waiting
  OBVIOUS
<1>2. us = [t \in DOMAIN ts |-> IF t \in down
                  THEN [ts[t] EXCEPT !.status = "cancelled"] ELSE ts[t]]
  BY DEF Cascade
<1> HIDE DEF down, us
<1>3. \A t \in DOMAIN ts : RowRight(ts[t])
  BY DEF TasksRight
<1>4. ASSUME NEW t \in DOMAIN ts
      PROVE  Moves(ts[t], us[t]) /\ Closes(ts[t], us[t])
  <2>1. CASE t \in down
    BY <1>1, <1>2, <1>3, <2>1, CascadedRow
  <2>2. CASE t \notin down
    BY <1>2, <1>3, <2>2, StillRow
  <2> QED
    BY <2>1, <2>2
<1>5. us \in [DOMAIN ts -> TaskRows]
  BY <1>2, <1>4 DEF Moves, RowRight
<1>6. us \in Seq(TaskRows) /\ DOMAIN us = DOMAIN ts
  BY <1>5, RowsInSeq DEF TasksRight
<1> QED
  BY <1>4, <1>6 DEF MovesAll, ClosesAll, us

LEMMA SupersededMoves ==
  ASSUME NEW n, TasksRight(task, n)
  PROVE  MovesAll(task, Superseded(task))
<1> DEFINE us == Superseded(task)
<1>1. us = [t \in DOMAIN task |->
              IF plans[task[t].plan].active /\ task[t].status \notin Terminal
              THEN [task[t] EXCEPT !.status = "cancelled"] ELSE task[t]]
  BY DEF Superseded
<1> HIDE DEF us
<1>2. \A t \in DOMAIN task : RowRight(task[t])
  BY DEF TasksRight
<1>3. ASSUME NEW t \in DOMAIN task
      PROVE  Moves(task[t], us[t])
  <2>1. \/ /\ us[t] = [task[t] EXCEPT !.status = "cancelled"]
           /\ task[t].status \notin Terminal
        \/ us[t] = task[t]
    BY <1>1
  <2> QED
    BY <1>2, <2>1, StillRow, SupersededRow
<1>4. us \in [DOMAIN task -> TaskRows]
  BY <1>1, <1>3 DEF Moves, RowRight
<1>5. us \in Seq(TaskRows) /\ DOMAIN us = DOMAIN task
  BY <1>4, RowsInSeq DEF TasksRight
<1> QED
  BY <1>3, <1>5 DEF MovesAll, us

-----------------------------------------------------------------------------
(* Graphs                                                                  *)

\* Without a cycle every non-empty set of nodes has one that waits for none of
\* the set.
LEMMA Acyclic ==
  ASSUME NEW nodes, NEW deps
  PROVE  ~Cyclic(nodes, deps) <=>
           \A S \in SUBSET nodes : S # {} => \E x \in S : deps[x] \cap S = {}
BY DEF Cyclic

LEMMA AcyclicRows ==
  ASSUME NEW ts
  PROVE  AcyclicTasks(ts) <=>
           \A S \in SUBSET DOMAIN ts :
             S # {} => \E x \in S : ts[x].deps \cap S = {}
<1> DEFINE f == [t \in DOMAIN ts |-> ts[t].deps]
<1>1. \A t \in DOMAIN ts : f[t] = ts[t].deps
  OBVIOUS
<1> HIDE DEF f
<1>2. ~Cyclic(DOMAIN ts, f) <=>
        \A S \in SUBSET DOMAIN ts : S # {} => \E x \in S : f[x] \cap S = {}
  BY Acyclic
<1>3. ~Cyclic(DOMAIN ts, f) <=>
        \A S \in SUBSET DOMAIN ts :
          S # {} => \E x \in S : ts[x].deps \cap S = {}
  <2>1. \A S \in SUBSET DOMAIN ts : \A x \in S : f[x] = ts[x].deps
    BY <1>1
  <2> QED
    BY <1>2, <2>1
<1> QED
  BY <1>3 DEF AcyclicTasks, f

\* What NewTask makes.
NewRow(r, plan, deps, key) ==
  /\ RowRight(r) /\ ~Past(r) /\ r.plan = plan /\ r.deps = deps
  /\ r.status = "pending" /\ ~r.job /\ r.key = key

\* Positions in a plan, as positions after the m rows there are.
Shifted(D, m) == {m + d : d \in D}

LEMMA NewTaskRight ==
  ASSUME NEW spec, NEW plan \in Nat \ {0}, NEW deps \in SUBSET Nat,
         NEW key \in Keys \cup {"none"},
         spec.kind \in Kinds, spec.needs \in BOOLEAN, spec.max \in Nat \ {0}
  PROVE  NewRow(NewTask(spec, plan, deps, key), plan, deps, key)
BY DEF NewTask, NewRow, RowRight, TaskRows, Past, Statuses

LEMMA JoinedRows ==
  ASSUME NEW us \in Seq(TaskRows), NEW vs \in Seq(TaskRows), NEW ts,
         ts = us \o vs
  PROVE  /\ ts \in Seq(TaskRows)
         /\ Len(us) \in Nat /\ Len(vs) \in Nat
         /\ DOMAIN us = 1..Len(us) /\ DOMAIN vs = 1..Len(vs)
         /\ DOMAIN ts = 1..(Len(us) + Len(vs))
         /\ \A t \in 1..Len(us) : ts[t] = us[t]
         /\ \A i \in 1..Len(vs) : ts[Len(us) + i] = vs[i]
BY ConcatProperties, LenProperties

\* The rows of a new plan, and the rows there were.
Joined(us, ts, m, k, spec, n) ==
  /\ m \in Nat /\ k \in Nat
  /\ DOMAIN us = 1..m /\ DOMAIN spec = 1..k /\ DOMAIN ts = 1..(m + k)
  /\ \A t \in 1..m : ts[t] = us[t]
  /\ \A i \in 1..k : NewRow(ts[m + i], n + 1, Shifted(spec[i].deps, m), "none")

LEMMA JoinedPlace ==
  ASSUME NEW us, NEW ts, NEW m, NEW k, NEW spec, NEW n,
         Joined(us, ts, m, k, spec, n), NEW t \in DOMAIN ts
  PROVE  t \in 1..m \/ \E i \in 1..k : t = m + i
<1>1. m \in Nat /\ k \in Nat /\ t \in 1..(m + k)
  BY DEF Joined
<1>2. t > m => t - m \in 1..k /\ t = m + (t - m)
  BY <1>1
<1> QED
  BY <1>1, <1>2

LEMMA JoinedRight ==
  ASSUME NEW us, NEW ts \in Seq(TaskRows), NEW m, NEW k, NEW spec,
         NEW n \in Nat, Joined(us, ts, m, k, spec, n), TasksRight(us, n),
         \A i \in DOMAIN spec : spec[i].deps \subseteq DOMAIN spec
  PROVE  TasksRight(ts, n + 1) /\ ClosedInActive(ts, n + 1)
<1>1. \A p \in 1..n : OfPlan(us, p) \subseteq OfPlan(ts, p)
  BY DEF Joined, OfPlan
<1>2. ASSUME NEW t \in 1..m
      PROVE  /\ RowRight(ts[t])
             /\ ts[t].plan \in 1..n
             /\ ts[t].deps \subseteq OfPlan(ts, ts[t].plan)
             /\ Past(ts[t]) => \A d \in ts[t].deps : ts[d].status = "completed"
  <2>1. t \in DOMAIN us /\ ts[t] = us[t]
    BY DEF Joined
  <2>2. /\ RowRight(us[t]) /\ us[t].plan \in 1..n
        /\ us[t].deps \subseteq OfPlan(us, us[t].plan)
        /\ Past(us[t]) => \A d \in us[t].deps : us[d].status = "completed"
    BY <2>1 DEF TasksRight
  <2>3. \A d \in us[t].deps : ts[d] = us[d]
    BY <2>2 DEF Joined, OfPlan
  <2> QED
    BY <1>1, <2>1, <2>2, <2>3
<1>3. ASSUME NEW i \in 1..k
      PROVE  ts[m + i].deps \subseteq OfPlan(ts, n + 1)
  <2>1. ASSUME NEW d \in spec[i].deps
        PROVE  m + d \in OfPlan(ts, n + 1)
    <3>1. m \in Nat /\ k \in Nat /\ d \in 1..k
      BY DEF Joined
    <3>2. m + d \in 1..(m + k)
      BY <3>1
    <3> QED
      BY <3>1, <3>2 DEF Joined, NewRow, OfPlan
  <2> QED
    BY <2>1 DEF Joined, NewRow, Shifted
<1>4. ASSUME NEW t \in DOMAIN ts
      PROVE  /\ RowRight(ts[t])
             /\ ts[t].plan \in 1..(n + 1)
             /\ ts[t].deps \subseteq OfPlan(ts, ts[t].plan)
             /\ Past(ts[t]) => \A d \in ts[t].deps : ts[d].status = "completed"
             /\ ts[t].plan = n + 1 => ~ts[t].job
  <2>1. CASE t \in 1..m
    BY <1>2, <2>1
  <2>2. ASSUME NEW i \in 1..k, t = m + i
        PROVE  /\ RowRight(ts[t]) /\ ts[t].plan = n + 1 /\ ~Past(ts[t])
               /\ ts[t].deps \subseteq OfPlan(ts, n + 1) /\ ~ts[t].job
    BY <1>3, <2>2 DEF Joined, NewRow
  <2> QED
    BY <2>1, <2>2, JoinedPlace
<1> QED
  BY <1>4 DEF TasksRight, ClosedInActive

LEMMA JoinedAcyclic ==
  ASSUME NEW us, NEW ts, NEW m, NEW k, NEW spec, NEW n,
         Joined(us, ts, m, k, spec, n), TasksRight(us, n), AcyclicTasks(us),
         \A i \in DOMAIN spec : spec[i].deps \subseteq DOMAIN spec,
         AcyclicTasks(spec)
  PROVE  AcyclicTasks(ts)
<1> SUFFICES ASSUME NEW S \in SUBSET DOMAIN ts, S # {}
             PROVE  \E x \in S : ts[x].deps \cap S = {}
  BY AcyclicRows
<1> DEFINE old == S \cap (1..m)
           new == {i \in 1..k : m + i \in S}
<1>1. CASE old # {}
  <2>1. old \in SUBSET DOMAIN us
    BY DEF Joined
  <2>2. PICK x \in old : us[x].deps \cap old = {}
    BY <1>1, <2>1, AcyclicRows
  <2>3. us[x].deps \subseteq DOMAIN us /\ x \in DOMAIN us
    BY <2>1 DEF TasksRight, OfPlan
  <2>4. ts[x] = us[x] /\ DOMAIN us = 1..m
    BY DEF Joined
  <2> QED
    BY <2>2, <2>3, <2>4
<1>2. CASE old = {}
  <2>1. PICK t \in S : t \in DOMAIN ts /\ t \notin 1..m
    BY <1>2
  <2>2. new # {}
    BY <2>1, JoinedPlace
  <2>3. DOMAIN spec = 1..k
    BY DEF Joined
  <2>4. new \in SUBSET DOMAIN spec
    BY <2>3
  <2>5. PICK i \in new : spec[i].deps \cap new = {}
    BY <2>2, <2>4, AcyclicRows
  <2>6. ts[m + i].deps = {m + d : d \in spec[i].deps}
    BY DEF Joined, NewRow, Shifted
  <2>7. spec[i].deps \subseteq 1..k
    BY <2>3
  <2>8. ts[m + i].deps \cap S = {}
    BY <2>5, <2>6, <2>7
  <2> QED
    BY <2>8
<1> QED
  BY <1>1, <1>2

LEMMA JoinedUnrepeated ==
  ASSUME NEW us, NEW ts, NEW m, NEW k, NEW spec, NEW n,
         Joined(us, ts, m, k, spec, n), Unrepeated(us)
  PROVE  Unrepeated(ts)
<1>1. \A t \in DOMAIN ts : ts[t].key \in Keys => t \in DOMAIN us /\ ts[t] = us[t]
  <2> SUFFICES ASSUME NEW t \in DOMAIN ts, ts[t].key \in Keys
               PROVE  t \in 1..m
    BY DEF Joined
  <2>1. \A i \in 1..k : ts[m + i].key \notin Keys
    BY KeysAssumption DEF Joined, NewRow
  <2> QED
    BY <2>1, JoinedPlace
<1> QED
  BY <1>1 DEF Unrepeated

\* The rows after an insertion into plan n: row m + 1 is new, runs after `after`
\* and before `before`.
Inserted(us, ts, m, n, after, before, key) ==
  /\ m \in Nat /\ DOMAIN us = 1..m /\ DOMAIN ts = 1..(m + 1)
  /\ \A t \in 1..m :
       ts[t] = IF t \in before
               THEN [us[t] EXCEPT !.deps = @ \cup {m + 1}] ELSE us[t]
  /\ NewRow(ts[m + 1], n, after, key)

LEMMA InsertedPlace ==
  ASSUME NEW us, NEW ts, NEW m, NEW n, NEW after, NEW before, NEW key,
         Inserted(us, ts, m, n, after, before, key), NEW t \in DOMAIN ts
  PROVE  t \in DOMAIN us \/ t = m + 1
BY DEF Inserted

\* A task gets a new prerequisite only while it has not gone past any.
LEMMA InsertedRow ==
  ASSUME NEW us, NEW ts, NEW m, NEW n, NEW after, NEW before, NEW key,
         Inserted(us, ts, m, n, after, before, key), NEW t \in DOMAIN us,
         RowRight(us[t]), t \in before => us[t].status \in SafeForPrerequisite
  PROVE  /\ RowRight(ts[t]) /\ ts[t].plan = us[t].plan /\ ts[t].key = us[t].key
         /\ ts[t].status = us[t].status /\ ts[t].job = us[t].job
         /\ ts[t].deps = us[t].deps \cup (IF t \in before THEN {m + 1} ELSE {})
         /\ Past(ts[t]) => t \notin before /\ Past(us[t])
<1>1. t \in 1..m /\ m + 1 \in Nat
  BY DEF Inserted
<1>2. CASE t \notin before
  BY <1>1, <1>2 DEF Inserted
<1>3. CASE t \in before
  <2> DEFINE r == us[t]
             s == ts[t]
  <2>1. s = [r EXCEPT !.deps = r.deps \cup {m + 1}]
    BY <1>1, <1>3 DEF Inserted
  <2>2. RowRight(r) /\ r.status \in SafeForPrerequisite
    BY <1>3
  <2> HIDE DEF r, s
  <2>3. r \in TaskRows /\ s \in TaskRows
    BY <1>1, <2>1, <2>2 DEF RowRight, TaskRows
  <2>4. /\ s.plan = r.plan /\ s.key = r.key /\ s.status = r.status
        /\ s.job = r.job /\ s.wait = r.wait /\ s.attempts = r.attempts
        /\ s.max = r.max /\ s.deps = r.deps \cup {m + 1}
    BY <2>1, <2>3 DEF TaskRows
  <2>5. RowRight(s)
    BY <2>2, <2>3, <2>4 DEF RowRight
  <2>6. ~Past(s)
    BY <2>2, <2>4, <2>5 DEF Past, RowRight, SafeForPrerequisite
  <2> QED
    BY <1>3, <2>4, <2>5, <2>6 DEF r, s
<1> QED
  BY <1>2, <1>3

LEMMA InsertedRight ==
  ASSUME NEW us, NEW ts \in Seq(TaskRows), NEW m, NEW n \in Nat \ {0},
         NEW after, NEW before, NEW key,
         Inserted(us, ts, m, n, after, before, key), GraphRight(us, n),
         after \cup before \subseteq OfPlan(us, n),
         \A t \in before : us[t].status \in SafeForPrerequisite
  PROVE  TasksRight(ts, n) /\ ClosedInActive(ts, n) /\ EndsAll(us, ts)
<1>1. \A t \in DOMAIN us :
        /\ RowRight(ts[t]) /\ ts[t].plan = us[t].plan
        /\ ts[t].status = us[t].status /\ ts[t].job = us[t].job
        /\ ts[t].deps = us[t].deps \cup (IF t \in before THEN {m + 1} ELSE {})
        /\ Past(ts[t]) => t \notin before /\ Past(us[t])
  BY InsertedRow DEF GraphRight, TasksRight
<1>2. DOMAIN us \subseteq DOMAIN ts /\ m + 1 \in DOMAIN ts
  BY DEF Inserted
<1>3. m + 1 \in OfPlan(ts, n) /\ \A p : OfPlan(us, p) \subseteq OfPlan(ts, p)
  BY <1>1, <1>2 DEF OfPlan, Inserted, NewRow
<1>4. ASSUME NEW t \in DOMAIN us
      PROVE  /\ ts[t].plan \in 1..n
             /\ ts[t].deps \subseteq OfPlan(ts, ts[t].plan)
             /\ Past(ts[t]) => \A d \in ts[t].deps : ts[d].status = "completed"
  <2>1. /\ us[t].plan \in 1..n /\ us[t].deps \subseteq OfPlan(us, us[t].plan)
        /\ Past(us[t]) => \A d \in us[t].deps : us[d].status = "completed"
    BY DEF GraphRight, TasksRight
  <2>2. t \in before => us[t].plan = n
    BY DEF OfPlan
  <2>3. ts[t].deps \subseteq OfPlan(ts, ts[t].plan)
    BY <1>1, <1>3, <2>1, <2>2
  <2>4. \A d \in us[t].deps : ts[d].status = us[d].status
    BY <1>1, <2>1 DEF OfPlan
  <2> QED
    BY <1>1, <2>1, <2>3, <2>4
<1>5. ASSUME NEW t \in DOMAIN ts
      PROVE  /\ RowRight(ts[t])
             /\ ts[t].plan \in 1..n
             /\ ts[t].deps \subseteq OfPlan(ts, ts[t].plan)
             /\ Past(ts[t]) => \A d \in ts[t].deps : ts[d].status = "completed"
             /\ ts[t].plan = n /\ ts[t].status \in Terminal => ~ts[t].job
  <2>1. CASE t \in DOMAIN us
    BY <1>1, <1>4, <2>1 DEF GraphRight, ClosedInActive
  <2>2. CASE t = m + 1
    BY <1>3, <2>2 DEF Inserted, NewRow
  <2> QED
    BY <2>1, <2>2, InsertedPlace
<1>6. EndsAll(us, ts)
  BY <1>1, <1>2 DEF EndsAll, Ends
<1> QED
  BY <1>5, <1>6 DEF TasksRight, ClosedInActive

\* The edges the cycle check of an insertion looks at.
EdgesAfter(us, f, m, n, after, before) ==
  \A t \in OfPlan(us, n) \cup {m + 1} :
    f[t] = IF t = m + 1 THEN after
           ELSE us[t].deps \cup (IF t \in before THEN {m + 1} ELSE {})

\* The check sees the whole cycle: dependencies never leave the plan.
LEMMA InsertedAcyclic ==
  ASSUME NEW us, NEW ts, NEW m, NEW n \in Nat \ {0},
         NEW after, NEW before, NEW key,
         Inserted(us, ts, m, n, after, before, key), GraphRight(us, n),
         after \cup before \subseteq OfPlan(us, n),
         \A t \in before : us[t].status \in SafeForPrerequisite,
         NEW f, ~Cyclic(OfPlan(us, n) \cup {m + 1}, f),
         EdgesAfter(us, f, m, n, after, before)
  PROVE  AcyclicTasks(ts)
<1> SUFFICES ASSUME NEW S \in SUBSET DOMAIN ts, S # {}
             PROVE  \E x \in S : ts[x].deps \cap S = {}
  BY AcyclicRows
<1> DEFINE G == OfPlan(us, n) \cup {m + 1}
           here == S \cap G
<1>1. \A t \in DOMAIN us :
        ts[t].deps = us[t].deps \cup (IF t \in before THEN {m + 1} ELSE {})
  BY InsertedRow DEF GraphRight, TasksRight
<1>2. m + 1 \notin DOMAIN us /\ OfPlan(us, n) \subseteq DOMAIN us
  BY DEF Inserted, OfPlan
<1>3. \A t \in G : f[t] = ts[t].deps
  BY <1>1, <1>2 DEF Inserted, NewRow, EdgesAfter
<1>4. \A t \in G : ts[t].deps \subseteq G
  <2>1. \A t \in OfPlan(us, n) : us[t].deps \subseteq OfPlan(us, n)
    BY DEF GraphRight, TasksRight, OfPlan
  <2> QED
    BY <1>1, <1>2, <2>1 DEF Inserted, NewRow
<1>5. \A S2 \in SUBSET G : S2 # {} => \E x \in S2 : f[x] \cap S2 = {}
  BY Acyclic
<1>6. CASE here # {}
  <2>1. PICK x \in here : f[x] \cap here = {}
    BY <1>5, <1>6
  <2>2. ts[x].deps \cap here = {} /\ ts[x].deps \subseteq G
    BY <1>3, <1>4, <2>1
  <2> QED
    BY <2>1, <2>2
<1>7. CASE here = {}
  <2>1. S \subseteq DOMAIN us
    BY <1>7, InsertedPlace
  <2>2. \A x \in S : ts[x].deps = us[x].deps
    BY <1>1, <1>7, <2>1
  <2>3. AcyclicTasks(us)
    BY DEF GraphRight
  <2>4. PICK x \in S : us[x].deps \cap S = {}
    BY <2>1, <2>3, AcyclicRows
  <2> QED
    BY <2>2, <2>4
<1> QED
  BY <1>6, <1>7

LEMMA InsertedUnrepeated ==
  ASSUME NEW us, NEW ts, NEW m, NEW n \in Nat \ {0},
         NEW after, NEW before, NEW key,
         Inserted(us, ts, m, n, after, before, key), GraphRight(us, n),
         \A t \in before : us[t].status \in SafeForPrerequisite,
         \A t \in OfPlan(us, n) : us[t].key # key
  PROVE  Unrepeated(ts)
<1>1. \A t \in DOMAIN us : ts[t].plan = us[t].plan /\ ts[t].key = us[t].key
  BY InsertedRow DEF GraphRight, TasksRight
<1>2. ts[m + 1].plan = n /\ ts[m + 1].key = key
  BY DEF Inserted, NewRow
<1>3. \A t \in DOMAIN us : us[t].plan = n => us[t].key # key
  BY DEF OfPlan
<1>4. Unrepeated(us)
  BY DEF GraphRight
<1> QED
  BY <1>1, <1>2, <1>3, <1>4, InsertedPlace DEF Unrepeated

-----------------------------------------------------------------------------
(* What the steps do to the tasks                                          *)

LEMMA OneRowStep ==
  ASSUME NEW ts, NEW us, NEW n, GraphRight(ts, n), NEW t \in DOMAIN ts,
         us = [u \in DOMAIN ts |-> us[u]],
         \A u \in DOMAIN ts \ {t} : us[u] = ts[u],
         Moves(ts[t], us[t]), Closes(ts[t], us[t])
  PROVE  GraphRight(us, n) /\ EndsAll(ts, us)
<1>1. TasksRight(ts, n) /\ ts \in Seq(TaskRows)
  BY DEF GraphRight, TasksRight
<1>2. \A u \in DOMAIN ts : us[u] \in TaskRows
  BY <1>1 DEF TasksRight, RowRight, Moves
<1>3. us \in [DOMAIN ts -> TaskRows]
  BY <1>2
<1>4. us \in Seq(TaskRows) /\ DOMAIN us = DOMAIN ts
  BY <1>1, <1>3, RowsInSeq
<1>5. MovesAll(ts, us) /\ ClosesAll(ts, us)
  BY <1>1, <1>4, OneRowMoves
<1> QED
  BY <1>5, GraphMoved, EndsMoved

LEMMA TaskFacts ==
  ASSUME NEW n, GraphRight(task, n), NEW t \in DOMAIN task
  PROVE  /\ RowRight(task[t]) /\ task = [u \in DOMAIN task |-> task[u]]
         /\ task[t] = [x \in DOMAIN task[t] |-> task[t][x]]
<1>1. RowRight(task[t]) /\ task \in Seq(TaskRows)
  BY DEF GraphRight, TasksRight
<1> QED
  BY <1>1 DEF RowRight, TaskRows

LEMMA ApproveStep ==
  ASSUME NEW n, GraphRight(task, n), NEW t \in DOMAIN task, Approve(t)
  PROVE  GraphRight(task', n) /\ EndsAll(task, task')
<1>1. RowRight(task[t]) /\ task = [u \in DOMAIN task |-> task[u]]
  BY TaskFacts
<1>2. /\ task' = [u \in DOMAIN task |-> task'[u]]
      /\ \A u \in DOMAIN task \ {t} : task'[u] = task[u]
      /\ task'[t] = [task[t] EXCEPT !.granted = TRUE]
  BY <1>1 DEF Approve
<1>3. Moves(task[t], task'[t]) /\ Closes(task[t], task'[t])
  BY <1>1, <1>2, ApprovedRow
<1> QED
  BY <1>2, <1>3, OneRowStep

LEMMA DispatchStep ==
  ASSUME NEW n, GraphRight(task, n), NEW t \in DOMAIN task, Dispatch(t)
  PROVE  GraphRight(task', n) /\ EndsAll(task, task')
<1>1. RowRight(task[t]) /\ task = [u \in DOMAIN task |-> task[u]]
  BY TaskFacts
<1>2. /\ task' = [u \in DOMAIN task |-> task'[u]]
      /\ \A u \in DOMAIN task \ {t} : task'[u] = task[u]
      /\ task'[t] = [task[t] EXCEPT !.status = "running", !.job = TRUE,
                       !.cancel = FALSE, !.attempts = task[t].attempts + 1]
      /\ task[t].status = "ready"
  BY <1>1 DEF Dispatch
<1>3. Moves(task[t], task'[t]) /\ Closes(task[t], task'[t])
  BY <1>1, <1>2, DispatchedRow
<1> QED
  BY <1>2, <1>3, OneRowStep

LEMMA RetryStep ==
  ASSUME NEW n, GraphRight(task, n), NEW t \in DOMAIN task, Retry(t)
  PROVE  GraphRight(task', n) /\ EndsAll(task, task')
<1>1. RowRight(task[t]) /\ task = [u \in DOMAIN task |-> task[u]]
  BY TaskFacts
<1>2. /\ task' = [u \in DOMAIN task |-> task'[u]]
      /\ \A u \in DOMAIN task \ {t} : task'[u] = task[u]
      /\ task'[t] = [task[t] EXCEPT !.status = "ready"]
      /\ task[t].status \in Retryable
  BY <1>1 DEF Retry
<1>3. Moves(task[t], task'[t]) /\ Closes(task[t], task'[t])
  BY <1>1, <1>2, RetriedRow
<1> QED
  BY <1>2, <1>3, OneRowStep

LEMMA CancelStep ==
  ASSUME NEW n, GraphRight(task, n), NEW t \in DOMAIN task, Cancel(t)
  PROVE  GraphRight(task', n) /\ EndsAll(task, task')
<1>1. RowRight(task[t]) /\ task = [u \in DOMAIN task |-> task[u]]
  BY TaskFacts
<1>2. CASE task' = [task EXCEPT ![t].cancel = TRUE]
  <2>1. /\ task' = [u \in DOMAIN task |-> task'[u]]
        /\ \A u \in DOMAIN task \ {t} : task'[u] = task[u]
        /\ task'[t] = [task[t] EXCEPT !.cancel = TRUE]
    BY <1>1, <1>2
  <2>2. Moves(task[t], task'[t]) /\ Closes(task[t], task'[t])
    BY <1>1, <2>1, AskedRow
  <2> QED
    BY <2>1, <2>2, OneRowStep
<1>3. CASE /\ task[t].status \in Statuses \ (Terminal \cup {"running"})
           /\ task' = Cascade(Recompute([task EXCEPT ![t].status = "cancelled",
                                                     ![t].wait = FALSE]))
  <2>1. PICK us : us = [task EXCEPT ![t].status = "cancelled",
                                    ![t].wait = FALSE]
    OBVIOUS
  <2>2. /\ us = [u \in DOMAIN task |-> us[u]]
        /\ \A u \in DOMAIN task \ {t} : us[u] = task[u]
        /\ us[t] = [task[t] EXCEPT !.status = "cancelled", !.wait = FALSE]
    BY <1>1, <2>1
  <2>3. Moves(task[t], us[t]) /\ Closes(task[t], us[t])
    BY <1>1, <1>3, <2>2, CancelledRow
  <2>4. GraphRight(us, n) /\ EndsAll(task, us)
    BY <2>2, <2>3, OneRowStep
  <2>5. PICK vs : vs = Recompute(us)
    OBVIOUS
  <2>6. GraphRight(vs, n) /\ EndsAll(us, vs)
    BY <2>4, <2>5, GraphRecomputed
  <2>7. MovesAll(vs, Cascade(vs)) /\ ClosesAll(vs, Cascade(vs))
    BY <2>6, CascadeMoves DEF GraphRight
  <2>8. GraphRight(Cascade(vs), n) /\ EndsAll(vs, Cascade(vs))
    BY <2>6, <2>7, GraphMoved, EndsMoved
  <2>9. task' = Cascade(vs)
    BY <1>3, <2>1, <2>5
  <2>10. EndsAll(task, vs)
    BY <2>4, <2>6, EndsTwice
  <2> QED
    BY <2>8, <2>9, <2>10, EndsTwice
<1> QED
  BY <1>2, <1>3 DEF Cancel

\* A roll-up recomputes readiness after a step on one row.
LEMMA RollUpStep ==
  ASSUME NEW n, GraphRight(task, n), NEW t \in DOMAIN task, NEW us,
         us = [u \in DOMAIN task |-> us[u]],
         \A u \in DOMAIN task \ {t} : us[u] = task[u],
         Moves(task[t], us[t]), Closes(task[t], us[t]), RollUp(us, t)
  PROVE  GraphRight(task', n) /\ EndsAll(task, task')
<1>1. GraphRight(us, n) /\ EndsAll(task, us)
  BY OneRowStep
<1>2. GraphRight(Recompute(us), n) /\ EndsAll(us, Recompute(us))
  BY <1>1, GraphRecomputed
<1>3. task' = Recompute(us)
  BY DEF RollUp
<1> QED
  BY <1>1, <1>2, <1>3, EndsTwice

LEMMA OutcomeStep ==
  ASSUME NEW n, GraphRight(task, n), NEW t \in DOMAIN task,
         task[t].job \/ task[t].status = "waiting_ci", NEW passed \in BOOLEAN,
         NEW us, us = [task EXCEPT ![t] = Outcome(task[t], passed)]
  PROVE  /\ RollUp(us, t) => GraphRight(task', n) /\ EndsAll(task, task')
         /\ GraphRight(us, n) /\ EndsAll(task, us)
<1>1. RowRight(task[t]) /\ task = [u \in DOMAIN task |-> task[u]]
  BY TaskFacts
<1>2. PICK r : r = Outcome(task[t], passed)
  OBVIOUS
<1>3. Moves(task[t], r) /\ Closes(task[t], r)
  BY <1>1, <1>2, OutcomeRow
<1>4. us = [task EXCEPT ![t] = r]
  BY <1>2
<1>5. /\ us = [u \in DOMAIN task |-> us[u]]
      /\ \A u \in DOMAIN task \ {t} : us[u] = task[u]
      /\ us[t] = r
  BY <1>1, <1>4
<1>6. Moves(task[t], us[t]) /\ Closes(task[t], us[t])
  BY <1>3, <1>5
<1>7. RollUp(us, t) => GraphRight(task', n) /\ EndsAll(task, task')
  BY <1>5, <1>6, RollUpStep
<1>8. GraphRight(us, n) /\ EndsAll(task, us)
  BY <1>5, <1>6, OneRowStep
<1> QED
  BY <1>7, <1>8

LEMMA JobPassesStep ==
  ASSUME NEW n, GraphRight(task, n), NEW t \in DOMAIN task, JobPasses(t)
  PROVE  GraphRight(task', n) /\ EndsAll(task, task')
<1>1. RowRight(task[t]) /\ task = [u \in DOMAIN task |-> task[u]] /\ task[t].job
  BY TaskFacts DEF JobPasses
<1>2. CASE task' = [task EXCEPT ![t] = WaitStarted(task[t])]
  <2>1. PICK r : r = WaitStarted(task[t])
    OBVIOUS
  <2>2. Moves(task[t], r) /\ Closes(task[t], r)
    BY <1>1, <2>1, WaitingRow
  <2>3. /\ task' = [u \in DOMAIN task |-> task'[u]]
        /\ \A u \in DOMAIN task \ {t} : task'[u] = task[u]
        /\ task'[t] = r
    BY <1>1, <1>2, <2>1
  <2>4. Moves(task[t], task'[t]) /\ Closes(task[t], task'[t])
    BY <2>2, <2>3
  <2> QED
    BY <2>3, <2>4, OneRowStep
<1>3. CASE RollUp([task EXCEPT ![t] = Outcome(task[t], TRUE)], t)
  BY <1>1, <1>3, OutcomeStep
<1>4. CASE task' = [task EXCEPT ![t] = Outcome(task[t], TRUE)]
  BY <1>1, <1>4, OutcomeStep
<1> QED
  BY <1>2, <1>3, <1>4 DEF JobPasses

LEMMA OtherOutcomeSteps ==
  ASSUME NEW n, GraphRight(task, n), NEW t \in DOMAIN task,
         \/ JobFails(t) \/ CITimesOut(t)
         \/ \E runs \in SUBSET CheckRuns : CIConcludes(t, runs)
  PROVE  GraphRight(task', n) /\ EndsAll(task, task')
<1>1. CASE JobFails(t)
  BY <1>1, OutcomeStep DEF JobFails
<1>2. CASE CITimesOut(t)
  BY <1>2, OutcomeStep DEF CITimesOut
<1>3. ASSUME NEW runs \in SUBSET CheckRuns, CIConcludes(t, runs)
      PROVE  GraphRight(task', n) /\ EndsAll(task, task')
  <2>1. AllPass(runs) \in BOOLEAN
    BY DEF AllPass
  <2> QED
    BY <1>3, <2>1, OutcomeStep DEF CIConcludes
<1> QED
  BY <1>1, <1>2, <1>3

LEMMA JobCancelledStep ==
  ASSUME NEW n, GraphRight(task, n), NEW t \in DOMAIN task, JobCancelled(t)
  PROVE  GraphRight(task', n) /\ EndsAll(task, task')
<1>1. RowRight(task[t]) /\ task = [u \in DOMAIN task |-> task[u]] /\ task[t].job
  BY TaskFacts DEF JobCancelled
<1>2. PICK us : us = [task EXCEPT ![t].status = "cancelled", ![t].job = FALSE,
                                  ![t].cancel = FALSE]
  OBVIOUS
<1>3. /\ us = [u \in DOMAIN task |-> us[u]]
      /\ \A u \in DOMAIN task \ {t} : us[u] = task[u]
      /\ us[t] = [task[t] EXCEPT !.status = "cancelled", !.job = FALSE,
                                 !.cancel = FALSE]
  BY <1>1, <1>2
<1>4. Moves(task[t], us[t]) /\ Closes(task[t], us[t])
  BY <1>1, <1>3, SeenRow
<1>5. RollUp(us, t)
  BY <1>2 DEF JobCancelled
<1> QED
  BY <1>3, <1>4, <1>5, RollUpStep

LEMMA InsertStep ==
  ASSUME NEW key \in Keys, NEW after, NEW before,
         Insert(key, InsertSpec, after, before),
         NEW n, n = Len(plans), n \in Nat, GraphRight(task, n),
         ActivePlans = (IF plans = <<>> THEN {} ELSE {n})
  PROVE  GraphRight(task', n) /\ EndsAll(task, task')
<1> DEFINE m == Len(task)
           joined == [t \in DOMAIN task |->
                        IF t \in before
                        THEN [task[t] EXCEPT !.deps = @ \cup {m + 1}]
                        ELSE task[t]]
           row == NewTask(InsertSpec, n, after, key)
           ts == Append(joined, row)
<1>1. plans # <<>> /\ InsertionValid(n, key, after, before)
        /\ task' = Recompute(ts)
  BY DEF Insert
<1>2. TasksRight(task, n) /\ task \in Seq(TaskRows)
  BY DEF GraphRight, TasksRight
<1>3. m \in Nat /\ DOMAIN task = 1..m
  BY <1>2, LenProperties
<1>4. /\ after \cup before \subseteq OfPlan(task, n)
      /\ \A t \in before : task[t].status \in SafeForPrerequisite
      /\ \A t \in OfPlan(task, n) : task[t].key # key
      /\ ~InsertionCyclic(n, after, before)
  BY <1>1 DEF InsertionValid, NoReplay
<1>6. n \in Nat \ {0}
  <2>1. CASE n = 0
    <3>1. OfPlan(task, n) = {}
      BY <1>2, <2>1 DEF OfPlan, TasksRight
    <3>2. n \in ActivePlans
      BY <1>1
    <3> QED
      BY <1>2, <2>1, <3>2 DEF ActivePlans
  <2> QED
    BY <2>1
<1>7. NewRow(row, n, after, key)
  <2>1. after \in SUBSET Nat
    BY <1>3, <1>4 DEF OfPlan
  <2>2. /\ InsertSpec.kind \in Kinds /\ InsertSpec.needs \in BOOLEAN
        /\ InsertSpec.max \in Nat \ {0}
    BY DEF InsertSpec, Kinds
  <2> QED
    BY <1>6, <2>1, <2>2, NewTaskRight
<1> HIDE DEF row
<1>8. joined \in Seq(TaskRows) /\ DOMAIN joined = DOMAIN task /\ Len(joined) = m
  <2>1. \A t \in DOMAIN task : joined[t] \in TaskRows
    <3> SUFFICES ASSUME NEW t \in DOMAIN task
                 PROVE  joined[t] \in TaskRows
      OBVIOUS
    <3>1. task[t] \in TaskRows
      BY <1>2 DEF TasksRight, RowRight
    <3>2. [task[t] EXCEPT !.deps = @ \cup {m + 1}] \in TaskRows
      BY <1>3, <3>1 DEF TaskRows
    <3> QED
      BY <3>1, <3>2
  <2>2. joined \in [DOMAIN task -> TaskRows]
    BY <2>1
  <2> QED
    BY <1>2, <2>2, RowsInSeq
<1>9. \A t \in 1..m : joined[t] = IF t \in before
                         THEN [task[t] EXCEPT !.deps = @ \cup {m + 1}]
                         ELSE task[t]
  BY <1>3
<1> HIDE DEF joined, m
<1>10. /\ ts \in Seq(TaskRows) /\ DOMAIN ts = 1..(m + 1)
       /\ \A t \in 1..m : ts[t] = joined[t]
       /\ ts[m + 1] = row
  BY <1>3, <1>7, <1>8, AppendProperties DEF NewRow, RowRight
<1> HIDE DEF ts
<1>11. Inserted(task, ts, m, n, after, before, key)
  BY <1>3, <1>7, <1>9, <1>10 DEF Inserted
<1>12. TasksRight(ts, n) /\ ClosedInActive(ts, n) /\ EndsAll(task, ts)
  BY <1>4, <1>6, <1>10, <1>11, InsertedRight
<1>13. AcyclicTasks(ts)
  <2> DEFINE f == [t \in OfPlan(task, n) \cup {m + 1} |->
                     IF t = m + 1 THEN after
                     ELSE task[t].deps \cup (IF t \in before THEN {m + 1} ELSE {})]
  <2>1. ~Cyclic(OfPlan(task, n) \cup {m + 1}, f)
    BY <1>4 DEF InsertionCyclic, m
  <2>2. EdgesAfter(task, f, m, n, after, before)
    BY DEF EdgesAfter
  <2> HIDE DEF f
  <2> QED
    BY <1>4, <1>6, <1>11, <2>1, <2>2, InsertedAcyclic
<1>14. Unrepeated(ts)
  BY <1>4, <1>6, <1>11, InsertedUnrepeated
<1>15. GraphRight(ts, n)
  BY <1>12, <1>13, <1>14 DEF GraphRight
<1>16. GraphRight(Recompute(ts), n) /\ EndsAll(ts, Recompute(ts))
  BY <1>15, GraphRecomputed
<1> QED
  BY <1>1, <1>12, <1>16, EndsTwice DEF ts, joined, row, m

LEMMA CreateStep ==
  ASSUME NEW p, NEW spec \in Shapes, NEW version,
         CreatePlan(p, spec, version),
         NEW n, n = Len(plans), n \in Nat, GraphRight(task, n)
  PROVE  GraphRight(task', n + 1) /\ EndsAll(task, task')
<1> DEFINE m == Len(task)
           k == Len(spec)
           new == [i \in DOMAIN spec |->
                     NewTask(spec[i], n + 1, {m + d : d \in spec[i].deps}, "none")]
           us == Superseded(task)
<1>1. ValidPlan(spec) /\ task' = Recompute(us \o new)
  BY DEF CreatePlan
<1>2. TasksRight(task, n) /\ task \in Seq(TaskRows)
  BY DEF GraphRight, TasksRight
<1>3. m \in Nat /\ DOMAIN task = 1..m
  BY <1>2, LenProperties
<1>4. /\ spec \in Seq([kind : Kinds, deps : SUBSET Nat, needs : BOOLEAN,
                       max : Nat \ {0}])
      /\ \A i \in DOMAIN spec : spec[i].deps \subseteq DOMAIN spec
      /\ AcyclicTasks(spec)
  BY <1>1, ShapesAssumption DEF ValidPlan, AcyclicTasks
<1>5. k \in Nat /\ DOMAIN spec = 1..k
  BY <1>4, LenProperties
<1>6. ASSUME NEW i \in DOMAIN spec
      PROVE  NewRow(new[i], n + 1, Shifted(spec[i].deps, m), "none")
  <2>1. /\ spec[i].kind \in Kinds /\ spec[i].needs \in BOOLEAN
        /\ spec[i].max \in Nat \ {0} /\ spec[i].deps \in SUBSET Nat
    <3>1. spec[i] \in [kind : Kinds, deps : SUBSET Nat, needs : BOOLEAN,
                       max : Nat \ {0}]
      BY <1>4, <1>5, ElementOfSeq
    <3> QED
      BY <3>1
  <2>2. PICK D : D = {m + d : d \in spec[i].deps}
    OBVIOUS
  <2>3. D \in SUBSET Nat /\ n + 1 \in Nat \ {0}
    BY <1>3, <2>1, <2>2
  <2>4. new[i] = NewTask(spec[i], n + 1, D, "none")
    BY <2>2
  <2>5. D = Shifted(spec[i].deps, m)
    BY <2>2 DEF Shifted
  <2> HIDE DEF new, m
  <2>6. NewRow(NewTask(spec[i], n + 1, D, "none"), n + 1, D, "none")
    BY <2>1, <2>3, NewTaskRight
  <2> QED
    BY <2>4, <2>5, <2>6
<1>7. new \in Seq(TaskRows) /\ Len(new) = k /\ DOMAIN new = 1..k
  <2>1. \A i \in DOMAIN spec : new[i] \in TaskRows
    BY <1>6 DEF NewRow, RowRight
  <2>2. new = [i \in 1..k |-> new[i]]
    BY <1>5
  <2> HIDE DEF new, k
  <2>3. new \in [1..k -> TaskRows]
    BY <1>5, <2>1, <2>2
  <2>4. new \in Seq(TaskRows)
    BY <1>5, <2>3, SeqDef
  <2> QED
    BY <1>5, <2>3, <2>4, LenProperties
<1> HIDE DEF new, k
<1>8. MovesAll(task, us)
  BY <1>2, SupersededMoves
<1> HIDE DEF us
<1>9. us \in Seq(TaskRows) /\ DOMAIN us = DOMAIN task
  BY <1>8 DEF MovesAll
<1>10. Len(us) = m
  BY <1>3, <1>9, LenProperties
<1>11. TasksRight(us, n) /\ EndsAll(task, us)
  BY <1>2, <1>8, MovedRight, EndsMoved
<1>12. AcyclicTasks(us) /\ Unrepeated(us)
  BY <1>8, SameGraph DEF GraphRight, MovesAll, Moves
<1> HIDE DEF m
<1> PICK ts : ts = us \o new
  OBVIOUS
<1>13. /\ ts \in Seq(TaskRows) /\ DOMAIN ts = 1..(m + k)
       /\ \A t \in 1..m : ts[t] = us[t]
       /\ \A i \in 1..k : ts[m + i] = new[i]
  BY <1>7, <1>9, <1>10, JoinedRows
<1>14. Joined(us, ts, m, k, spec, n)
  <2>1. DOMAIN us = 1..m
    BY <1>3, <1>9
  <2> QED
    BY <1>3, <1>5, <1>6, <1>13, <2>1 DEF Joined
<1>15. TasksRight(ts, n + 1) /\ ClosedInActive(ts, n + 1)
  BY <1>4, <1>11, <1>13, <1>14, JoinedRight
<1>16. AcyclicTasks(ts)
  BY <1>4, <1>11, <1>12, <1>14, JoinedAcyclic
<1>17. Unrepeated(ts)
  BY <1>12, <1>14, JoinedUnrepeated
<1>18. EndsAll(us, ts)
  <2>1. \A t \in DOMAIN us : t \in DOMAIN ts /\ ts[t] = us[t]
    BY <1>14 DEF Joined
  <2> QED
    BY <2>1 DEF EndsAll, Ends
<1>19. GraphRight(ts, n + 1)
  BY <1>15, <1>16, <1>17 DEF GraphRight
<1>20. GraphRight(Recompute(ts), n + 1) /\ EndsAll(ts, Recompute(ts))
  BY <1>19, GraphRecomputed
<1> QED
  BY <1>1, <1>11, <1>18, <1>20, EndsTwice

-----------------------------------------------------------------------------
(* Goal and plans                                                          *)

LEMMA ReportTyped ==
  ASSUME goal \in GoalRows, NEW ts
  PROVE  [goal EXCEPT !.status = Report(ts)] \in GoalRows
<1>1. Report(ts) \in {"pending", "running", "waiting"} \cup GoalTerminal
  BY DEF Report, GoalRows, GoalTerminal
<1>2. PICK st \in {"pending", "running", "waiting"} \cup GoalTerminal :
        st = Report(ts)
  BY <1>1
<1>3. [goal EXCEPT !.status = st] \in GoalRows
  BY DEF GoalRows
<1> QED
  BY <1>2, <1>3

\* A step that leaves the plans and their version alone.
PlansKept ==
  /\ plans' = plans /\ planner' = planner
  /\ goal' \in GoalRows /\ goal'.version = goal.version

LEMMA KeptRight ==
  ASSUME PlansRight, ReplansRight, PlansKept
  PROVE  PlansRight' /\ ReplansRight' /\ Len(plans') = Len(plans)
BY DEF PlansRight, ReplansRight, PlansKept, PlanVersions, ActivePlans, Replans

LEMMA RollUpKeeps ==
  ASSUME PlansRight, NEW us, NEW t, RollUp(us, t)
  PROVE  PlansKept
<1>1. goal \in GoalRows
  BY DEF PlansRight
<1>2. PICK ts : ts = Recompute(us)
  OBVIOUS
<1>3. goal' = goal \/ goal' = [goal EXCEPT !.status = Report(ts)]
  BY <1>2 DEF RollUp
<1>4. goal' \in GoalRows
  BY <1>1, <1>3, ReportTyped
<1>5. goal'.version = goal.version
  BY <1>1, <1>3 DEF GoalRows
<1>6. plans' = plans /\ planner' = planner
  BY DEF RollUp
<1> QED
  BY <1>4, <1>5, <1>6 DEF PlansKept

LEMMA PlanFacts ==
  ASSUME PlansRight
  PROVE  /\ Len(plans) \in Nat /\ DOMAIN plans = 1..Len(plans)
         /\ goal.version = Len(plans) /\ IsFiniteSet(Replans)
         /\ Cardinality(Replans) \in Nat
         /\ ActivePlans = (IF plans = <<>> THEN {} ELSE {Len(plans)})
<1>1. Len(plans) \in Nat /\ DOMAIN plans = 1..Len(plans)
  BY LenProperties DEF PlansRight
<1>2. IsFiniteSet(1..Len(plans)) /\ Replans \in SUBSET (1..Len(plans))
  BY <1>1, FS_Interval DEF Replans
<1>3. IsFiniteSet(Replans)
  BY <1>2, FS_Subset
<1> QED
  BY <1>1, <1>3, FS_CardinalityType DEF PlansRight, PlanVersions

\* A new plan has the next version and is the only active one, whatever the
\* planner had read before it asked the AI.
LEMMA CreateRight ==
  ASSUME PlansRight, NEW p \in Planners, NEW spec,
         CreatePlan(p, spec, goal.version + 1)
  PROVE  /\ PlansRight' /\ Len(plans') = Len(plans) + 1
         /\ plans # <<>> => plans'[1].by = plans[1].by
         /\ plans = <<>> => plans'[1].by = p
         /\ Replans' = IF p = "replan" THEN Replans \cup {Len(plans) + 1}
                       ELSE Replans
<1> DEFINE n == Len(plans)
           old == [i \in DOMAIN plans |-> [plans[i] EXCEPT !.active = FALSE]]
           row == PlanRow(n + 1, p)
<1>1. /\ n \in Nat /\ DOMAIN plans = 1..n /\ goal.version = n
      /\ plans' = Append(old, row)
      /\ goal' = GoalRow("running", n + 1)
      /\ planner' = [planner EXCEPT ![p] = Answered]
  BY PlanFacts DEF CreatePlan
<1>2. /\ \A i \in 1..n : plans[i] \in PlanRows /\ plans[i].version = i
      /\ planner \in [Planners -> [awaiting : BOOLEAN, version : Nat]]
  BY <1>1, ElementOfSeq DEF PlansRight, PlanVersions
<1>3. row \in PlanRows /\ row.version = n + 1 /\ row.active /\ row.by = p
  BY <1>1 DEF PlanRow, PlanRows
<1>4. \A i \in 1..n : /\ old[i] \in PlanRows /\ old[i].version = i
                      /\ ~old[i].active /\ old[i].by = plans[i].by
  <2> SUFFICES ASSUME NEW i \in 1..n
               PROVE  /\ old[i] \in PlanRows /\ old[i].version = i
                      /\ ~old[i].active /\ old[i].by = plans[i].by
    OBVIOUS
  <2>1. plans[i] \in PlanRows /\ plans[i].version = i
    BY <1>2
  <2>2. old[i] = [plans[i] EXCEPT !.active = FALSE]
    BY <1>1
  <2> HIDE DEF old
  <2> QED
    BY <2>1, <2>2 DEF PlanRows
<1>5. old \in Seq(PlanRows) /\ Len(old) = n
  <2>1. old = [i \in 1..n |-> old[i]]
    BY <1>1
  <2> HIDE DEF old, n
  <2>2. old \in [1..n -> PlanRows]
    BY <1>4, <2>1
  <2>3. old \in Seq(PlanRows)
    BY <1>1, <2>2, SeqDef
  <2> QED
    BY <1>1, <2>2, <2>3, LenProperties
<1> HIDE DEF old, row, n
<1>6. /\ plans' \in Seq(PlanRows) /\ Len(plans') = n + 1
      /\ DOMAIN plans' = 1..(n + 1) /\ plans' # <<>>
      /\ \A i \in 1..n : plans'[i] = old[i]
      /\ plans'[n + 1] = row
  <2>1. /\ plans' \in Seq(PlanRows) /\ Len(plans') = n + 1 /\ plans' # <<>>
        /\ \A i \in 1..n : plans'[i] = old[i]
        /\ plans'[n + 1] = row
    BY <1>1, <1>3, <1>5, AppendProperties
  <2> QED
    BY <1>1, <2>1, LenProperties
<1>7. ActivePlans' = {n + 1}
  BY <1>1, <1>3, <1>4, <1>6 DEF ActivePlans
<1>8. \A i \in DOMAIN plans' : plans'[i].version = i
  BY <1>1, <1>3, <1>4, <1>6
<1>9. goal' \in GoalRows /\ goal'.version = n + 1
  BY <1>1 DEF GoalRow, GoalRows
<1>10. planner' \in [Planners -> [awaiting : BOOLEAN, version : Nat]]
  BY <1>1, <1>2 DEF Answered
<1>11. PlansRight'
  BY <1>6, <1>7, <1>8, <1>9, <1>10 DEF PlansRight, PlanVersions
<1>12. plans # <<>> => 1 \in 1..n
  BY <1>1 DEF n, PlansRight
<1>13. plans = <<>> => n = 0
  BY DEF n
<1>14. Replans' = IF p = "replan" THEN Replans \cup {n + 1} ELSE Replans
  BY <1>1, <1>3, <1>4, <1>6 DEF Replans
<1>15. plans # <<>> => plans'[1].by = plans[1].by
  BY <1>4, <1>6, <1>12
<1>16. plans = <<>> => plans'[1].by = p
  BY <1>3, <1>6, <1>13
<1> QED
  BY <1>6, <1>11, <1>14, <1>15, <1>16 DEF n

LEMMA PlannedReplans ==
  ASSUME PlansRight, ReplansRight, NEW p \in Planners, NEW spec,
         CreatePlan(p, spec, goal.version + 1), planner[p].awaiting
  PROVE  ReplansRight'
<1>1. /\ plans # <<>> => plans'[1].by = plans[1].by
      /\ plans = <<>> => plans'[1].by = p
      /\ Len(plans') = Len(plans) + 1
      /\ Replans' = IF p = "replan" THEN Replans \cup {Len(plans) + 1}
                    ELSE Replans
  BY CreateRight
<1>2. planner' = [planner EXCEPT ![p] = Answered]
  BY DEF CreatePlan
<1>3. IsFiniteSet(Replans) /\ Cardinality(Replans) \in Nat /\ MaxAutoReplans \in Nat
        /\ Len(plans) \in Nat
  BY PlanFacts, BoundsAssumption
<1>4. plans' # <<>>
  BY <1>1, <1>3
<1>5. CASE p = "founder"
  <2>1. planner'["replan"] = planner["replan"]
    BY <1>2, <1>5 DEF PlansRight
  <2> QED
    BY <1>1, <1>4, <1>5, <2>1 DEF ReplansRight
<1>6. CASE p = "replan"
  <2>1. plans # <<>> /\ Cardinality(Replans) < MaxAutoReplans
    BY <1>6 DEF ReplansRight
  <2> PICK x : x = Len(plans) + 1
    OBVIOUS
  <2>2. Replans' = Replans \cup {x}
    BY <1>1, <1>6
  <2>3. Cardinality(Replans \cup {x}) = IF x \in Replans THEN Cardinality(Replans)
                                       ELSE Cardinality(Replans) + 1
    BY <1>3, FS_AddElement
  <2>4. Cardinality(Replans') \in Nat /\ Cardinality(Replans') <= Cardinality(Replans) + 1
    BY <1>3, <2>2, <2>3
  <2>5. ~planner'["replan"].awaiting
    BY <1>2, <1>6 DEF PlansRight, Planners, Answered
  <2> QED
    BY <1>1, <1>3, <1>4, <2>1, <2>4, <2>5 DEF ReplansRight
<1> QED
  BY <1>5, <1>6 DEF Planners

\* There is room for a replan when it is asked for: the founder made a plan.
LEMMA AskedReplans ==
  ASSUME PlansRight, ReplansRight, GraphRight(task, Len(plans)), ReplanAsks
  PROVE  PlansRight' /\ ReplansRight'
<1> DEFINE n == Len(plans)
<1>1. /\ n \in Nat /\ DOMAIN plans = 1..n /\ goal.version = n
      /\ IsFiniteSet(Replans) /\ Cardinality(Replans) \in Nat
      /\ ActivePlans = (IF plans = <<>> THEN {} ELSE {n})
  BY PlanFacts
<1>2. plans # <<>> /\ goal.version - 1 < MaxAutoReplans
  BY <1>1 DEF ReplanAsks, ReplanDue
<1>3. plans[1].by = "founder" /\ n > 0
  BY <1>1, <1>2 DEF ReplansRight, PlansRight
<1>4. Cardinality(Replans) <= n - 1
  <2>1. Replans \in SUBSET (2..n)
    BY <1>1, <1>3 DEF Replans
  <2>2. IsFiniteSet(2..n) /\ Cardinality(2..n) = n - 1
    BY <1>1, <1>3, FS_Interval
  <2> QED
    BY <2>1, <2>2, FS_Subset
<1>5. Cardinality(Replans) < MaxAutoReplans
  BY <1>1, <1>2, <1>4, BoundsAssumption
<1>6. /\ planner' = [planner EXCEPT !["replan"] =
                       [awaiting |-> TRUE, version |-> goal.version]]
      /\ goal' = goal /\ plans' = plans
  BY DEF ReplanAsks
<1>7. planner' \in [Planners -> [awaiting : BOOLEAN, version : Nat]]
  BY <1>1, <1>6 DEF PlansRight
<1>8. PlansRight'
  BY <1>6, <1>7 DEF PlansRight, PlanVersions, ActivePlans
<1>9. ReplansRight'
  BY <1>2, <1>5, <1>6 DEF ReplansRight, Replans
<1> QED
  BY <1>8, <1>9

LEMMA FounderAsksRight ==
  ASSUME PlansRight, ReplansRight, FounderAsks
  PROVE  PlansRight' /\ ReplansRight'
<1>1. /\ planner' = [planner EXCEPT !["founder"] =
                       [awaiting |-> TRUE, version |-> goal.version]]
      /\ goal' = goal /\ plans' = plans
  BY DEF FounderAsks
<1>2. goal.version \in Nat
  BY DEF PlansRight, GoalRows
<1>3. planner' \in [Planners -> [awaiting : BOOLEAN, version : Nat]]
        /\ planner'["replan"] = planner["replan"]
  BY <1>1, <1>2 DEF PlansRight, Planners
<1>4. PlansRight'
  BY <1>1, <1>3 DEF PlansRight, PlanVersions, ActivePlans
<1>5. ReplansRight'
  BY <1>1, <1>3 DEF ReplansRight, Replans
<1> QED
  BY <1>4, <1>5

LEMMA RefusedRight ==
  ASSUME PlansRight, ReplansRight, NEW p \in Planners, PlanRefused(p)
  PROVE  PlansRight' /\ ReplansRight'
<1>1. planner' = [planner EXCEPT ![p] = Answered] /\ goal' = goal /\ plans' = plans
  BY DEF PlanRefused
<1>2. planner' \in [Planners -> [awaiting : BOOLEAN, version : Nat]]
  BY <1>1 DEF PlansRight, Answered
<1>3. planner'["replan"].awaiting => planner["replan"].awaiting
  BY <1>1 DEF PlansRight, Planners, Answered
<1>4. PlansRight'
  BY <1>1, <1>2 DEF PlansRight, PlanVersions, ActivePlans
<1>5. ReplansRight'
  BY <1>1, <1>3 DEF ReplansRight, Replans
<1> QED
  BY <1>4, <1>5

-----------------------------------------------------------------------------
(* Theorems                                                                *)

LEMMA InitRight ==
  ASSUME Init
  PROVE  GoalRight
<1>1. Len(plans) = 0 /\ DOMAIN plans = {} /\ DOMAIN task = {}
        /\ plans \in Seq(PlanRows) /\ task \in Seq(TaskRows)
  BY DEF Init
<1>2. goal \in GoalRows /\ goal.version = 0
  BY DEF Init, GoalRow, GoalRows
<1>3. planner \in [Planners -> [awaiting : BOOLEAN, version : Nat]]
        /\ \A p \in Planners : ~planner[p].awaiting
  BY DEF Init, Answered
<1>4. PlansRight
  BY <1>1, <1>2, <1>3 DEF PlansRight, PlanVersions, ActivePlans, Init
<1>5. ReplansRight
  <2>1. Replans = {}
    BY <1>1 DEF Replans
  <2>2. Cardinality(Replans) = 0
    BY <2>1, FS_EmptySet
  <2> QED
    BY <1>3, <2>2, BoundsAssumption DEF ReplansRight, Init, Planners
<1>6. AcyclicTasks(task)
  BY <1>1, AcyclicRows
<1>7. GraphRight(task, Len(plans))
  BY <1>1, <1>6 DEF GraphRight, TasksRight, ClosedInActive, Unrepeated
<1> QED
  BY <1>4, <1>5, <1>7 DEF GoalRight

\* The steps on tasks that are not an outcome leave goal and plans alone.
LEMMA NextRight ==
  ASSUME GoalRight, Next
  PROVE  GoalRight' /\ EndsAll(task, task')
<1> DEFINE n == Len(plans)
<1>1. /\ PlansRight /\ ReplansRight /\ GraphRight(task, n)
      /\ n \in Nat /\ ActivePlans = (IF plans = <<>> THEN {} ELSE {n})
      /\ goal \in GoalRows
  BY PlanFacts DEF GoalRight, PlansRight
<1>2. ASSUME PlansKept, GraphRight(task', n), EndsAll(task, task')
      PROVE  GoalRight' /\ EndsAll(task, task')
  BY <1>1, <1>2, KeptRight DEF GoalRight
<1>3. ASSUME task' = task, plans' = plans, PlansRight', ReplansRight'
      PROVE  GoalRight' /\ EndsAll(task, task')
  BY <1>1, <1>3 DEF GoalRight, EndsAll, Ends
<1>4. ASSUME FounderAsks
      PROVE  GoalRight' /\ EndsAll(task, task')
  BY <1>1, <1>3, <1>4, FounderAsksRight DEF FounderAsks
<1>5. ASSUME ReplanAsks
      PROVE  GoalRight' /\ EndsAll(task, task')
  BY <1>1, <1>3, <1>5, AskedReplans DEF ReplanAsks
<1>6. ASSUME NEW p \in Planners, Planned(p)
      PROVE  GoalRight' /\ EndsAll(task, task')
  <2>1. PICK spec \in Shapes : CreatePlan(p, spec, goal.version + 1)
    BY <1>6 DEF Planned
  <2>2. PlansRight' /\ Len(plans') = n + 1
    BY <1>1, <2>1, CreateRight
  <2>3. ReplansRight'
    BY <1>1, <1>6, <2>1, PlannedReplans DEF Planned
  <2>4. GraphRight(task', n + 1) /\ EndsAll(task, task')
    BY <1>1, <2>1, CreateStep
  <2> QED
    BY <2>2, <2>3, <2>4 DEF GoalRight
<1>7. ASSUME NEW p \in Planners, PlanRefused(p)
      PROVE  GoalRight' /\ EndsAll(task, task')
  BY <1>1, <1>3, <1>7, RefusedRight DEF PlanRefused
<1>8. ASSUME NEW k \in Keys, NEW s, NEW u, Insert(k, InsertSpec, s, u)
      PROVE  GoalRight' /\ EndsAll(task, task')
  <2>1. GraphRight(task', n) /\ EndsAll(task, task')
    BY <1>1, <1>8, InsertStep
  <2>2. PlansKept
    BY <1>1, <1>8 DEF Insert, PlansKept
  <2> QED
    BY <1>2, <2>1, <2>2
<1>9. ASSUME NEW t \in DOMAIN task,
             Approve(t) \/ Dispatch(t) \/ Retry(t) \/ Cancel(t)
      PROVE  GoalRight' /\ EndsAll(task, task')
  <2>1. GraphRight(task', n) /\ EndsAll(task, task')
    BY <1>1, <1>9, ApproveStep, DispatchStep, RetryStep, CancelStep
  <2>2. PlansKept
    BY <1>1, <1>9 DEF Approve, Dispatch, Retry, Cancel, PlansKept
  <2> QED
    BY <1>2, <2>1, <2>2
<1>10. ASSUME NEW t \in DOMAIN task, JobPasses(t)
       PROVE  GoalRight' /\ EndsAll(task, task')
  <2>1. GraphRight(task', n) /\ EndsAll(task, task')
    BY <1>1, <1>10, JobPassesStep
  <2>2. PlansKept
    <3>1. ASSUME NEW us, RollUp(us, t)
          PROVE  PlansKept
      BY <1>1, <3>1, RollUpKeeps
    <3>2. (UNCHANGED <<goal, plans, planner, used>>) => PlansKept
      BY <1>1 DEF PlansKept
    <3> QED
      BY <1>10, <3>1, <3>2 DEF JobPasses
  <2> QED
    BY <1>2, <2>1, <2>2
<1>11. ASSUME NEW t \in DOMAIN task,
              \/ JobFails(t) \/ CITimesOut(t)
              \/ \E runs \in SUBSET CheckRuns : CIConcludes(t, runs)
       PROVE  GoalRight' /\ EndsAll(task, task')
  <2>1. GraphRight(task', n) /\ EndsAll(task, task')
    BY <1>1, <1>11, OtherOutcomeSteps
  <2>2. \E us : RollUp(us, t)
    BY <1>11 DEF JobFails, CITimesOut, CIConcludes
  <2>3. PlansKept
    BY <1>1, <2>2, RollUpKeeps
  <2> QED
    BY <1>2, <2>1, <2>3
<1>12. ASSUME NEW t \in DOMAIN task, JobCancelled(t)
       PROVE  GoalRight' /\ EndsAll(task, task')
  <2>1. GraphRight(task', n) /\ EndsAll(task, task')
    BY <1>1, <1>12, JobCancelledStep
  <2>2. \E us : RollUp(us, t)
    BY <1>12 DEF JobCancelled
  <2>3. PlansKept
    BY <1>1, <2>2, RollUpKeeps
  <2> QED
    BY <1>2, <2>1, <2>3
<1>13. ASSUME Finalize
       PROVE  GoalRight' /\ EndsAll(task, task')
  <2>1. goal' \in GoalRows /\ goal'.version = goal.version
    BY <1>1, <1>13, ReportTyped DEF Finalize, GoalRows
  <2>2. PlansKept /\ task' = task
    BY <1>13, <2>1 DEF PlansKept, Finalize
  <2>3. EndsAll(task, task')
    BY <2>2 DEF EndsAll, Ends
  <2> QED
    BY <1>1, <1>2, <2>2, <2>3
<1> HIDE DEF n
<1> QED
  BY <1>4, <1>5, <1>6, <1>7, <1>8, <1>9, <1>10, <1>11, <1>12, <1>13 DEF Next

LEMMA StepRight ==
  ASSUME GoalRight, [Next]_vars
  PROVE  GoalRight' /\ EndsAll(task, task')
<1>1. CASE Next
  BY <1>1, NextRight
<1>2. CASE UNCHANGED vars
  <2>1. GoalRight'
    BY <1>2 DEF vars, GoalRight, PlansRight, ReplansRight, Replans,
                PlanVersions, ActivePlans
  <2>2. EndsAll(task, task')
    BY <1>2 DEF vars, EndsAll, Ends
  <2> QED
    BY <2>1, <2>2
<1> QED
  BY <1>1, <1>2

LEMMA GoalRightAlways == Spec => []GoalRight
BY InitRight, StepRight, PTL DEF Spec

LEMMA RightIsInv ==
  ASSUME GoalRight
  PROVE  PlanInv
<1> DEFINE n == Len(plans)
<1>1. /\ PlansRight /\ ReplansRight /\ GraphRight(task, n) /\ TasksRight(task, n)
      /\ n \in Nat /\ DOMAIN plans = 1..n
  BY PlanFacts DEF GoalRight, GraphRight
<1>2. TypeOK
  <2>1. ASSUME NEW t \in DOMAIN task
        PROVE  TaskRow(task[t]) /\ WaitRow(task[t])
    <3>1. /\ RowRight(task[t]) /\ task[t].plan \in DOMAIN plans
          /\ task[t].deps \subseteq OfPlan(task, task[t].plan)
      BY <1>1 DEF TasksRight
    <3>2. /\ task[t].attempts \in Nat /\ task[t].max \in Nat
          /\ task[t].status \in Statuses
      BY <3>1 DEF RowRight, TaskRows
    <3>3. task[t].attempts \in 0..task[t].max
      BY <3>1, <3>2 DEF RowRight
    <3> QED
      BY <3>1, <3>2, <3>3 DEF RowRight, TaskRow, WaitRow
  <2>2. \A i \in DOMAIN plans : plans[i] \in PlanRows
    BY <1>1, ElementOfSeq DEF PlansRight
  <2> QED
    BY <1>1, <2>1, <2>2 DEF TypeOK, PlansRight
<1>3. DependencyOrder
  BY <1>1 DEF DependencyOrder, TasksRight, Past
<1>4. GraphAcyclic
  BY <1>1 DEF GraphAcyclic, GraphRight, AcyclicTasks
<1>5. InsertedOnce
  BY <1>1 DEF InsertedOnce, GraphRight, Unrepeated
<1>6. ReplansBounded
  BY <1>1 DEF ReplansBounded, ReplansRight, Replans
<1> QED
  BY <1>1, <1>2, <1>3, <1>4, <1>5, <1>6 DEF PlanInv, PlansRight

\* Whatever plans the AI proposes, however the founder's request and the replan
\* tick overlap around their AI calls, and whenever tasks are inserted, cancelled,
\* retried and concluded: versions count up and only the newest plan is active, no
\* task runs before its dependencies are completed, no insertion closes a cycle or
\* repeats, and replans stay within their bound (planner.py, replan.py,
\* plan_insertion.py, graph.py).
THEOREM PlansStayRight == Spec => []PlanInv
BY GoalRightAlways, RightIsInv, PTL

\* Within the active plan a completed, failed or cancelled task stays so, although
\* jobs, CI waits and cancels of it may still be under way (execution_job.py,
\* ci_wait.py, executor.py).
THEOREM TerminalStays == Spec => TerminalIsFinal
<1>1. ASSUME GoalRight, [Next]_vars, NEW t \in DOMAIN task,
             task[t].plan \in ActivePlans, task[t].status \in Terminal
      PROVE  task'[t].status = task[t].status
  <2>1. EndsAll(task, task')
    BY <1>1, StepRight
  <2>2. task[t].plan = Len(plans)
    BY <1>1, PlanFacts DEF GoalRight
  <2>3. ~task[t].job
    BY <1>1, <2>2 DEF GoalRight, GraphRight, ClosedInActive
  <2> QED
    BY <1>1, <2>1, <2>3 DEF EndsAll, Ends
<1>2. GoalRight /\ [Next]_vars =>
        [\A t \in DOMAIN task :
           task[t].plan \in ActivePlans /\ task[t].status \in Terminal
             => task'[t].status = task[t].status]_vars
  BY <1>1
<1> QED
  BY <1>2, GoalRightAlways, PTL DEF Spec, TerminalIsFinal

-----------------------------------------------------------------------------
(* The invariant of the Development Driver                                 *)

WriteSteps == {"patch_file", "delete_file"}
DevJobs == {"queued", "running", "failed", "completed", "cancelled"}
Entries == [step : Nat, result : Results]
DevStates ==
  [next : Nat, failures : Nat, completed : Seq(Entries), attempts : Seq(Nat),
   pending : BOOLEAN]
DevAttempts ==
  [n : 1..MaxAttempts, job : DevJobs, plan : Seq(DevSteps), state : DevStates,
   verified : [1..MaxAttempts -> {"none", "passed", "failed"}]]
IntentKeys == [n : Nat, step : Nat, attempt : Nat]
Commits ==
  [by : 1..MaxAttempts, files : [DevFiles -> Nat], passed : {"passed"}]
Trees ==
  [files : [DevFiles -> Nat], index : [DevFiles -> Nat], head : [DevFiles -> Nat],
   intents : SUBSET IntentKeys, commits : SUBSET Commits]

DriverTyped ==
  /\ dev \in DevPlans
  /\ tree \in Trees
  /\ drive \in [at : {"idle", "plan", "loop", "intended", "landed"},
                open : DevAttempts \cup {<<>>}, actions : Nat, env : Nat]
  /\ world \in [env : Nat, lapsed : BOOLEAN, cancel : BOOLEAN, revoked : BOOLEAN,
                effects : Nat, upsets : Nat]

\* The checkpoint fits its plan.
PlanRight(o) ==
  /\ \A i \in DOMAIN o.plan :
       o.plan[i].capability = "delete_file" => o.plan[i].after = Absent
  /\ o.state.next \in 1..(Len(o.plan) + 1)
  /\ Len(o.state.attempts) = Len(o.plan)

\* What the checkpoint stepped over was done, waits for the provider, or may
\* be passed over.
DoneRight(o) ==
  \A i \in 1..(o.state.next - 1) :
    /\ o.plan[i].capability # "external_review"
    /\ \/ o.plan[i].capability = "provider_step" /\ o.state.pending
       \/ \E k \in DOMAIN o.state.completed :
            /\ o.state.completed[k].step = i
            /\ \/ o.state.completed[k].result = "succeeded"
               \/ o.plan[i].capability \in MayBePassedOver

\* No verification was passed over a required step that did not succeed.
CheckedRight(o) ==
  \A e \in 1..(o.state.next - 1), k \in DOMAIN o.state.completed :
    (/\ o.plan[e].capability = "verification_evaluate"
     /\ o.state.completed[k].step < e
     /\ o.plan[o.state.completed[k].step].required)
      => o.state.completed[k].result = "succeeded"

\* The shared counter bounds the failures of the step it is spent on.
FailuresOf(o, i) ==
  {k \in DOMAIN o.state.completed : o.state.completed[k] = Entry(i, "failed")}
FailuresRight(o) ==
  /\ \A k \in DOMAIN o.state.completed :
       /\ o.state.completed[k].step \in DOMAIN o.plan
       /\ o.state.completed[k].step <= o.state.next
  /\ o.job \in {"queued", "running"} => o.state.failures <= MaxFailures
  /\ \A i \in DOMAIN o.plan :
       /\ Cardinality(FailuresOf(o, i)) <= MaxFailures + 1
       /\ i = o.state.next => Cardinality(FailuresOf(o, i)) <= o.state.failures

\* Files are what the checkpoint wrote last, or what it writes next.
LastOf(S) == CHOOSE i \in S : \A j \in S : j <= i
WritesTo(plan, f) ==
  {i \in DOMAIN plan : plan[i].capability \in WriteSteps /\ plan[i].path = f}
Follows(files, plan, next) ==
  \A f \in DevFiles :
    LET done == {i \in WritesTo(plan, f) : i < next}
    IN  done # {} =>
          files[f] \in {plan[LastOf(done)].after}
                         \cup {plan[i].after : i \in WritesTo(plan, f) \ done}

AttemptRight(o) ==
  /\ o \in DevAttempts /\ PlanRight(o) /\ DoneRight(o) /\ CheckedRight(o)
  /\ FailuresRight(o)

RowsRight ==
  /\ AttemptRight(rows)
  /\ rows.job = "running" => Follows(tree.files, rows.plan, rows.state.next)
  /\ rows.job = "queued" => rows.plan = <<>>
  /\ rows.job = "completed" => /\ rows.state.next > Len(rows.plan)
                               /\ ~rows.state.pending
                               /\ rows.verified[rows.n] = "passed"
\* The tick goes on from the committed checkpoint.
OpenRight ==
  drive.at # "idle" =>
    /\ AttemptRight(open) /\ open.job = "running"
    /\ Follows(tree.files, open.plan, open.state.next)
    /\ rows.job \in {"queued", "running"}
    /\ rows.plan # <<>> => /\ rows.plan = open.plan
                           /\ rows.state.next <= open.state.next
\* An effect between its authority and its record.
EffectsRight ==
  /\ drive.at \in {"intended", "landed"} => Here \in DOMAIN open.plan
  /\ drive.at = "intended" => Step.capability = "patch_file"
  /\ drive.at = "landed" =>
       /\ Step.capability \in WriteSteps \cup {"stage_scoped_changes",
                                               "commit_scoped_changes"}
       /\ Step.capability \in WriteSteps => tree.files[Step.path] = Step.after
\* A revocation is seen by every later look.
AuthorityRight ==
  /\ world.effects <= 1
  /\ world.effects > 0 => world.revoked
  /\ drive.at # "idle" =>
       /\ drive.env <= world.env
       /\ world.revoked => ~MayAct
       /\ drive.at = "intended" => world.effects = 0

DriverRight == DriverTyped /\ RowsRight /\ OpenRight /\ EffectsRight /\ AuthorityRight

-----------------------------------------------------------------------------
(* Plans, rows and files                                                   *)

LEMMA LastOfIs ==
  ASSUME NEW S, S \subseteq Int, NEW m \in S, \A j \in S : j <= m
  PROVE  LastOf(S) = m
<1>1. \A i \in S : (\A j \in S : j <= i) => i = m
  OBVIOUS
<1> QED
  BY <1>1 DEF LastOf

LEMMA NothingWritten ==
  ASSUME NEW files, NEW plan, NEW next, plan = <<>> \/ next = 1,
         plan \in Seq(DevSteps)
  PROVE  Follows(files, plan, next)
<1>1. \A f \in DevFiles : {i \in WritesTo(plan, f) : i < next} = {}
  BY DEF WritesTo
<1> QED
  BY <1>1 DEF Follows

\* A step that writes nothing to a file can be stepped over.
LEMMA FollowsOn ==
  ASSUME NEW plan \in Seq(DevSteps), NEW i \in DOMAIN plan, NEW files \in [DevFiles -> Nat],
         Follows(files, plan, i),
         plan[i].capability \in WriteSteps => files[plan[i].path] = plan[i].after
  PROVE  Follows(files, plan, i + 1)
<1> SUFFICES ASSUME NEW f \in DevFiles, {j \in WritesTo(plan, f) : j < i + 1} # {}
             PROVE  files[f] \in {plan[LastOf({j \in WritesTo(plan, f) : j < i + 1})].after}
                        \cup {plan[j].after : j \in WritesTo(plan, f) \ {j \in WritesTo(plan, f) : j < i + 1}}
  BY DEF Follows
<1> DEFINE old == {j \in WritesTo(plan, f) : j < i}
           now == {j \in WritesTo(plan, f) : j < i + 1}
<1>1. WritesTo(plan, f) \subseteq Nat /\ i \in Nat
  BY DEF WritesTo
<1>2. CASE i \in WritesTo(plan, f)
  <2>1. LastOf(now) = i
    <3>1. now \subseteq Int /\ i \in now /\ \A j \in now : j <= i
      BY <1>1, <1>2
    <3> HIDE DEF now
    <3> QED
      BY <3>1, LastOfIs
  <2>2. files[f] = plan[i].after
    BY <1>2 DEF WritesTo
  <2> QED
    BY <2>1, <2>2
<1>3. CASE i \notin WritesTo(plan, f)
  <2>1. now = old
    BY <1>1, <1>3
  <2>2. old # {} => files[f] \in {plan[LastOf(old)].after}
                        \cup {plan[j].after : j \in WritesTo(plan, f) \ old}
    BY DEF Follows
  <2> QED
    BY <2>1, <2>2
<1> QED
  BY <1>2, <1>3

\* A write at or after the checkpoint keeps the files among what follows.
LEMMA FollowsWrite ==
  ASSUME NEW plan \in Seq(DevSteps), NEW i \in DOMAIN plan, NEW files \in [DevFiles -> Nat],
         NEW next \in Nat, next <= i, Follows(files, plan, next),
         plan[i].capability \in WriteSteps
  PROVE  Follows([files EXCEPT ![plan[i].path] = plan[i].after], plan, next)
<1> DEFINE new == [files EXCEPT ![plan[i].path] = plan[i].after]
<1> SUFFICES ASSUME NEW f \in DevFiles, {j \in WritesTo(plan, f) : j < next} # {}
             PROVE  new[f] \in {plan[LastOf({j \in WritesTo(plan, f) : j < next})].after}
                      \cup {plan[j].after : j \in WritesTo(plan, f) \ {j \in WritesTo(plan, f) : j < next}}
  BY DEF Follows
<1> DEFINE done == {j \in WritesTo(plan, f) : j < next}
<1>1. i \in Nat
  OBVIOUS
<1>2. CASE f = plan[i].path
  <2>1. i \in WritesTo(plan, f) \ done
    BY <1>1, <1>2 DEF WritesTo
  <2>2. new[f] = plan[i].after
    BY <1>2
  <2> QED
    BY <2>1, <2>2
<1>3. CASE f # plan[i].path
  BY <1>3 DEF Follows
<1> QED
  BY <1>2, <1>3

\* A result is recorded: what it says holds, and what was said stays.
LEMMA EntryKeeps ==
  ASSUME NEW o, AttemptRight(o), o.job = "running", o.state.next \in DOMAIN o.plan,
         NEW new \in DevAttempts, NEW result \in Results,
         new.plan = o.plan, new.state.pending = o.state.pending,
         new.state.completed = Append(o.state.completed, Entry(o.state.next, result)),
         Len(new.state.attempts) = Len(o.plan),
         \/ new.state.next = o.state.next + 1 /\ new.state.failures = o.state.failures
         \/ /\ result = "failed" /\ new.state.failures = o.state.failures + 1
            /\ new.state.next \in {o.state.next, o.state.next + 1},
         new.job \in {"queued", "running"} => new.state.failures <= MaxFailures,
         o.plan[o.state.next].capability \notin {"provider_step", "external_review"},
         result = "succeeded" \/ o.plan[o.state.next].capability \in MayBePassedOver,
         o.plan[o.state.next].capability = "verification_evaluate" =>
           \A k \in DOMAIN o.state.completed :
             o.plan[o.state.completed[k].step].required =>
               o.state.completed[k].result = "succeeded"
  PROVE  AttemptRight(new)
<1> DEFINE i == o.state.next
           old == o.state.completed
           now == new.state.completed
           n == Len(old)
<1>1. /\ o \in DevAttempts /\ PlanRight(o) /\ DoneRight(o) /\ CheckedRight(o)
      /\ FailuresRight(o)
  BY DEF AttemptRight
<1>2. /\ old \in Seq(Entries) /\ n \in Nat /\ i \in Nat /\ o.state.failures \in Nat
      /\ o.plan \in Seq(DevSteps) /\ i \in 1..Len(o.plan) /\ Len(o.plan) \in Nat
      /\ new.state.next \in Nat /\ new.state.failures \in Nat
  <2>1. o.state \in DevStates /\ new.state \in DevStates /\ o.plan \in Seq(DevSteps)
    BY <1>1 DEF DevAttempts
  <2>2. i \in Nat /\ old \in Seq(Entries) /\ o.state.failures \in Nat
        /\ new.state.next \in Nat /\ new.state.failures \in Nat
    BY <2>1 DEF DevStates
  <2> QED
    BY <2>1, <2>2
<1>3. Entry(i, result) \in Entries
  BY <1>2 DEF Entry, Entries
<1> HIDE DEF i, old, now
<1>4. /\ DOMAIN old = 1..n /\ DOMAIN now = 1..(n + 1)
      /\ \A k \in 1..n : now[k] = old[k]
      /\ now[n + 1].step = i /\ now[n + 1].result = result /\ now[n + 1] = Entry(i, result)
  <2>1. now = Append(old, Entry(i, result))
    BY DEF now, old, i
  <2> QED
    BY <1>2, <1>3, <2>1 DEF Entry
<1>5. new.state.next \in {i, i + 1}
  BY DEF i
<1>6. PlanRight(new)
  BY <1>1, <1>2, <1>5 DEF PlanRight, i
<1>7. DoneRight(new)
  <2> SUFFICES ASSUME NEW j \in 1..(new.state.next - 1)
               PROVE  /\ o.plan[j].capability # "external_review"
                      /\ \/ o.plan[j].capability = "provider_step" /\ o.state.pending
                         \/ \E k \in DOMAIN now :
                              /\ now[k].step = j
                              /\ \/ now[k].result = "succeeded"
                                 \/ o.plan[j].capability \in MayBePassedOver
    BY DEF DoneRight, now
  <2>1. CASE j = i
    <3>1. n + 1 \in DOMAIN now /\ now[n + 1].step = j /\ now[n + 1].result = result
      BY <1>2, <1>4, <2>1
    <3> QED
      BY <2>1, <3>1 DEF i
  <2>2. CASE j # i
    <3>1. j \in 1..(i - 1)
      BY <1>2, <1>5, <2>2
    <3>2. /\ o.plan[j].capability # "external_review"
          /\ \/ o.plan[j].capability = "provider_step" /\ o.state.pending
             \/ \E k \in DOMAIN old :
                  /\ old[k].step = j
                  /\ \/ old[k].result = "succeeded"
                     \/ o.plan[j].capability \in MayBePassedOver
      BY <1>1, <3>1 DEF DoneRight, i, old
    <3>3. \A k \in DOMAIN old : k \in DOMAIN now /\ now[k] = old[k]
      BY <1>2, <1>4
    <3> QED
      BY <3>2, <3>3
  <2> QED
    BY <2>1, <2>2
<1>8. CheckedRight(new)
  <2> SUFFICES ASSUME NEW e \in 1..(new.state.next - 1), NEW k \in DOMAIN now,
                      o.plan[e].capability = "verification_evaluate",
                      now[k].step < e, o.plan[now[k].step].required
               PROVE  now[k].result = "succeeded"
    BY DEF CheckedRight, now
  <2>1. k # n + 1 /\ k \in DOMAIN old /\ now[k] = old[k]
    <3>1. k # n + 1
      BY <1>2, <1>4, <1>5
    <3> QED
      BY <1>2, <1>4, <3>1
  <2>2. CASE e = i
    BY <2>1, <2>2 DEF i, old
  <2>3. CASE e # i
    <3>1. e \in 1..(i - 1)
      BY <1>2, <1>5, <2>3
    <3> QED
      BY <1>1, <2>1, <3>1 DEF CheckedRight, i, old
  <2> QED
    BY <2>2, <2>3
<1>9. FailuresRight(new)
  <2>1. ASSUME NEW k \in DOMAIN now
        PROVE  now[k].step \in DOMAIN o.plan /\ now[k].step <= new.state.next
    <3>1. CASE k = n + 1
      BY <1>2, <1>4, <1>5, <3>1
    <3>2. CASE k # n + 1
      <4>1. k \in DOMAIN old /\ now[k] = old[k]
        BY <1>2, <1>4, <3>2
      <4>2. old[k].step \in DOMAIN o.plan /\ old[k].step <= i
        BY <1>1, <4>1 DEF FailuresRight, i, old
      <4>3. old[k].step \in Nat
        BY <1>2, <4>2
      <4> QED
        BY <1>2, <1>5, <4>1, <4>2, <4>3
    <3> QED
      BY <3>1, <3>2
  <2> DEFINE was(j) == {k \in DOMAIN old : old[k] = Entry(j, "failed")}
             is(j) == {k \in DOMAIN now : now[k] = Entry(j, "failed")}
  <2>2. \A j \in DOMAIN o.plan : IsFiniteSet(was(j)) /\ Cardinality(was(j)) \in Nat
    <3>1. IsFiniteSet(DOMAIN old)
      BY <1>2, <1>4, FS_Interval
    <3> QED
      BY <3>1, FS_Subset, FS_CardinalityType
  <2>3. \A j \in DOMAIN o.plan :
          /\ Cardinality(was(j)) <= MaxFailures + 1
          /\ j = i => Cardinality(was(j)) <= o.state.failures
    BY <1>1 DEF FailuresRight, FailuresOf, old, i
  <2>4. MaxFailures \in Nat /\ o.state.failures <= MaxFailures
    BY <1>1, DriverBounds DEF FailuresRight
  <2>5. ASSUME NEW j \in DOMAIN o.plan
        PROVE  /\ Cardinality(is(j)) <= MaxFailures + 1
               /\ j = new.state.next => Cardinality(is(j)) <= new.state.failures
    <3>1. CASE j = i /\ result = "failed"
      <4>1. is(j) = was(j) \cup {n + 1} /\ n + 1 \notin was(j)
        BY <1>2, <1>4, <3>1
      <4>2. Cardinality(is(j)) = Cardinality(was(j)) + 1
        BY <2>2, <4>1, FS_AddElement
      <4>3. j = new.state.next => new.state.failures = o.state.failures + 1
        BY <1>2, <3>1 DEF i
      <4> HIDE DEF is, was
      <4> QED
        BY <1>2, <2>2, <2>3, <2>4, <3>1, <4>2, <4>3
    <3>2. CASE ~(j = i /\ result = "failed")
      <4>1. now[n + 1] # Entry(j, "failed")
        BY <1>4, <3>2 DEF Entry
      <4>2. is(j) = was(j)
        BY <1>2, <1>4, <4>1
      <4>3. ASSUME j = new.state.next, j # i
            PROVE  is(j) = {}
        <5>1. j > i
          BY <1>2, <1>5, <4>3
        <5>2. \A k \in DOMAIN old : old[k].step <= i
          BY <1>1 DEF FailuresRight, i, old
        <5>3. \A k \in DOMAIN old : old[k].step # j
          BY <1>2, <5>1, <5>2
        <5> QED
          BY <4>2, <5>3 DEF Entry
      <4>4. j = new.state.next /\ j # i => Cardinality(is(j)) = 0
        BY <4>3, FS_EmptySet
      <4>5. new.state.failures >= o.state.failures
        BY <1>2
      <4> HIDE DEF is, was
      <4> QED
        BY <1>2, <2>2, <2>3, <4>2, <4>4, <4>5
    <3> QED
      BY <3>1, <3>2
  <2> QED
    BY <2>1, <2>5 DEF FailuresRight, FailuresOf, now
<1> QED
  BY <1>6, <1>7, <1>8, <1>9 DEF AttemptRight

-----------------------------------------------------------------------------
(* Ends of a tick, and the steps between                                   *)

LEMMA ReturnsKeep ==
  ASSUME DriverRight, NEW o, Returns(o), AttemptRight(o), o.job # "queued",
         tree' \in Trees, UNCHANGED <<dev, world>>,
         o.job = "running" => Follows(tree'.files, o.plan, o.state.next),
         o.job = "completed" => /\ o.state.next > Len(o.plan) /\ ~o.state.pending
                                /\ o.verified[o.n] = "passed"
  PROVE  DriverRight'
<1>1. rows' = o /\ drive' = NoTick
  BY DEF Returns
<1>2. DriverTyped'
  BY <1>1 DEF DriverRight, DriverTyped, NoTick
<1>3. RowsRight'
  BY <1>1 DEF RowsRight
<1>4. drive'.at = "idle"
  BY <1>1 DEF NoTick
<1>5. OpenRight' /\ EffectsRight' /\ AuthorityRight'
  BY <1>4 DEF DriverRight, OpenRight, EffectsRight, AuthorityRight
<1> QED
  BY <1>2, <1>3, <1>5 DEF DriverRight

LEMMA GoesOnKeeps ==
  ASSUME DriverRight, drive.at # "idle", NEW o, AttemptRight(o), o.job = "running",
         drive' \in [at : {"loop"}, open : DevAttempts, actions : Nat, env : Nat],
         drive'.open = o, drive'.env = drive.env,
         tree' \in Trees, tree'.files = tree.files, UNCHANGED <<dev, rows, world>>,
         Follows(tree.files, o.plan, o.state.next),
         rows.plan # <<>> => rows.plan = o.plan /\ rows.state.next <= o.state.next
  PROVE  DriverRight'
<1>1. drive'.at = "loop"
  OBVIOUS
<1>2. DriverTyped'
  BY DEF DriverRight, DriverTyped
<1>3. RowsRight'
  BY DEF DriverRight, RowsRight
<1>4. OpenRight'
  BY <1>1 DEF DriverRight, OpenRight, open
<1>5. EffectsRight'
  BY <1>1 DEF EffectsRight
<1>6. AuthorityRight'
  BY <1>1 DEF DriverRight, AuthorityRight, MayAct, Authorized
<1> QED
  BY <1>2, <1>3, <1>4, <1>5, <1>6 DEF DriverRight

\* What a tick at work knows of its attempt.
LEMMA OpenIs ==
  ASSUME DriverRight, drive.at # "idle"
  PROVE  /\ AttemptRight(open) /\ open.job = "running" /\ open \in DevAttempts
         /\ open.plan \in Seq(DevSteps) /\ open.state \in DevStates
         /\ Here \in 1..(Len(open.plan) + 1) /\ Len(open.plan) \in Nat
         /\ Len(open.state.attempts) = Len(open.plan)
         /\ Follows(tree.files, open.plan, Here)
         /\ rows.plan # <<>> => rows.plan = open.plan /\ rows.state.next <= Here
         /\ rows.state.next \in Nat /\ rows \in DevAttempts
         /\ tree \in Trees /\ tree.files \in [DevFiles -> Nat]
         /\ drive \in [at : {"idle", "plan", "loop", "intended", "landed"},
                       open : DevAttempts, actions : Nat, env : Nat]
<1>1. /\ AttemptRight(open) /\ open.job = "running" /\ Follows(tree.files, open.plan, open.state.next)
      /\ rows.plan # <<>> => rows.plan = open.plan /\ rows.state.next <= open.state.next
  BY DEF DriverRight, OpenRight
<1>2. open \in DevAttempts /\ PlanRight(open)
  BY <1>1 DEF AttemptRight
<1>3. /\ open.plan \in Seq(DevSteps) /\ open.state \in DevStates
  BY <1>2 DEF DevAttempts
<1>4. rows \in DevAttempts /\ PlanRight(rows)
  BY DEF DriverRight, RowsRight, AttemptRight
<1>5. rows.state.next \in Nat
  <2>1. rows.state \in DevStates
    BY <1>4 DEF DevAttempts
  <2> QED
    BY <2>1 DEF DevStates
<1>6. tree \in Trees /\ tree.files \in [DevFiles -> Nat]
  BY DEF DriverRight, DriverTyped, Trees
<1>7. drive \in [at : {"idle", "plan", "loop", "intended", "landed"},
                 open : DevAttempts, actions : Nat, env : Nat]
  BY <1>2 DEF DriverRight, DriverTyped, open
<1> QED
  BY <1>1, <1>2, <1>3, <1>4, <1>5, <1>6, <1>7 DEF PlanRight, Here

LEMMA JobOf ==
  ASSUME NEW o, AttemptRight(o), NEW job \in {"failed", "completed", "cancelled"}
  PROVE  LET new == [o EXCEPT !.job = job]
         IN  AttemptRight(new) /\ new.job = job /\ new.plan = o.plan /\ new.state = o.state
               /\ new.n = o.n /\ new.verified = o.verified
<1> DEFINE new == [o EXCEPT !.job = job]
<1>1. o \in DevAttempts /\ PlanRight(o) /\ DoneRight(o) /\ CheckedRight(o) /\ FailuresRight(o)
  BY DEF AttemptRight
<1>2. /\ new \in DevAttempts /\ new.job = job /\ new.plan = o.plan /\ new.state = o.state
      /\ new.n = o.n /\ new.verified = o.verified
  BY <1>1 DEF DevAttempts, DevJobs
<1> HIDE DEF new
<1>3. PlanRight(new)
  BY <1>1, <1>2 DEF PlanRight
<1>4. DoneRight(new)
  BY <1>1, <1>2 DEF DoneRight
<1>5. CheckedRight(new)
  BY <1>1, <1>2 DEF CheckedRight
<1>6. FailuresRight(new)
  BY <1>1, <1>2 DEF FailuresRight, FailuresOf
<1>7. AttemptRight(new)
  BY <1>2, <1>3, <1>4, <1>5, <1>6 DEF AttemptRight
<1> QED
  BY <1>2, <1>7 DEF new

LEMMA ParksKeep ==
  ASSUME DriverRight, NEW o, Parks(o), AttemptRight(o), tree' \in Trees, UNCHANGED <<dev, world>>
  PROVE  DriverRight'
<1> DEFINE new == [o EXCEPT !.job = "failed"]
<1>1. AttemptRight(new) /\ new.job = "failed"
  BY JobOf
<1>2. Returns(new)
  BY DEF Parks
<1> HIDE DEF new
<1> QED
  BY <1>1, <1>2, ReturnsKeep

LEMMA ErrsKeeps ==
  ASSUME DriverRight, Errs, UNCHANGED <<dev, tree>>, 
         world' \in [env : Nat, lapsed : BOOLEAN, cancel : BOOLEAN, revoked : BOOLEAN,
                     effects : Nat, upsets : Nat],
         world'.effects = world.effects, world'.revoked = world.revoked
  PROVE  DriverRight'
<1>1. drive' = NoTick /\ UNCHANGED rows
  BY DEF Errs
<1>2. drive'.at = "idle"
  BY <1>1 DEF NoTick
<1>3. DriverTyped'
  BY <1>1 DEF DriverRight, DriverTyped, NoTick
<1>4. RowsRight'
  BY <1>1 DEF DriverRight, RowsRight
<1>5. OpenRight' /\ EffectsRight' /\ AuthorityRight'
  BY <1>2 DEF DriverRight, OpenRight, EffectsRight, AuthorityRight
<1> QED
  BY <1>3, <1>4, <1>5 DEF DriverRight

LEMMA RecordsKeep ==
  ASSUME DriverRight, drive.at \in {"loop", "landed"}, Here \in DOMAIN open.plan,
         NEW result \in Results, Records(result),
         Step.capability \notin {"provider_step", "external_review", "verification_evaluate"},
         result = "succeeded" \/ Step.capability \in MayBePassedOver,
         Step.capability \in WriteSteps => tree.files[Step.path] = Step.after,
         tree' \in Trees, tree'.files = tree.files, UNCHANGED <<dev, world>>
  PROVE  DriverRight'
<1> DEFINE completed == Append(open.state.completed, Entry(Here, result))
           attempts == [open.state.attempts EXCEPT ![Here] = @ + 1]
           s == [open.state EXCEPT !.completed = completed, !.attempts = attempts, !.next = Here + 1]
           o == [open EXCEPT !.state = s]
           retries == Step.retry /\ s.failures + 1 <= MaxFailures
           fs == FailedState(s, retries)
           f == [open EXCEPT !.state = fs]
           p == [f EXCEPT !.job = "failed"]
<1>1. /\ AttemptRight(open) /\ open.job = "running" /\ open \in DevAttempts
      /\ open.plan \in Seq(DevSteps) /\ open.state \in DevStates
      /\ Here \in Nat /\ Here = open.state.next /\ Len(open.plan) \in Nat
      /\ Len(open.state.attempts) = Len(open.plan)
      /\ Follows(tree.files, open.plan, Here)
      /\ rows.plan # <<>> => rows.plan = open.plan /\ rows.state.next <= Here
      /\ rows.state.next \in Nat
      /\ tree.files \in [DevFiles -> Nat]
      /\ drive \in [at : {"idle", "plan", "loop", "intended", "landed"},
                    open : DevAttempts, actions : Nat, env : Nat]
  BY OpenIs DEF Here
<1>2. /\ completed \in Seq(Entries) /\ attempts \in Seq(Nat) /\ Len(attempts) = Len(open.plan)
      /\ open.state.failures \in Nat
  <2>1. open.state.completed \in Seq(Entries) /\ open.state.attempts \in Seq(Nat)
        /\ open.state.failures \in Nat
    BY <1>1 DEF DevStates
  <2>2. Entry(Here, result) \in Entries
    BY <1>1 DEF Entry, Entries
  <2>3. Here \in 1..Len(open.state.attempts)
    BY <1>1
  <2>4. completed \in Seq(Entries)
    BY <2>1, <2>2
  <2>5. attempts \in Seq(Nat) /\ Len(attempts) = Len(open.state.attempts)
    <3>1. open.state.attempts[Here] + 1 \in Nat
      BY <2>1, <2>3
    <3> DEFINE q == open.state.attempts
               v == open.state.attempts[Here] + 1
    <3>2. attempts = [q EXCEPT ![Here] = v]
      BY <2>1, <2>3
    <3>3. q \in Seq(Nat) /\ Here \in 1..Len(q) /\ v \in Nat
      BY <2>1, <2>3, <3>1
    <3> HIDE DEF q, v
    <3>4. [q EXCEPT ![Here] = v] \in Seq(Nat) /\ Len([q EXCEPT ![Here] = v]) = Len(q)
      BY <3>3
    <3> QED
      BY <3>2, <3>4 DEF q
  <2> QED
    BY <1>1, <2>1, <2>4, <2>5
<1>3. /\ s \in DevStates /\ s.completed = completed /\ s.attempts = attempts /\ s.next = Here + 1
      /\ s.failures = open.state.failures /\ s.pending = open.state.pending
  <2> DEFINE next == Here + 1
  <2>1. s = [open.state EXCEPT !.completed = completed, !.attempts = attempts, !.next = next]
    OBVIOUS
  <2>2. next \in Nat
    BY <1>1
  <2> HIDE DEF completed, attempts, next, s
  <2>3. /\ s \in DevStates /\ s.completed = completed /\ s.attempts = attempts /\ s.next = next
        /\ s.failures = open.state.failures /\ s.pending = open.state.pending
    BY <1>1, <1>2, <2>1, <2>2 DEF DevStates
  <2> QED
    BY <2>3 DEF next
<1>4. /\ fs \in DevStates /\ fs.completed = completed /\ fs.attempts = attempts
      /\ fs.failures = open.state.failures + 1 /\ fs.pending = open.state.pending
      /\ fs.next = IF retries THEN Here ELSE Here + 1
  <2> HIDE DEF s, completed, attempts, retries
  <2> DEFINE more == s.failures + 1
             next == IF retries THEN s.next - 1 ELSE s.next
  <2>1. fs = [s EXCEPT !.failures = more, !.next = next]
    BY <1>3 DEF FailedState, DevStates
  <2>a. next = IF retries THEN Here ELSE Here + 1
    BY <1>1, <1>3
  <2>b. more \in Nat
    BY <1>2, <1>3
  <2> HIDE DEF fs, more, next
  <2>c. next \in Nat
    <3>1. Here + 1 \in Nat
      BY <1>1
    <3> QED
      BY <1>1, <2>a, <3>1
  <2>2. more \in Nat /\ next \in Nat
    BY <2>b, <2>c
  <2>3. /\ fs \in DevStates /\ fs.completed = s.completed /\ fs.attempts = s.attempts
        /\ fs.failures = more /\ fs.pending = s.pending /\ fs.next = next
    BY <1>3, <2>1, <2>2 DEF DevStates
  <2> QED
    BY <1>3, <2>3, <2>a DEF more
<1> HIDE DEF s, fs, completed, attempts
<1>5. /\ o \in DevAttempts /\ o.state = s /\ o.plan = open.plan /\ o.job = "running"
      /\ f \in DevAttempts /\ f.state = fs /\ f.plan = open.plan /\ f.job = "running"
      /\ p \in DevAttempts /\ p.state = fs /\ p.plan = open.plan /\ p.job = "failed"
  BY <1>1, <1>3, <1>4 DEF DevAttempts, DevJobs
<1>6. IF ~Authorized THEN Returns(o)
      ELSE IF result = "capability_missing" THEN Returns(o)
      ELSE IF result = "succeeded"
      THEN /\ drive' = [drive EXCEPT !.at = "loop", !.open = o, !.actions = @ + 1]
           /\ UNCHANGED rows
      ELSE IF retries THEN Returns(f) ELSE Parks(f)
  BY DEF Records, s, fs, completed, attempts, Here
<1>7. open.state.failures <= MaxFailures
  BY <1>1 DEF AttemptRight, FailuresRight
<1>8. /\ open.plan[Here].capability \notin {"provider_step", "external_review", "verification_evaluate"}
      /\ result = "succeeded" \/ open.plan[Here].capability \in MayBePassedOver
      /\ open.plan[Here].capability \in WriteSteps =>
           tree.files[open.plan[Here].path] = open.plan[Here].after
  BY DEF Step
<1> HIDE DEF o, f, p, retries
<1>9. AttemptRight(o) /\ Follows(tree.files, o.plan, o.state.next)
  <2>1. AttemptRight(o)
    BY <1>1, <1>2, <1>3, <1>5, <1>7, <1>8, EntryKeeps DEF completed
  <2>2. Follows(tree.files, open.plan, Here + 1)
    BY <1>1, <1>8, FollowsOn
  <2> QED
    BY <1>3, <1>5, <2>1, <2>2
<1>10. CASE ~Authorized \/ result = "capability_missing"
  BY <1>5, <1>6, <1>9, <1>10, ReturnsKeep
<1>11. CASE Authorized /\ result = "succeeded"
  <2>1. /\ drive' \in [at : {"loop"}, open : DevAttempts, actions : Nat, env : Nat]
        /\ drive'.open = o /\ drive'.env = drive.env /\ UNCHANGED rows
    <3> DEFINE actions == drive.actions + 1
    <3>1. drive' = [drive EXCEPT !.at = "loop", !.open = o, !.actions = actions] /\ UNCHANGED rows
      BY <1>6, <1>11
    <3>2. actions \in Nat
      BY <1>1
    <3> HIDE DEF actions
    <3> QED
      BY <1>1, <1>5, <3>1, <3>2
  <2>2. drive.at # "idle"
    OBVIOUS
  <2>3. rows.plan # <<>> => rows.plan = o.plan /\ rows.state.next <= o.state.next
    BY <1>1, <1>3, <1>5
  <2> QED
    BY <1>5, <1>9, <2>1, <2>2, <2>3, GoesOnKeeps
<1>12. CASE Authorized /\ result = "failed"
  <2>1. CASE retries
    <3>1. open.state.failures + 1 <= MaxFailures
      BY <1>3, <2>1 DEF retries
    <3>2. AttemptRight(f)
      <4>1. /\ f.state.completed = Append(open.state.completed, Entry(open.state.next, result))
            /\ Len(f.state.attempts) = Len(open.plan) /\ f.state.pending = open.state.pending
            /\ result = "failed" /\ f.state.failures = open.state.failures + 1
            /\ f.state.next \in {open.state.next, open.state.next + 1}
            /\ f.state.failures <= MaxFailures
        BY <1>1, <1>2, <1>4, <1>5, <1>12, <2>1, <3>1 DEF completed
      <4> QED
        BY <1>1, <1>5, <1>8, <4>1, EntryKeeps
    <3>3. Follows(tree.files, f.plan, f.state.next)
      BY <1>1, <1>4, <1>5, <2>1
    <3> QED
      BY <1>5, <1>6, <1>12, <2>1, <3>2, <3>3, ReturnsKeep
  <2>2. CASE ~retries
    <3>1. AttemptRight(p)
      <4>1. /\ p.state.completed = Append(open.state.completed, Entry(open.state.next, result))
            /\ Len(p.state.attempts) = Len(open.plan) /\ p.state.pending = open.state.pending
            /\ result = "failed" /\ p.state.failures = open.state.failures + 1
            /\ p.state.next \in {open.state.next, open.state.next + 1}
        BY <1>1, <1>2, <1>4, <1>5, <1>12, <2>2 DEF completed
      <4> QED
        BY <1>1, <1>5, <1>8, <4>1, EntryKeeps
    <3>2. Returns(p)
      BY <1>6, <1>12, <2>2 DEF Parks, p
    <3> QED
      BY <1>5, <3>1, <3>2, ReturnsKeep
  <2> QED
    BY <2>1, <2>2
<1> QED
  BY <1>10, <1>11, <1>12 DEF Results

-----------------------------------------------------------------------------
(* Actions                                                                 *)

\* At a step of the plan, inside the bounds.
LEMMA AtIs ==
  ASSUME DriverRight, NEW capabilities, At(capabilities)
  PROVE  drive.at = "loop" /\ Here \in DOMAIN open.plan /\ Step.capability \in capabilities
BY OpenIs DEF At, InPlan

LEMMA StartsTick ==
  ASSUME DriverRight, TickStarts
  PROVE  DriverRight'
<1> DEFINE new == [rows EXCEPT !.job = "running"]
<1>1. /\ drive.at = "idle" /\ UNCHANGED <<dev, rows>>
      /\ rows.job = "queued" \/ (rows.job = "running" /\ ~world.lapsed)
      /\ drive' = [at |-> "plan", open |-> new, actions |-> 0, env |-> world.env]
      /\ world' = [world EXCEPT !.lapsed = FALSE, !.revoked = world.cancel, !.effects = 0]
      /\ tree' = IF rows.job = "queued"
                 THEN [tree EXCEPT !.files = tree.head, !.index = tree.head, !.intents = {}]
                 ELSE tree
  BY DEF TickStarts, IsFresh
<1>2. /\ rows \in DevAttempts /\ tree \in Trees /\ AttemptRight(rows)
      /\ rows.plan \in Seq(DevSteps)
      /\ world \in [env : Nat, lapsed : BOOLEAN, cancel : BOOLEAN, revoked : BOOLEAN,
                    effects : Nat, upsets : Nat]
  <2>1. AttemptRight(rows) /\ rows \in DevAttempts
    BY DEF DriverRight, RowsRight, AttemptRight
  <2> QED
    BY <2>1 DEF DriverRight, DriverTyped, DevAttempts
<1>3. new \in DevAttempts /\ new.plan = rows.plan /\ new.state = rows.state /\ new.job = "running"
  BY <1>2 DEF DevAttempts, DevJobs
<1> HIDE DEF new
<1>4. AttemptRight(new)
  <2>1. PlanRight(rows) /\ DoneRight(rows) /\ CheckedRight(rows) /\ FailuresRight(rows)
    BY <1>2 DEF AttemptRight
  <2>2. PlanRight(new)
    BY <1>3, <2>1 DEF PlanRight
  <2>3. DoneRight(new)
    BY <1>3, <2>1 DEF DoneRight
  <2>4. CheckedRight(new)
    BY <1>3, <2>1 DEF CheckedRight
  <2>5. FailuresRight(new)
    BY <1>1, <1>3, <2>1 DEF FailuresRight, FailuresOf
  <2> QED
    BY <1>3, <2>2, <2>3, <2>4, <2>5 DEF AttemptRight
<1>5. tree' \in Trees
  BY <1>1, <1>2 DEF Trees
<1>6. /\ world' \in [env : Nat, lapsed : BOOLEAN, cancel : BOOLEAN, revoked : BOOLEAN,
                     effects : Nat, upsets : Nat]
      /\ world'.effects = 0 /\ world'.revoked = world.cancel /\ world'.cancel = world.cancel
      /\ world'.env = world.env
  BY <1>1, <1>2
<1>7. /\ drive' \in [at : {"idle", "plan", "loop", "intended", "landed"},
                     open : DevAttempts \cup {<<>>}, actions : Nat, env : Nat]
      /\ drive'.at = "plan" /\ drive'.open = new /\ drive'.env = world.env
  BY <1>1, <1>2, <1>3
<1>8. DriverTyped'
  BY <1>1, <1>5, <1>6, <1>7 DEF DriverRight, DriverTyped
<1>9. RowsRight'
  <2>1. rows.job = "running" => tree' = tree
    BY <1>1
  <2> QED
    BY <1>1, <2>1 DEF DriverRight, RowsRight
<1>10. OpenRight'
  <2>1. Follows(tree'.files, rows.plan, rows.state.next)
    <3>1. CASE rows.job = "running"
      <4>1. tree' = tree
        BY <1>1, <3>1
      <4> QED
        BY <3>1, <4>1 DEF DriverRight, RowsRight
    <3>2. CASE rows.job = "queued"
      BY <1>2, <3>2, NothingWritten DEF DriverRight, RowsRight
    <3> QED
      BY <1>1, <3>1, <3>2
  <2>2. rows.state.next \in Nat
    BY <1>2 DEF DevAttempts, DevStates
  <2> QED
    BY <1>1, <1>3, <1>4, <1>7, <2>1, <2>2 DEF OpenRight, open
<1>11. EffectsRight'
  BY <1>7 DEF EffectsRight
<1>12. AuthorityRight'
  BY <1>2, <1>6, <1>7 DEF AuthorityRight, MayAct
<1> QED
  BY <1>8, <1>9, <1>10, <1>11, <1>12 DEF DriverRight

LEMMA PlannedIs ==
  ASSUME DriverRight
  PROVE  /\ PlannedSteps \in Seq(DevSteps) /\ PlannedSteps # <<>>
         /\ \A i \in DOMAIN PlannedSteps :
              PlannedSteps[i].capability = "delete_file" => PlannedSteps[i].after = Absent
<1>1. dev \in [recipe : BOOLEAN, steps : Seq(DevSteps)] /\ dev.steps # <<>>
      /\ \A i \in DOMAIN dev.steps :
           dev.steps[i].capability = "delete_file" => dev.steps[i].after = Absent
  BY PlansAssumption DEF DriverRight, DriverTyped
<1>2. dev.steps \in Seq(DevSteps) /\ Len(dev.steps) \in Nat /\ Len(dev.steps) # 0
  BY <1>1
<1>3. tree.files \in [DevFiles -> Nat]
  BY DEF DriverRight, DriverTyped, Trees
<1>4. ASSUME NEW i \in DOMAIN dev.steps
      PROVE  /\ PlannedSteps[i] \in DevSteps
             /\ PlannedSteps[i].capability = "delete_file" => PlannedSteps[i].after = Absent
  <2>1. dev.steps[i] \in DevSteps
    BY <1>2
  <2>2. dev.steps[i].path \in DevFiles
    BY <2>1 DEF DevSteps
  <2>3. tree.files[dev.steps[i].path] \in Nat
    BY <1>3, <2>2
  <2> DEFINE q == [dev.steps[i] EXCEPT !.before = tree.files[dev.steps[i].path]]
  <2>4. q \in DevSteps /\ q.capability = dev.steps[i].capability /\ q.after = dev.steps[i].after
    BY <2>1, <2>3 DEF DevSteps
  <2>5. PlannedSteps[i] \in {q, dev.steps[i]}
    BY DEF PlannedSteps
  <2> HIDE DEF q
  <2> QED
    BY <1>1, <2>1, <2>4, <2>5
<1>5. DOMAIN PlannedSteps = 1..Len(dev.steps)
  BY <1>2 DEF PlannedSteps
<1>6. PlannedSteps \in Seq(DevSteps) /\ Len(PlannedSteps) = Len(dev.steps)
  <2>1. PlannedSteps = [i \in 1..Len(dev.steps) |-> PlannedSteps[i]]
    BY <1>2 DEF PlannedSteps
  <2>2. \A i \in 1..Len(dev.steps) : PlannedSteps[i] \in DevSteps
    BY <1>2, <1>4
  <2> DEFINE g == [i \in 1..Len(dev.steps) |-> PlannedSteps[i]]
  <2>3. g \in Seq(DevSteps) /\ Len(g) = Len(dev.steps)
    BY <1>2, <2>2
  <2> QED
    BY <2>1, <2>3
<1> QED
  BY <1>2, <1>4, <1>5, <1>6

LEMMA PlansKeep ==
  ASSUME DriverRight, PlanTask
  PROVE  DriverRight'
<1>1. drive.at = "plan" /\ UNCHANGED <<dev, tree, world>>
  BY DEF PlanTask
<1>2. /\ AttemptRight(open) /\ open.job = "running" /\ open \in DevAttempts
      /\ Follows(tree.files, open.plan, Here) /\ tree \in Trees
      /\ rows.plan # <<>> => rows.plan = open.plan /\ rows.state.next <= Here
      /\ drive \in [at : {"idle", "plan", "loop", "intended", "landed"},
                    open : DevAttempts, actions : Nat, env : Nat]
  BY <1>1, OpenIs
<1>3. CASE Returns(open)
  BY <1>1, <1>2, <1>3, ReturnsKeep DEF Here
<1>4. CASE open.plan = PlannedSteps /\ Proceeds("loop", open)
  <2>1. drive' = [drive EXCEPT !.at = "loop", !.open = open] /\ UNCHANGED rows
    BY <1>4 DEF Proceeds
  <2>2. /\ drive' \in [at : {"loop"}, open : DevAttempts, actions : Nat, env : Nat]
        /\ drive'.open = open /\ drive'.env = drive.env
    BY <1>2, <2>1
  <2> QED
    BY <1>1, <1>2, <2>1, <2>2, GoesOnKeeps DEF Here
<1>5. CASE /\ open.plan = <<>> /\ open.plan # PlannedSteps
           /\ Proceeds("loop", [open EXCEPT !.plan = PlannedSteps, !.state = DriverState(Len(PlannedSteps))])
  <2> DEFINE n == Len(PlannedSteps)
             st == DriverState(n)
             new == [open EXCEPT !.plan = PlannedSteps, !.state = st]
  <2>1. /\ PlannedSteps \in Seq(DevSteps) /\ n \in Nat /\ n # 0 /\ DOMAIN PlannedSteps = 1..n
        /\ \A i \in DOMAIN PlannedSteps : PlannedSteps[i].capability = "delete_file" => PlannedSteps[i].after = Absent
    BY PlannedIs
  <2>2. /\ st.next = 1 /\ st.failures = 0 /\ st.completed = <<>> /\ st.pending = FALSE
        /\ st.attempts = [i \in 1..n |-> 0]
    BY DEF DriverState
  <2>3. Len(st.attempts) = n /\ st \in DevStates
    <3>1. st.attempts \in Seq(Nat) /\ Len(st.attempts) = n
      BY <2>1, <2>2
    <3> QED
      BY <2>2, <3>1 DEF DevStates, DriverState
  <2> HIDE DEF st
  <2>4. /\ new \in DevAttempts /\ new.plan = PlannedSteps /\ new.state = st /\ new.job = "running"
    BY <1>2, <2>1, <2>3 DEF DevAttempts
  <2>5. drive' = [drive EXCEPT !.at = "loop", !.open = new] /\ UNCHANGED rows
    BY <1>5 DEF Proceeds, st
  <2> HIDE DEF new, n
  <2>6. AttemptRight(new)
    <3>1. PlanRight(new)
      BY <2>1, <2>2, <2>3, <2>4 DEF PlanRight, n
    <3>2. DoneRight(new) /\ CheckedRight(new)
      BY <2>2, <2>4 DEF DoneRight, CheckedRight
    <3>3. FailuresRight(new)
      <4>1. DOMAIN new.state.completed = {}
        BY <2>2, <2>4
      <4>2. \A i \in DOMAIN new.plan : FailuresOf(new, i) = {}
        BY <4>1 DEF FailuresOf
      <4>3. \A i \in DOMAIN new.plan : Cardinality(FailuresOf(new, i)) = 0
        BY <4>2, FS_EmptySet
      <4> QED
        BY <2>2, <2>4, <4>1, <4>3, DriverBounds DEF FailuresRight
    <3> QED
      BY <2>4, <3>1, <3>2, <3>3 DEF AttemptRight
  <2>7. Follows(tree.files, new.plan, new.state.next)
    BY <2>1, <2>2, <2>4, NothingWritten
  <2>8. /\ drive' \in [at : {"loop"}, open : DevAttempts, actions : Nat, env : Nat]
        /\ drive'.open = new /\ drive'.env = drive.env
    BY <1>2, <2>4, <2>5
  <2>9. rows.plan = <<>>
    BY <1>2, <1>5
  <2> QED
    BY <1>1, <1>2, <2>4, <2>5, <2>6, <2>7, <2>8, <2>9, GoesOnKeeps
<1> QED
  BY <1>3, <1>4, <1>5 DEF PlanTask

LEMMA StopsKeep ==
  ASSUME DriverRight, ActionBound \/ WaitProvider \/ ExternalReview \/ StopsBefore
  PROVE  DriverRight'
<1>1. drive.at # "idle" /\ UNCHANGED <<dev, tree, world>> /\ (Returns(open) \/ Parks(open))
  BY DEF ActionBound, WaitProvider, ExternalReview, StopsBefore, At, InPlan
<1>2. AttemptRight(open) /\ open.job = "running" /\ tree \in Trees
      /\ Follows(tree.files, open.plan, open.state.next)
  BY <1>1, OpenIs DEF Here
<1>3. CASE Returns(open)
  BY <1>1, <1>2, <1>3, ReturnsKeep
<1>4. CASE Parks(open)
  BY <1>1, <1>2, <1>4, ParksKeep
<1> QED
  BY <1>1, <1>3, <1>4

\* The provider's part is stepped over, and stays pending.
LEMMA PendingKeeps ==
  ASSUME NEW o, AttemptRight(o), o.state.next \in DOMAIN o.plan,
         o.plan[o.state.next].capability = "provider_step",
         NEW new \in DevAttempts, new.plan = o.plan, new.job = o.job,
         new.state.pending, new.state.next = o.state.next + 1,
         new.state.completed = o.state.completed, new.state.attempts = o.state.attempts,
         new.state.failures = o.state.failures
  PROVE  AttemptRight(new)
<1> DEFINE i == o.state.next
           old == o.state.completed
<1>1. /\ PlanRight(o) /\ DoneRight(o) /\ CheckedRight(o) /\ FailuresRight(o) /\ o \in DevAttempts
  BY DEF AttemptRight
<1>2. /\ o.plan \in Seq(DevSteps) /\ o.state \in DevStates
  BY <1>1 DEF DevAttempts
<1>3. i \in Nat /\ i \in 1..Len(o.plan) /\ Len(o.plan) \in Nat /\ old \in Seq(Entries)
      /\ o.state.failures \in Nat
  BY <1>2 DEF DevStates
<1>4. PlanRight(new)
  BY <1>1, <1>3 DEF PlanRight
<1>5. DoneRight(new)
  <2> SUFFICES ASSUME NEW j \in 1..(new.state.next - 1)
               PROVE  /\ o.plan[j].capability # "external_review"
                      /\ \/ o.plan[j].capability = "provider_step"
                         \/ \E k \in DOMAIN old :
                              /\ old[k].step = j
                              /\ \/ old[k].result = "succeeded"
                                 \/ o.plan[j].capability \in MayBePassedOver
    BY DEF DoneRight
  <2>1. CASE j = i
    BY <2>1
  <2>2. CASE j # i
    <3>1. j \in 1..(i - 1)
      BY <1>3, <2>2
    <3> QED
      BY <1>1, <3>1 DEF DoneRight
  <2> QED
    BY <2>1, <2>2
<1>6. CheckedRight(new)
  <2> SUFFICES ASSUME NEW e \in 1..(new.state.next - 1), NEW k \in DOMAIN old,
                      o.plan[e].capability = "verification_evaluate",
                      old[k].step < e, o.plan[old[k].step].required
               PROVE  old[k].result = "succeeded"
    BY DEF CheckedRight
  <2>1. e \in 1..(i - 1)
    BY <1>3
  <2> QED
    BY <1>1, <2>1 DEF CheckedRight
<1>7. FailuresRight(new)
  <2>1. \A k \in DOMAIN old : old[k].step \in DOMAIN o.plan /\ old[k].step <= i /\ old[k].step \in Nat
    BY <1>1, <1>3 DEF FailuresRight
  <2>2. FailuresOf(o, i + 1) = {}
    BY <1>3, <2>1 DEF FailuresOf, Entry
  <2>3. Cardinality(FailuresOf(o, i + 1)) = 0
    BY <2>2, FS_EmptySet
  <2>4. \A j : FailuresOf(new, j) = FailuresOf(o, j)
    BY DEF FailuresOf
  <2> HIDE DEF i
  <2>5. \A j \in DOMAIN o.plan :
          /\ Cardinality(FailuresOf(o, j)) <= MaxFailures + 1
          /\ j = i + 1 => Cardinality(FailuresOf(o, j)) <= o.state.failures
    BY <1>1, <1>3, <2>3 DEF FailuresRight
  <2> QED
    BY <1>1, <1>3, <2>1, <2>4, <2>5 DEF FailuresRight, i
<1> QED
  BY <1>4, <1>5, <1>6, <1>7 DEF AttemptRight

LEMMA ProviderKeeps ==
  ASSUME DriverRight, ProviderStep
  PROVE  DriverRight'
<1> DEFINE s == AfterProvider(open.state)
           o == [open EXCEPT !.state = s]
<1>1. /\ drive.at = "loop" /\ Here \in DOMAIN open.plan /\ Step.capability = "provider_step"
      /\ UNCHANGED <<dev, tree, world>>
      /\ Proceeds("loop", o) \/ Parks(o)
  BY AtIs DEF ProviderStep
<1>2. /\ AttemptRight(open) /\ open.job = "running" /\ open \in DevAttempts
      /\ open.plan \in Seq(DevSteps) /\ open.state \in DevStates
      /\ Here \in Nat /\ Here = open.state.next
      /\ Follows(tree.files, open.plan, Here) /\ tree \in Trees
      /\ rows.plan # <<>> => rows.plan = open.plan /\ rows.state.next <= Here
      /\ rows.state.next \in Nat
      /\ tree.files \in [DevFiles -> Nat]
      /\ drive \in [at : {"idle", "plan", "loop", "intended", "landed"},
                    open : DevAttempts, actions : Nat, env : Nat]
  BY <1>1, OpenIs DEF Here
<1>3. /\ s \in DevStates /\ s.pending /\ s.next = Here + 1
      /\ s.completed = open.state.completed /\ s.attempts = open.state.attempts
      /\ s.failures = open.state.failures
  <2> DEFINE next == Here + 1
  <2>1. s = [open.state EXCEPT !.pending = TRUE, !.next = next]
    BY <1>2 DEF AfterProvider, DevStates
  <2>2. next \in Nat
    BY <1>2
  <2> HIDE DEF s, next
  <2>3. /\ s \in DevStates /\ s.pending /\ s.next = next
        /\ s.completed = open.state.completed /\ s.attempts = open.state.attempts
        /\ s.failures = open.state.failures
    BY <1>2, <2>1, <2>2 DEF DevStates
  <2> QED
    BY <2>3 DEF next
<1> HIDE DEF s
<1>4. o \in DevAttempts /\ o.plan = open.plan /\ o.job = "running" /\ o.state = s
  BY <1>2, <1>3 DEF DevAttempts
<1> HIDE DEF o
<1>5. open.plan[Here].capability = "provider_step"
  BY <1>1 DEF Step
<1>6. AttemptRight(o)
  BY <1>1, <1>2, <1>3, <1>4, <1>5, PendingKeeps
<1>7. Follows(tree.files, o.plan, o.state.next)
  <2>1. Follows(tree.files, open.plan, Here + 1)
    BY <1>1, <1>2, <1>5, FollowsOn DEF WriteSteps
  <2> QED
    BY <1>3, <1>4, <2>1
<1>8. CASE Proceeds("loop", o)
  <2>1. /\ drive' \in [at : {"loop"}, open : DevAttempts, actions : Nat, env : Nat]
        /\ drive'.open = o /\ drive'.env = drive.env /\ UNCHANGED rows
    BY <1>2, <1>4, <1>8 DEF Proceeds
  <2>2. rows.plan # <<>> => rows.plan = o.plan /\ rows.state.next <= o.state.next
    BY <1>2, <1>3, <1>4
  <2> QED
    BY <1>1, <1>2, <1>4, <1>6, <1>7, <2>1, <2>2, GoesOnKeeps
<1>9. CASE Parks(o)
  BY <1>1, <1>2, <1>6, <1>9, ParksKeep
<1> QED
  BY <1>1, <1>8, <1>9

LEMMA EvaluateKeeps ==
  ASSUME DriverRight, Evaluate
  PROVE  DriverRight'
<1> DEFINE passed == EvidencePasses(open.state)
           verified == [open.verified EXCEPT ![open.n] = IF passed THEN "passed" ELSE "failed"]
           o == [open EXCEPT !.verified = verified]
           completed == Append(open.state.completed, Entry(Here, "succeeded"))
           s == [open.state EXCEPT !.next = Here + 1, !.completed = completed]
           new == [o EXCEPT !.state = s]
<1>1. /\ drive.at = "loop" /\ Here \in DOMAIN open.plan
      /\ Step.capability = "verification_evaluate" /\ UNCHANGED <<dev, tree, world>>
  BY AtIs DEF Evaluate
<1>2. /\ AttemptRight(open) /\ open.job = "running" /\ open \in DevAttempts
      /\ open.plan \in Seq(DevSteps) /\ open.state \in DevStates
      /\ Here \in Nat /\ Here = open.state.next /\ Len(open.plan) \in Nat
      /\ Len(open.state.attempts) = Len(open.plan)
      /\ Follows(tree.files, open.plan, Here) /\ tree \in Trees
      /\ rows.plan # <<>> => rows.plan = open.plan /\ rows.state.next <= Here
      /\ rows.state.next \in Nat
      /\ tree.files \in [DevFiles -> Nat]
      /\ drive \in [at : {"idle", "plan", "loop", "intended", "landed"},
                    open : DevAttempts, actions : Nat, env : Nat]
  BY <1>1, OpenIs DEF Here
<1>3. verified \in [1..MaxAttempts -> {"none", "passed", "failed"}]
  BY <1>2 DEF DevAttempts
<1>4. o \in DevAttempts /\ o.plan = open.plan /\ o.job = "running" /\ o.state = open.state
  <2> HIDE DEF verified
  <2> QED
    BY <1>2, <1>3 DEF DevAttempts
<1>5. AttemptRight(o)
  <2>1. PlanRight(open) /\ DoneRight(open) /\ CheckedRight(open) /\ FailuresRight(open)
    BY <1>2 DEF AttemptRight
  <2> HIDE DEF o
  <2>2. PlanRight(o)
    BY <1>4, <2>1 DEF PlanRight
  <2>3. DoneRight(o)
    BY <1>4, <2>1 DEF DoneRight
  <2>4. CheckedRight(o)
    BY <1>4, <2>1 DEF CheckedRight
  <2>5. FailuresRight(o)
    BY <1>2, <1>4, <2>1 DEF FailuresRight, FailuresOf
  <2> QED
    BY <1>4, <2>2, <2>3, <2>4, <2>5 DEF AttemptRight
<1>6. CASE ~passed
  <2>1. Parks(o)
    BY <1>6 DEF Evaluate
  <2> QED
    BY <1>1, <1>2, <1>5, <2>1, ParksKeep
<1>7. CASE passed
  <2>1. completed \in Seq(Entries) /\ open.state.completed \in Seq(Entries)
    <3>1. Entry(Here, "succeeded") \in Entries
      BY <1>2 DEF Entry, Entries, Results
    <3>2. open.state.completed \in Seq(Entries)
      BY <1>2 DEF DevStates
    <3> QED
      BY <3>1, <3>2
  <2>2. /\ s \in DevStates /\ s.next = Here + 1 /\ s.completed = completed
        /\ s.attempts = open.state.attempts /\ s.failures = open.state.failures
        /\ s.pending = open.state.pending
    <3> DEFINE next == Here + 1
    <3>1. s = [open.state EXCEPT !.next = next, !.completed = completed]
      OBVIOUS
    <3>2. next \in Nat
      BY <1>2
    <3> HIDE DEF s, next, completed
    <3>3. /\ s \in DevStates /\ s.next = next /\ s.completed = completed
          /\ s.attempts = open.state.attempts /\ s.failures = open.state.failures
          /\ s.pending = open.state.pending
      BY <1>2, <2>1, <3>1, <3>2 DEF DevStates
    <3> QED
      BY <3>3 DEF next
  <2>3. drive' = [drive EXCEPT !.actions = @ + 1, !.open = new] /\ UNCHANGED rows
    <3>1. /\ drive' = [drive EXCEPT !.actions = @ + 1,
                !.open = [o EXCEPT !.state.next = @ + 1,
                  !.state.completed = Append(@, Entry(Here, "succeeded"))]]
          /\ UNCHANGED rows
      BY <1>7 DEF Evaluate
    <3>2. [o EXCEPT !.state.next = @ + 1,
                  !.state.completed = Append(@, Entry(Here, "succeeded"))] = new
      <4> HIDE DEF o
      <4> QED
        BY <1>2, <1>4 DEF DevAttempts, DevStates
    <3> QED
      BY <3>1, <3>2
  <2> HIDE DEF s, o
  <2>4. new \in DevAttempts /\ new.plan = open.plan /\ new.job = "running" /\ new.state = s
    BY <1>4, <2>2 DEF DevAttempts
  <2> HIDE DEF new
  <2>5. /\ drive' \in [at : {"loop"}, open : DevAttempts, actions : Nat, env : Nat]
        /\ drive'.open = new /\ drive'.env = drive.env
    <3> DEFINE actions == drive.actions + 1
    <3>1. drive' = [drive EXCEPT !.actions = actions, !.open = new]
      BY <1>2, <2>3
    <3>2. actions \in Nat
      BY <1>2
    <3> HIDE DEF actions
    <3> QED
      BY <1>1, <1>2, <2>4, <3>1, <3>2
  <2>6. open.plan[Here].capability = "verification_evaluate"
    BY <1>1 DEF Step
  <2>7. \A k \in DOMAIN open.state.completed :
          open.plan[open.state.completed[k].step].required =>
            open.state.completed[k].result = "succeeded"
    BY <1>7 DEF EvidencePasses
  <2>8. AttemptRight(new)
    <3>1. open.state.failures <= MaxFailures
      BY <1>2 DEF AttemptRight, FailuresRight
    <3>2. "succeeded" \in Results
      BY DEF Results
    <3>3. /\ new.state.completed = Append(open.state.completed, Entry(open.state.next, "succeeded"))
          /\ Len(new.state.attempts) = Len(open.plan) /\ new.state.pending = open.state.pending
          /\ new.state.failures = open.state.failures
          /\ new.state.next = open.state.next + 1
      BY <1>2, <2>2, <2>4
    <3>4. open.state.next \in DOMAIN open.plan
      BY <1>1, <1>2
    <3>5. open.plan[open.state.next].capability = "verification_evaluate"
      BY <1>2, <2>6
    <3> QED
      BY <1>2, <2>4, <2>7, <3>1, <3>2, <3>3, <3>4, <3>5, EntryKeeps
  <2>9. Follows(tree.files, new.plan, new.state.next)
    <3>1. Follows(tree.files, open.plan, Here + 1)
      BY <1>1, <1>2, <2>6, FollowsOn DEF WriteSteps
    <3> QED
      BY <2>2, <2>4, <3>1
  <2>10. rows.plan # <<>> => rows.plan = new.plan /\ rows.state.next <= new.state.next
    BY <1>2, <2>2, <2>4
  <2> QED
    BY <1>1, <1>2, <2>3, <2>4, <2>5, <2>8, <2>9, <2>10, GoesOnKeeps
<1> QED
  BY <1>6, <1>7

\* An effect lands where the plan says, with the authority its step was given.
LEMMA LandsKeep ==
  ASSUME DriverRight, drive.at # "idle", Here \in DOMAIN open.plan,
         Proceeds("landed", open), Effect, UNCHANGED dev, tree' \in Trees,
         Step.capability \in WriteSteps \cup {"stage_scoped_changes",
                                              "commit_scoped_changes"},
         tree'.files = IF Step.capability \in WriteSteps
                       THEN [tree.files EXCEPT ![Step.path] = Step.after]
                       ELSE tree.files,
         world.effects = 0
  PROVE  DriverRight'
<1>1. /\ AttemptRight(open) /\ open.job = "running" /\ open \in DevAttempts
      /\ open.plan \in Seq(DevSteps) /\ open.state \in DevStates
      /\ Here \in Nat /\ Here = open.state.next
      /\ Follows(tree.files, open.plan, Here)
      /\ rows.plan # <<>> => rows.plan = open.plan /\ rows.state.next <= Here
      /\ rows.state.next \in Nat /\ rows \in DevAttempts
      /\ tree.files \in [DevFiles -> Nat]
      /\ drive \in [at : {"idle", "plan", "loop", "intended", "landed"},
                    open : DevAttempts, actions : Nat, env : Nat]
  BY OpenIs DEF Here
<1>2. /\ drive' = [drive EXCEPT !.at = "landed", !.open = open] /\ UNCHANGED rows
      /\ world' = [world EXCEPT !.effects = IF world.revoked THEN @ + 1 ELSE @]
  BY DEF Proceeds, Effect
<1>3. /\ drive' \in [at : {"idle", "plan", "loop", "intended", "landed"},
                     open : DevAttempts, actions : Nat, env : Nat]
      /\ drive'.at = "landed" /\ drive'.open = open /\ drive'.env = drive.env
  BY <1>1, <1>2
<1>4. open' = open /\ Here' = Here /\ Step' = Step
  BY <1>3 DEF open, Here, Step
<1>5. world \in [env : Nat, lapsed : BOOLEAN, cancel : BOOLEAN, revoked : BOOLEAN,
                 effects : Nat, upsets : Nat]
  BY DEF DriverRight, DriverTyped
<1>6. /\ world' \in [env : Nat, lapsed : BOOLEAN, cancel : BOOLEAN, revoked : BOOLEAN,
                     effects : Nat, upsets : Nat]
      /\ world'.effects \in {0, 1}
      /\ world'.effects > 0 => world.revoked
      /\ world'.env = world.env /\ world'.lapsed = world.lapsed
      /\ world'.cancel = world.cancel /\ world'.revoked = world.revoked
  <2> DEFINE effects == IF world.revoked THEN 1 ELSE 0
  <2>1. world' = [world EXCEPT !.effects = effects]
    BY <1>2
  <2>2. effects \in {0, 1} /\ effects \in Nat /\ (effects > 0 => world.revoked)
    OBVIOUS
  <2> HIDE DEF effects
  <2> QED
    BY <1>5, <2>1, <2>2
<1>7. \A next \in Nat :
        next <= Here /\ Follows(tree.files, open.plan, next) => Follows(tree'.files, open.plan, next)
  <2> SUFFICES ASSUME NEW next \in Nat, next <= Here, Follows(tree.files, open.plan, next)
               PROVE  Follows(tree'.files, open.plan, next)
    OBVIOUS
  <2>1. CASE Step.capability \in WriteSteps
    <3>1. tree'.files = [tree.files EXCEPT ![open.plan[Here].path] = open.plan[Here].after]
      BY <2>1 DEF Step
    <3>2. open.plan[Here].capability \in WriteSteps
      BY <2>1 DEF Step
    <3>3. open.plan \in Seq(DevSteps) /\ tree.files \in [DevFiles -> Nat]
      BY <1>1
    <3> DEFINE plan == open.plan
               here == Here
               files == tree.files
    <3>4. /\ plan \in Seq(DevSteps) /\ here \in DOMAIN plan /\ files \in [DevFiles -> Nat]
          /\ next <= here /\ Follows(files, plan, next) /\ plan[here].capability \in WriteSteps
      BY <3>2, <3>3
    <3> HIDE DEF plan, here, files
    <3>5. Follows([files EXCEPT ![plan[here].path] = plan[here].after], plan, next)
      BY <3>4, FollowsWrite
    <3> QED
      BY <3>1, <3>5 DEF plan, here, files
  <2>2. CASE Step.capability \notin WriteSteps
    BY <2>2
  <2> QED
    BY <2>1, <2>2
<1>8. DriverTyped'
  BY <1>3, <1>6 DEF DriverRight, DriverTyped
<1>9. RowsRight'
  <2>1. rows.job = "running" => Follows(tree'.files, rows.plan, rows.state.next)
    <3>1. CASE rows.plan = <<>>
      BY <1>1, <3>1, NothingWritten DEF DevAttempts
    <3>2. CASE rows.plan # <<>>
      BY <1>1, <1>7, <3>2 DEF DriverRight, RowsRight
    <3> QED
      BY <3>1, <3>2
  <2> QED
    BY <1>2, <2>1 DEF DriverRight, RowsRight
<1>10. OpenRight'
  <2>1. Follows(tree'.files, open.plan, open.state.next)
    <3>1. Here <= Here /\ Here \in Nat
      BY <1>1
    <3> QED
      BY <1>1, <1>7, <3>1
  <2>2. rows.job \in {"queued", "running"}
    BY DEF DriverRight, OpenRight
  <2> QED
    BY <1>1, <1>2, <1>4, <2>1, <2>2 DEF OpenRight
<1>11. EffectsRight'
  <2>1. Step.capability \in WriteSteps => tree'.files[Step.path] = Step.after
    <3>1. Step \in DevSteps
      BY <1>1 DEF Step
    <3>2. Step.path \in DevFiles
      BY <3>1 DEF DevSteps
    <3> QED
      BY <1>1, <3>2
  <2> QED
    BY <1>3, <1>4, <2>1 DEF EffectsRight
<1>12. AuthorityRight'
  <2>1. MayAct' <=> MayAct
    BY <1>3, <1>6 DEF MayAct, Authorized
  <2>2. /\ drive.env <= world.env
        /\ world.revoked => ~MayAct
    BY DEF DriverRight, AuthorityRight
  <2> QED
    BY <1>3, <1>6, <2>1, <2>2 DEF AuthorityRight
<1> QED
  BY <1>8, <1>9, <1>10, <1>11, <1>12 DEF DriverRight

\* An authority just looked at counts no effect after its revocation.
LEMMA NoEffectYet ==
  ASSUME DriverRight, drive.at # "idle", MayAct
  PROVE  world.effects = 0
<1>1. world.effects \in Nat
  BY DEF DriverRight, DriverTyped
<1> QED
  BY <1>1 DEF DriverRight, AuthorityRight

LEMMA WriteLandsKeeps ==
  ASSUME DriverRight, WriteLands
  PROVE  DriverRight'
<1>1. /\ drive.at = "intended" /\ Proceeds("landed", open) /\ Effect /\ UNCHANGED dev
      /\ tree' = [tree EXCEPT !.files[Step.path] = Step.after]
  BY DEF WriteLands
<1>2. Here \in DOMAIN open.plan /\ Step.capability = "patch_file" /\ world.effects = 0
  BY <1>1 DEF DriverRight, EffectsRight, AuthorityRight
<1>3. tree \in Trees /\ tree.files \in [DevFiles -> Nat] /\ Step \in DevSteps
  BY <1>1, <1>2, OpenIs DEF Step
<1>4. Step.after \in Nat /\ Step.path \in DevFiles
  BY <1>3 DEF DevSteps
<1> DEFINE files == [tree.files EXCEPT ![Step.path] = Step.after]
<1>5. files \in [DevFiles -> Nat]
  BY <1>3, <1>4
<1>6. tree' = [tree EXCEPT !.files = files]
  BY <1>1
<1> HIDE DEF files
<1>7. tree' \in Trees /\ tree'.files = files
  BY <1>3, <1>5, <1>6 DEF Trees
<1> QED
  BY <1>1, <1>2, <1>7, LandsKeep DEF WriteSteps, files

LEMMA DeleteKeeps ==
  ASSUME DriverRight, DeleteLands
  PROVE  DriverRight'
<1>1. /\ drive.at = "loop" /\ Here \in DOMAIN open.plan /\ Step.capability = "delete_file"
      /\ MayAct /\ UNCHANGED dev
  BY AtIs DEF DeleteLands
<1>2. CASE Errs /\ UNCHANGED <<tree, world>>
  BY <1>1, <1>2, ErrsKeeps DEF DriverRight, DriverTyped
<1>3. CASE /\ tree' = [tree EXCEPT !.files[Step.path] = Absent]
           /\ Proceeds("landed", open) /\ Effect
  <2>1. tree \in Trees /\ tree.files \in [DevFiles -> Nat] /\ AttemptRight(open) /\ Step \in DevSteps
    BY <1>1, OpenIs DEF Step
  <2>2. Step.after = Absent /\ Step.after \in Nat /\ Step.path \in DevFiles
    BY <1>1, <2>1 DEF AttemptRight, PlanRight, Step, DevSteps
  <2> DEFINE files == [tree.files EXCEPT ![Step.path] = Step.after]
  <2>3. files \in [DevFiles -> Nat]
    BY <2>1, <2>2
  <2>4. tree' = [tree EXCEPT !.files = files]
    BY <1>3, <2>2
  <2> HIDE DEF files
  <2>5. tree' \in Trees /\ tree'.files = files
    BY <2>1, <2>3, <2>4 DEF Trees
  <2>6. world.effects = 0
    BY <1>1, NoEffectYet
  <2> QED
    BY <1>1, <1>3, <2>5, <2>6, LandsKeep DEF WriteSteps, files
<1> QED
  BY <1>2, <1>3 DEF DeleteLands

LEMMA StageKeeps ==
  ASSUME DriverRight, StageLands
  PROVE  DriverRight'
<1>1. /\ drive.at = "loop" /\ Here \in DOMAIN open.plan /\ Step.capability = "stage_scoped_changes"
      /\ MayAct /\ UNCHANGED dev /\ tree' = [tree EXCEPT !.index = tree.files]
      /\ Proceeds("landed", open) /\ Effect
  BY AtIs DEF StageLands
<1>2. tree' \in Trees /\ tree'.files = tree.files
  <2>1. tree \in Trees
    BY DEF DriverRight, DriverTyped
  <2> QED
    BY <1>1, <2>1 DEF Trees
<1>3. world.effects = 0
  BY <1>1, NoEffectYet
<1> QED
  BY <1>1, <1>2, <1>3, LandsKeep DEF WriteSteps

LEMMA CommitKeeps ==
  ASSUME DriverRight, CommitLands
  PROVE  DriverRight'
<1>1. /\ drive.at = "loop" /\ Here \in DOMAIN open.plan
      /\ Step.capability = "commit_scoped_changes" /\ MayAct /\ UNCHANGED dev
  BY AtIs DEF CommitLands
<1>2. CASE Errs /\ UNCHANGED <<tree, world>>
  BY <1>1, <1>2, ErrsKeeps DEF DriverRight, DriverTyped
<1>3. CASE /\ Verified(open) /\ Proceeds("landed", open) /\ Effect
           /\ tree' = [tree EXCEPT !.head = tree.index,
                !.commits = @ \cup {[by |-> open.n, files |-> tree.index,
                                     passed |-> open.verified[open.n]]}]
  <2> DEFINE c == [by |-> open.n, files |-> tree.index, passed |-> open.verified[open.n]]
             commits == tree.commits \cup {c}
  <2>1. tree \in Trees /\ open \in DevAttempts
    BY <1>1, OpenIs
  <2>2. c \in Commits
    BY <1>3, <2>1 DEF Commits, Verified, Trees, DevAttempts
  <2>3. tree' = [tree EXCEPT !.head = tree.index, !.commits = commits]
    BY <1>3, <2>1 DEF Trees
  <2> HIDE DEF c
  <2>4. commits \in SUBSET Commits /\ tree.index \in [DevFiles -> Nat]
    BY <2>1, <2>2 DEF Trees
  <2> HIDE DEF commits
  <2>5. tree' \in Trees /\ tree'.files = tree.files
    BY <2>1, <2>3, <2>4 DEF Trees
  <2>6. world.effects = 0
    BY <1>1, NoEffectYet
  <2> QED
    BY <1>1, <1>3, <2>5, <2>6, LandsKeep DEF WriteSteps
<1> QED
  BY <1>2, <1>3 DEF CommitLands

LEMMA IntendsKeeps ==
  ASSUME DriverRight, WriteIntended
  PROVE  DriverRight'
<1>1. /\ drive.at = "loop" /\ Here \in DOMAIN open.plan /\ Step.capability = "patch_file"
      /\ MayAct /\ UNCHANGED <<dev, world>>
  BY AtIs DEF WriteIntended
<1>2. CASE Errs /\ UNCHANGED tree
  BY <1>1, <1>2, ErrsKeeps DEF DriverRight, DriverTyped
<1>3. CASE tree' = [tree EXCEPT !.intents = @ \cup {Key}] /\ Proceeds("intended", open)
  <2>1. /\ AttemptRight(open) /\ open.job = "running" /\ open \in DevAttempts
        /\ open.state \in DevStates /\ Here \in Nat /\ Len(open.state.attempts) = Len(open.plan)
        /\ Len(open.plan) \in Nat /\ open.plan \in Seq(DevSteps)
        /\ tree \in Trees
        /\ drive \in [at : {"idle", "plan", "loop", "intended", "landed"},
                      open : DevAttempts, actions : Nat, env : Nat]
    BY <1>1, OpenIs
  <2>2. Key \in IntentKeys
    <3>1. open.n \in Nat
      BY <2>1, DriverBounds DEF DevAttempts
    <3>2. open.state.attempts \in Seq(Nat)
      BY <2>1 DEF DevStates
    <3>3. open.state.attempts[Here] \in Nat
      BY <1>1, <2>1, <3>2
    <3> QED
      BY <2>1, <3>1, <3>3 DEF Key, IntentKeys
  <2> DEFINE intents == tree.intents \cup {Key}
  <2>3. tree' = [tree EXCEPT !.intents = intents] /\ intents \in SUBSET IntentKeys
    BY <1>3, <2>1, <2>2 DEF Trees
  <2> HIDE DEF intents
  <2>4. tree' \in Trees /\ tree'.files = tree.files
    BY <2>1, <2>3 DEF Trees
  <2>5. drive' = [drive EXCEPT !.at = "intended", !.open = open] /\ UNCHANGED rows
    BY <1>3 DEF Proceeds
  <2>6. /\ drive' \in [at : {"idle", "plan", "loop", "intended", "landed"},
                       open : DevAttempts, actions : Nat, env : Nat]
        /\ drive'.at = "intended" /\ drive'.open = open /\ drive'.env = drive.env
    BY <2>1, <2>5
  <2>7. open' = open /\ Here' = Here /\ Step' = Step
    BY <2>6 DEF open, Here, Step
  <2>8. DriverTyped'
    BY <1>1, <2>4, <2>6 DEF DriverRight, DriverTyped
  <2>9. RowsRight'
    BY <2>4, <2>5 DEF DriverRight, RowsRight
  <2>10. OpenRight'
    BY <1>1, <2>4, <2>5, <2>7 DEF DriverRight, OpenRight
  <2>11. EffectsRight'
    BY <1>1, <2>6, <2>7 DEF EffectsRight
  <2>12. AuthorityRight'
    <3>1. MayAct' <=> MayAct
      BY <1>1, <2>6 DEF MayAct, Authorized
    <3>2. world.effects = 0
      BY <1>1, NoEffectYet
    <3> QED
      BY <1>1, <2>6, <3>1, <3>2 DEF DriverRight, AuthorityRight
  <2> QED
    BY <2>8, <2>9, <2>10, <2>11, <2>12 DEF DriverRight
<1> QED
  BY <1>2, <1>3 DEF WriteIntended

LEMMA ForgetsIntent ==
  ASSUME DriverRight, tree' = [tree EXCEPT !.intents = @ \ {Key}]
  PROVE  tree' \in Trees /\ tree'.files = tree.files
<1>1. tree \in Trees
  BY DEF DriverRight, DriverTyped
<1> QED
  BY <1>1 DEF Trees

LEMMA ResultsKeep ==
  ASSUME DriverRight, ReadsFile \/ RunsCheck \/ CapabilityMissing \/ WriteRecovered \/ EffectRecorded
  PROVE  DriverRight'
<1>1. tree \in Trees
  BY DEF DriverRight, DriverTyped
<1>2. CASE ReadsFile
  <2>1. /\ drive.at = "loop" /\ Here \in DOMAIN open.plan /\ Step.capability = "read_file"
        /\ Records("succeeded") /\ UNCHANGED <<dev, tree, world>>
    BY <1>2, AtIs DEF ReadsFile
  <2> QED
    BY <1>1, <2>1, RecordsKeep DEF Results, WriteSteps
<1>3. CASE RunsCheck
  <2>1. PICK result \in {"succeeded", "failed"} : Records(result)
    BY <1>3 DEF RunsCheck
  <2>2. /\ drive.at = "loop" /\ Here \in DOMAIN open.plan /\ Step.capability = "run_focused_test"
        /\ UNCHANGED <<dev, tree, world>>
    BY <1>3, AtIs DEF RunsCheck
  <2> QED
    BY <1>1, <2>1, <2>2, RecordsKeep DEF Results, WriteSteps, MayBePassedOver
<1>4. CASE CapabilityMissing
  <2>1. /\ drive.at = "loop" /\ Here \in DOMAIN open.plan /\ Step.capability = "unregistered"
        /\ Records("capability_missing") /\ UNCHANGED <<dev, tree, world>>
    BY <1>4, AtIs DEF CapabilityMissing
  <2> QED
    BY <1>1, <2>1, RecordsKeep DEF Results, WriteSteps, MayBePassedOver
<1>5. CASE WriteRecovered
  <2>1. /\ drive.at = "loop" /\ Here \in DOMAIN open.plan /\ Step.capability = "patch_file"
        /\ tree.files[Step.path] = Step.after
        /\ Records("succeeded") /\ UNCHANGED <<dev, world>>
        /\ tree' = [tree EXCEPT !.intents = @ \ {Key}]
    BY <1>5, AtIs DEF WriteRecovered
  <2> QED
    BY <2>1, ForgetsIntent, RecordsKeep DEF Results
<1>6. CASE EffectRecorded
  <2>1. /\ drive.at = "landed" /\ Records("succeeded") /\ UNCHANGED <<dev, world>>
        /\ tree' = [tree EXCEPT !.intents = @ \ {Key}]
    BY <1>6 DEF EffectRecorded
  <2>2. /\ Here \in DOMAIN open.plan
        /\ Step.capability \in WriteSteps \cup {"stage_scoped_changes", "commit_scoped_changes"}
        /\ Step.capability \in WriteSteps => tree.files[Step.path] = Step.after
    BY <2>1 DEF DriverRight, EffectsRight
  <2> QED
    BY <2>1, <2>2, ForgetsIntent, RecordsKeep DEF Results, WriteSteps
<1> QED
  BY <1>2, <1>3, <1>4, <1>5, <1>6

LEMMA EndsKeep ==
  ASSUME DriverRight, PlanEnds
  PROVE  DriverRight'
<1>1. drive.at = "loop" /\ Here > Len(open.plan) /\ UNCHANGED <<dev, tree, world>>
  BY DEF PlanEnds
<1>2. AttemptRight(open) /\ tree \in Trees
  BY <1>1, OpenIs
<1>3. CASE Parks(open)
  BY <1>1, <1>2, <1>3, ParksKeep
<1>4. CASE ~Parks(open)
  <2> DEFINE job == IF world.cancel THEN "cancelled" ELSE "completed"
             new == [open EXCEPT !.job = job]
  <2>1. ~open.state.pending /\ Verified(open) /\ Returns(new)
    BY <1>4 DEF PlanEnds, PendingAtEnd
  <2>2. job \in {"failed", "completed", "cancelled"} /\ job # "queued" /\ job # "running"
    OBVIOUS
  <2> HIDE DEF job
  <2>3. AttemptRight(new) /\ new.job = job /\ new.plan = open.plan /\ new.state = open.state
        /\ new.n = open.n /\ new.verified = open.verified
    BY <1>2, <2>2, JobOf
  <2> HIDE DEF new
  <2> QED
    BY <1>1, <1>2, <2>1, <2>2, <2>3, ReturnsKeep DEF Here, Verified
<1> QED
  BY <1>3, <1>4

\* An attempt that has not begun.
LEMMA BeginsRight ==
  ASSUME NEW n \in 1..MaxAttempts,
         NEW verified \in [1..MaxAttempts -> {"none", "passed", "failed"}]
  PROVE  AttemptRight(Attempt(n, verified))
<1> DEFINE o == Attempt(n, verified)
           s == DriverState(0)
<1>1. /\ s.next = 1 /\ s.failures = 0 /\ s.completed = <<>> /\ s.pending = FALSE
      /\ s.attempts = <<>>
  BY DEF DriverState
<1>2. s \in DevStates
  BY <1>1 DEF DevStates, DriverState
<1>3. o.plan = <<>> /\ o.state = s /\ o.job = "queued"
  BY DEF Attempt
<1>4. o \in DevAttempts
  <2> HIDE DEF s
  <2>1. s \in DevStates /\ <<>> \in Seq(DevSteps) /\ "queued" \in DevJobs
    BY <1>2 DEF DevJobs
  <2>2. o = [n |-> n, job |-> "queued", plan |-> <<>>, state |-> s, verified |-> verified]
    BY DEF Attempt, s
  <2> HIDE DEF o
  <2> QED
    BY <2>1, <2>2 DEF DevAttempts
<1> HIDE DEF o, s
<1>5. PlanRight(o)
  BY <1>1, <1>3 DEF PlanRight
<1>6. DoneRight(o) /\ CheckedRight(o)
  BY <1>1, <1>3 DEF DoneRight, CheckedRight
<1>7. FailuresRight(o)
  BY <1>1, <1>3, DriverBounds DEF FailuresRight
<1> QED
  BY <1>4, <1>5, <1>6, <1>7 DEF AttemptRight, o

LEMMA NewAttemptKeeps ==
  ASSUME DriverRight, NewAttempt
  PROVE  DriverRight'
<1> DEFINE new == Attempt(rows.n + 1, rows.verified)
<1>1. /\ drive.at = "idle" /\ rows.n < MaxAttempts /\ rows' = new
      /\ world' = [world EXCEPT !.cancel = FALSE] /\ UNCHANGED <<dev, tree, drive>>
  BY DEF NewAttempt
<1>2. rows.n \in 1..MaxAttempts
      /\ rows.verified \in [1..MaxAttempts -> {"none", "passed", "failed"}]
  BY DEF DriverRight, RowsRight, AttemptRight, DevAttempts
<1>3. AttemptRight(new) /\ new.job = "queued" /\ new.plan = <<>>
  <2>1. rows.n + 1 \in 1..MaxAttempts
    BY <1>1, <1>2, DriverBounds
  <2>2. AttemptRight(new)
    BY <1>2, <2>1, BeginsRight
  <2> QED
    BY <2>2 DEF Attempt
<1>4. /\ world' \in [env : Nat, lapsed : BOOLEAN, cancel : BOOLEAN, revoked : BOOLEAN,
                     effects : Nat, upsets : Nat]
      /\ world'.effects = world.effects /\ world'.revoked = world.revoked
  BY <1>1 DEF DriverRight, DriverTyped
<1> HIDE DEF new
<1>5. DriverTyped'
  BY <1>1, <1>4 DEF DriverRight, DriverTyped
<1>6. RowsRight'
  BY <1>1, <1>3 DEF RowsRight
<1>7. OpenRight' /\ EffectsRight' /\ AuthorityRight'
  BY <1>1, <1>4 DEF DriverRight, OpenRight, EffectsRight, AuthorityRight
<1> QED
  BY <1>5, <1>6, <1>7 DEF DriverRight

\* Whoever revokes, cancels or loses the lease, leaves nobody authority.
LEMMA UpsetsKeep ==
  ASSUME DriverRight, NewEnvelope \/ CancelJob \/ LeaseLapses
  PROVE  DriverRight'
<1> DEFINE Worlds == [env : Nat, lapsed : BOOLEAN, cancel : BOOLEAN, revoked : BOOLEAN,
                      effects : Nat, upsets : Nat]
<1>1. UNCHANGED <<dev, tree, rows, drive>>
  BY DEF NewEnvelope, CancelJob, LeaseLapses
<1>2. world \in Worlds /\ drive.env \in Nat
  BY DEF DriverRight, DriverTyped
<1>3. /\ world' \in Worlds /\ world'.effects = world.effects /\ world'.revoked = TRUE
      /\ world'.env >= world.env
      /\ world'.lapsed = TRUE \/ world'.cancel = TRUE \/ world'.env > world.env
  <2>1. CASE NewEnvelope
    <3> DEFINE env == world.env + 1
               upsets == world.upsets + 1
    <3>1. world' = [world EXCEPT !.env = env, !.upsets = upsets, !.revoked = TRUE]
      BY <1>2, <2>1 DEF NewEnvelope, DevUpset
    <3>2. env \in Nat /\ upsets \in Nat /\ env > world.env
      BY <1>2
    <3> HIDE DEF env, upsets
    <3>3. world' \in Worlds
      BY <1>2, <3>1, <3>2
    <3>4. world'.effects = world.effects /\ world'.revoked = TRUE /\ world'.env = env
      BY <1>2, <3>1
    <3> QED
      BY <1>2, <3>2, <3>3, <3>4
  <2>2. CASE CancelJob
    <3> DEFINE upsets == world.upsets + 1
    <3>1. world' = [world EXCEPT !.cancel = TRUE, !.upsets = upsets, !.revoked = TRUE]
      BY <1>2, <2>2 DEF CancelJob, DevUpset
    <3>2. upsets \in Nat
      BY <1>2
    <3> HIDE DEF upsets
    <3>3. world' \in Worlds
      BY <1>2, <3>1, <3>2
    <3>4. world'.effects = world.effects /\ world'.revoked = TRUE /\ world'.env = world.env /\ world'.cancel = TRUE
      BY <1>2, <3>1
    <3> QED
      BY <1>2, <3>2, <3>3, <3>4
  <2>3. CASE LeaseLapses
    <3> DEFINE upsets == world.upsets + 1
    <3>1. world' = [world EXCEPT !.lapsed = TRUE, !.upsets = upsets, !.revoked = TRUE]
      BY <1>2, <2>3 DEF LeaseLapses, DevUpset
    <3>2. upsets \in Nat
      BY <1>2
    <3> HIDE DEF upsets
    <3>3. world' \in Worlds
      BY <1>2, <3>1, <3>2
    <3>4. world'.effects = world.effects /\ world'.revoked = TRUE /\ world'.env = world.env /\ world'.lapsed = TRUE
      BY <1>2, <3>1
    <3> QED
      BY <1>2, <3>2, <3>3, <3>4
  <2> QED
    BY <2>1, <2>2, <2>3
<1>4. DriverTyped'
  BY <1>1, <1>3 DEF DriverRight, DriverTyped
<1>5. RowsRight'
  BY <1>1 DEF DriverRight, RowsRight
<1>6. OpenRight'
  BY <1>1 DEF DriverRight, OpenRight, open
<1>7. EffectsRight'
  BY <1>1 DEF DriverRight, EffectsRight, Here, Step, open
<1>8. AuthorityRight'
  <2>1. drive.at # "idle" => drive.env <= world'.env /\ ~MayAct'
    <3> SUFFICES ASSUME drive.at # "idle"
                 PROVE  drive.env <= world'.env /\ ~MayAct'
      OBVIOUS
    <3>1. drive.env <= world.env
      BY DEF DriverRight, AuthorityRight
    <3> QED
      BY <1>1, <1>2, <1>3, <3>1 DEF MayAct, Authorized
  <2> QED
    BY <1>1, <1>3, <2>1 DEF DriverRight, AuthorityRight
<1> QED
  BY <1>4, <1>5, <1>6, <1>7, <1>8 DEF DriverRight

LEMMA DiesKeeps ==
  ASSUME DriverRight, TickDies
  PROVE  DriverRight'
<1>1. Errs /\ UNCHANGED <<dev, tree>> /\ world' = [world EXCEPT !.upsets = @ + 1]
  BY DEF TickDies
<1>2. /\ world' \in [env : Nat, lapsed : BOOLEAN, cancel : BOOLEAN, revoked : BOOLEAN,
                     effects : Nat, upsets : Nat]
      /\ world'.effects = world.effects /\ world'.revoked = world.revoked
  <2> DEFINE upsets == world.upsets + 1
  <2>1. world' = [world EXCEPT !.upsets = upsets]
    BY <1>1
  <2>2. world \in [env : Nat, lapsed : BOOLEAN, cancel : BOOLEAN, revoked : BOOLEAN,
                     effects : Nat, upsets : Nat]
    BY DEF DriverRight, DriverTyped
  <2>3. upsets \in Nat
    BY <2>2
  <2> HIDE DEF upsets
  <2> QED
    BY <2>1, <2>2, <2>3
<1> QED
  BY <1>1, <1>2, ErrsKeeps

-----------------------------------------------------------------------------
(* The theorem                                                             *)

LEMMA DriverBegins == DriverInit => DriverRight
<1> SUFFICES ASSUME DriverInit
             PROVE  DriverRight
  OBVIOUS
<1> DEFINE verified == [a \in 1..MaxAttempts |-> "none"]
<1>1. /\ dev \in DevPlans /\ drive = NoTick /\ rows = Attempt(1, verified)
      /\ world = [env |-> 1, lapsed |-> FALSE, cancel |-> FALSE,
                  revoked |-> FALSE, effects |-> 0, upsets |-> 0]
  BY DEF DriverInit
<1>2. tree \in Trees
  <2> DEFINE base == [f \in DevFiles |->
                       IF \E i \in DOMAIN dev.steps :
                            /\ dev.steps[i].path = f
                            /\ dev.steps[i].before = 1
                       THEN 1 ELSE Absent]
  <2>1. base \in [DevFiles -> Nat]
    BY DEF Absent
  <2>2. tree = [files |-> base, index |-> base, head |-> base, intents |-> {}, commits |-> {}]
    BY DEF DriverInit
  <2> HIDE DEF base
  <2> QED
    BY <2>1, <2>2 DEF Trees
<1>3. DriverTyped
  BY <1>1, <1>2 DEF DriverTyped, NoTick
<1>4. RowsRight
  <2>1. AttemptRight(rows)
    BY <1>1, DriverBounds, BeginsRight
  <2>2. rows.job = "queued" /\ rows.plan = <<>>
    BY <1>1 DEF Attempt
  <2> QED
    BY <2>1, <2>2 DEF RowsRight
<1>5. OpenRight /\ EffectsRight /\ AuthorityRight
  BY <1>1 DEF OpenRight, EffectsRight, AuthorityRight, NoTick
<1> QED
  BY <1>3, <1>4, <1>5 DEF DriverRight

LEMMA DriverStaysRight == DriverRight /\ [DriverNext]_devVars => DriverRight'
<1> SUFFICES ASSUME DriverRight, [DriverNext]_devVars
             PROVE  DriverRight'
  OBVIOUS
<1>1. CASE TickStarts
  BY <1>1, StartsTick
<1>2. CASE DriveStep
  <2>1. CASE PlanTask
    BY <2>1, PlansKeep
  <2>2. CASE ActionBound \/ WaitProvider \/ ExternalReview \/ StopsBefore
    BY <2>2, StopsKeep
  <2>3. CASE ProviderStep
    BY <2>3, ProviderKeeps
  <2>4. CASE Evaluate
    BY <2>4, EvaluateKeeps
  <2>5. CASE ReadsFile \/ RunsCheck \/ CapabilityMissing \/ WriteRecovered \/ EffectRecorded
    BY <2>5, ResultsKeep
  <2>6. CASE WriteIntended
    BY <2>6, IntendsKeeps
  <2>7. CASE WriteLands
    BY <2>7, WriteLandsKeeps
  <2>8. CASE DeleteLands
    BY <2>8, DeleteKeeps
  <2>9. CASE StageLands
    BY <2>9, StageKeeps
  <2>10. CASE CommitLands
    BY <2>10, CommitKeeps
  <2>11. CASE PlanEnds
    BY <2>11, EndsKeep
  <2> QED
    BY <1>2, <2>1, <2>2, <2>3, <2>4, <2>5, <2>6, <2>7, <2>8, <2>9, <2>10, <2>11 DEF DriveStep
<1>3. CASE NewAttempt
  BY <1>3, NewAttemptKeeps
<1>4. CASE NewEnvelope \/ CancelJob \/ LeaseLapses
  BY <1>4, UpsetsKeep
<1>5. CASE TickDies
  BY <1>5, DiesKeeps
<1>6. CASE UNCHANGED devVars
  <2>1. UNCHANGED <<dev, tree, rows, drive, world>>
    BY <1>6 DEF devVars
  <2>2. DriverTyped' /\ RowsRight' /\ OpenRight'
    BY <2>1 DEF DriverRight, DriverTyped, RowsRight, OpenRight, open
  <2>3. EffectsRight' /\ AuthorityRight'
    BY <2>1 DEF DriverRight, EffectsRight, AuthorityRight, MayAct, Authorized, Here, Step, open
  <2> QED
    BY <2>2, <2>3 DEF DriverRight
<1> QED
  BY <1>1, <1>2, <1>3, <1>4, <1>5, <1>6 DEF DriverNext

LEMMA DriverSays ==
  ASSUME DriverRight
  PROVE  DriverInv
<1>1. /\ AttemptRight(rows) /\ rows \in DevAttempts /\ PlanRight(rows) /\ DoneRight(rows)
      /\ CheckedRight(rows) /\ FailuresRight(rows)
  BY DEF DriverRight, RowsRight, AttemptRight
<1>2. rows.plan \in Seq(DevSteps) /\ rows.state \in DevStates /\ Len(rows.plan) \in Nat
  BY <1>1 DEF DevAttempts
<1>3. rows.state.next \in Nat /\ rows.state.completed \in Seq(Entries)
  BY <1>2 DEF DevStates
<1>4. DriverTypeOK
  <2>1. rows.job \in {"queued", "running", "failed", "completed", "cancelled"}
    BY <1>1 DEF DevAttempts, DevJobs
  <2>2. rows.state.next \in 1..(Len(rows.plan) + 1)
    BY <1>1 DEF PlanRight
  <2>3. \A k \in DOMAIN rows.state.completed : rows.state.completed[k].result \in Results
    <3>1. \A k \in DOMAIN rows.state.completed : rows.state.completed[k] \in Entries
      BY <1>3
    <3> QED
      BY <3>1 DEF Entries
  <2>4. /\ tree \in Trees
        /\ drive.at \in {"idle", "plan", "loop", "intended", "landed"}
    BY DEF DriverRight, DriverTyped
  <2>5. /\ DOMAIN tree.files = DevFiles
        /\ tree.commits \in SUBSET [by : 1..MaxAttempts, files : [DevFiles -> Nat],
                                    passed : {"none", "passed", "failed"}]
    BY <2>4 DEF Trees, Commits
  <2> QED
    BY <2>1, <2>2, <2>3, <2>4, <2>5 DEF DriverTypeOK
<1>5. DiskFollowsCheckpoint
  <2> SUFFICES ASSUME rows.job = "running"
               PROVE  DiskFollowsCheckpoint
    BY DEF DiskFollowsCheckpoint
  <2>1. Follows(tree.files, rows.plan, rows.state.next)
    BY DEF DriverRight, RowsRight
  <2> QED
    BY <2>1 DEF DiskFollowsCheckpoint, Follows, WritesTo, WriteSteps, LastOf
<1>6. OneEffectAfterRevocation
  BY DEF DriverRight, AuthorityRight, OneEffectAfterRevocation
<1>7. CommitHasItsCheck
  BY DEF DriverRight, DriverTyped, Trees, Commits, CommitHasItsCheck
<1>8. CompletedDidItAll
  <2> SUFFICES ASSUME rows.job = "completed"
               PROVE  CompletedDidItAll
    BY DEF CompletedDidItAll
  <2>1. /\ rows.state.next > Len(rows.plan) /\ ~rows.state.pending
        /\ rows.verified[rows.n] = "passed"
    BY DEF DriverRight, RowsRight
  <2>2. \A i \in DOMAIN rows.plan : i \in 1..(rows.state.next - 1)
    BY <1>2, <1>3, <2>1
  <2>3. \A i \in DOMAIN rows.plan : \E k \in DOMAIN rows.state.completed :
          /\ rows.state.completed[k].step = i
          /\ \/ rows.state.completed[k].result = "succeeded"
             \/ rows.plan[i].capability \in MayBePassedOver
    BY <1>1, <2>1, <2>2 DEF DoneRight
  <2>4. \A e \in DOMAIN rows.plan, k \in DOMAIN rows.state.completed :
          (/\ rows.plan[e].capability = "verification_evaluate"
           /\ rows.state.completed[k].step < e
           /\ rows.plan[rows.state.completed[k].step].required)
            => rows.state.completed[k].result = "succeeded"
    BY <1>1, <2>2 DEF CheckedRight
  <2> QED
    BY <2>1, <2>3, <2>4 DEF CompletedDidItAll
<1>9. RetriesBounded
  BY <1>1 DEF FailuresRight, FailuresOf, RetriesBounded
<1> QED
  BY <1>4, <1>5, <1>6, <1>7, <1>8, <1>9 DEF DriverInv

\* Every state of an attempt is right: what a resumed tick finds on disk is
\* what its checkpoint wrote or writes next, one effect at most lands after a
\* revocation, no commit lacks its verification, completed work did all its
\* plan says, and no step fails without bound (DriverInv: run_driver and the
\* operator's effects, with kills, lapses, cancels and new attempts between).
THEOREM DriverHolds == DriverSpec => []DriverInv
<1>1. DriverSpec => []DriverRight
  BY DriverBegins, DriverStaysRight, PTL DEF DriverSpec
<1>2. DriverRight => DriverInv
  BY DriverSays
<1> QED
  BY <1>1, <1>2, PTL
=============================================================================
