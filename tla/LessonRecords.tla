---------------------------- MODULE LessonRecords ----------------------------
(***************************************************************************)
(* mainai_execution/lessons.py, lesson_conflicts.py,                       *)
(* lesson_guard_observations.py and lesson_from_verification.py: a lesson  *)
(* adds its regression test to the plans of tasks it applies to, what      *)
(* became of that test is observed when a task ends, lessons that          *)
(* contradict each other are disputed.                                     *)
(* A lesson's on is its component, ref its regression test, list its tags. *)
(***************************************************************************)
EXTENDS RecordRows, SequencesExt

\* Targets validate_targeted_tests_target refuses
UnsafeTargets == {"../x"}

\* record_lesson, and from a note: only a correction (old) is a lesson
RecordLesson(c, r) ==
  Plan({}, {[Row("lesson", c) EXCEPT !.state = "active", !.old = None]})
RecordCorrectionLesson(c, r) ==
  IF There(r, "note", c.old) /\ Get(r, "note", c.old).list = <<"correction">>
  THEN RecordLesson(c, r) ELSE Raise

\* find_conflict_candidate_pairs
Paired(set, x) ==
  \E y \in set : /\ y # x /\ x.state = "active" /\ y.state = "active"
                 /\ x.on = y.on
                 /\ ToSet(x.list) \cap ToSet(y.list) # {}

\* apply_lessons_to_verification_plan, from the newest
Applied(r, type, targets) ==
  LET active == {x \in r : /\ x.kind = "lesson" /\ x.state = "active"
                           /\ type \in ToSet(x.list)}
      newest == SetToSortSeq(active, LAMBDA x, y : x.tick > y.tick)
      add(done, x) ==
        IF \/ Paired(active, x) \/ x.ref \in {None} \cup UnsafeTargets
           \/ x.ref \in ToSet(targets) \/ \E y \in ToSet(done) : y.ref = x.ref
        THEN done ELSE Append(done, x)
  IN FoldLeft(add, <<>>, newest)
\* A task is planned: key, type (on) and the targets of its own (list); the
\* event of its creation names the lessons applied
PlanTask(c, r) ==
  LET applied == Applied(r, c.on, c.list)
      keys == [i \in DOMAIN applied |-> applied[i].key]
      tests == c.list \o [i \in DOMAIN applied |-> applied[i].ref]
  IN Plan({}, {[Row("planned", c) EXCEPT !.state = "ready", !.list = tests],
               [Row("plan_event", Call("", c.key, c.key, None, "created"))
                  EXCEPT !.list = keys]})

\* _tasks_that_applied_lesson
ToldTasks(r, lesson) ==
  {x.on : x \in {y \in r : /\ y.kind = "plan_event"
                           /\ lesson \in ToSet(y.list)}}
\* resolve_conflicts_among, mark_conflict: lessons on and ref were judged to
\* contradict each other
MarkConflict(c, r) ==
  LET two == Find(r, "lesson", c.on) \cup Find(r, "lesson", c.ref) IN
  IF ~\E x \in two : Paired(two, x) THEN Keep
  ELSE Plan(two, {[x EXCEPT !.state = "disputed"] : x \in two}
                 \cup UNION {{Event("lesson_event", x.key, task,
                                     "lesson_conflict_detected", None, None)
                              : task \in ToldTasks(r, x.key)} : x \in two})

-----------------------------------------------------------------------------
(* The end of a task: on is the task, key the job, list the targets that   *)
(* passed, to what the others came to, num = 1 when no attempt is left     *)

\* classify_guard_outcome
GuardOutcome(c, ran, among, x) ==
  CASE x.state # "active" \/ Paired(among, x) -> "guard_not_exercised"
    [] OTHER ->
         IF x.ref \notin ran THEN "guard_not_exercised"
         ELSE IF x.ref \in ToSet(c.list)
         THEN IF ToSet(c.list) = ran THEN "guard_held"
              ELSE "guard_held_task_failed_elsewhere"
         ELSE IF c.to = "timeout" THEN "guard_not_exercised"
         ELSE IF c.to = "unusable" THEN "guard_unusable"
         ELSE "guard_failed"

\* record_lesson_guard_observations_from_finalize: ON CONFLICT DO NOTHING
GuardRows(c, r, ran) ==
  LET applied == ToSet(Get(r, "plan_event", c.on).list)
      among == {x \in r : x.kind = "lesson" /\ x.key \in applied}
      ref(x) == c.key \o ":" \o x.key
  IN {[Row("guard", Call("", ref(x), x.key, x.ref,
                         GuardOutcome(c, ran, among, x)))
         EXCEPT !.old = c.on, !.list = c.list]
      : x \in {y \in among : ~There(r, "guard", ref(y))}}

\* maybe_record_lesson_from_exhausted_verification: one lesson for a job
ExhaustedLesson(c, r) ==
  LET key == "exhausted:" \o c.key
      task == Get(r, "planned", c.on)
  IN IF There(r, "lesson", key) THEN {}
     ELSE {[Row("lesson", Call("", key, "verification", None, "active"))
              EXCEPT !.list = <<task.on, "verification">>]}

\* _finalize_task_outcome; the verification runs every target of the plan
\* (verify_task)
FinalizeLessons(c, r) ==
  LET task == Get(r, "planned", c.on)
      ran == ToSet(task.list)
      passed == ran \subseteq ToSet(c.list)
      end == IF passed THEN "completed"
             ELSE IF c.num = 1 THEN "failed" ELSE "retryable_failed"
  IN IF ~There(r, "planned", c.on) THEN Raise
     ELSE Plan({task},
               {[task EXCEPT !.state = end]}
               \cup GuardRows(c, r, ran)
               \cup (IF end = "failed" THEN ExhaustedLesson(c, r) ELSE {}))

-----------------------------------------------------------------------------

\* The rows each row refers to: the columns of its table
LessonRow(r, x) ==
  /\ x.state \in {"active", "disputed"} \/ x.on = "lesson"
  /\ x.state = "disputed" =>
       \E y \in r : /\ y.kind = "lesson" /\ y.key # x.key
                    /\ y.state = "disputed" /\ y.on = x.on
GuardRow(r, x) ==
  There(r, "lesson", x.on) /\ There(r, "plan_event", x.old)
LessonRowsRefer(r) ==
  \A x \in r : CASE x.kind = "lesson" -> LessonRow(r, x)
                  [] x.kind = "guard" -> GuardRow(r, x)
                  [] OTHER -> TRUE

\* A completion locks the task; the others read without a lock
LessonLocks(c) == IF c.op = "finalize_lessons" THEN <<c.on>> ELSE <<>>
LessonPlan(c, r) ==
  CASE c.op = "record_lesson" -> RecordLesson(c, r)
    [] c.op = "correction_lesson" -> RecordCorrectionLesson(c, r)
    [] c.op = "plan_lessons" -> PlanTask(c, r)
    [] c.op = "mark_conflict" -> MarkConflict(c, r)
    [] c.op = "finalize_lessons" -> FinalizeLessons(c, r)
LessonOps ==
  {"record_lesson", "correction_lesson", "plan_lessons", "mark_conflict",
   "finalize_lessons"}
=============================================================================
