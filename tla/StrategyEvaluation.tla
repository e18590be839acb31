------------------------- MODULE StrategyEvaluation -------------------------
(***************************************************************************)
(* The operations of work_intelligence/service.py (strategies, what was    *)
(* observed of their executions, verification) and of                      *)
(* strategy_evaluation/service.py (comparisons, assessments, experiments,  *)
(* promotion candidates), with the triggers of migrations 0043 and 0044.   *)
(* Intelligence executions are external rows that calls name.              *)
(***************************************************************************)
EXTENDS RecordRows

-----------------------------------------------------------------------------
(* work_intelligence *)

\* on is the strategy key, num the version
CreateStrategy(c, r) ==
  LET earlier == Find(r, "strategy", c.ref) IN
  IF \/ c.ref # None
        /\ ~\E p \in earlier : p.on = c.on /\ p.num < c.num
  THEN Raise
  ELSE Once(r, Row("strategy", c), {})

\* what next_trace_sequence and next_component_sequence start from
FirstNumber == 1
\* next_trace_sequence of the binding is its next
BindExecution(c, r) ==
  IF ~There(r, "strategy", c.on) THEN Raise
  ELSE LET row == [Row("binding", c) EXCEPT !.next = FirstNumber]
           was == Find(r, "binding", c.key)
       IN IF was = {} THEN Plan({}, {row})
          ELSE IF \A x \in was : Alike(x, row, {"next"}) THEN Keep ELSE Raise

RecordTrace(c, r) ==
  LET b == Get(r, "binding", c.on)
      row == [Row("trace", c) EXCEPT !.num = b.next]
      was == Find(r, "trace", c.key)
  IN IF ~There(r, "binding", c.on) THEN Raise
     ELSE IF was # {}
     THEN IF \A x \in was : Alike(x, row, {"num"}) THEN Keep ELSE Raise
     ELSE Plan({b}, {[b EXCEPT !.next = @ + 1], row})

\* _record_for_execution, with the trace event the row cites, if any
RecordForExecution(c, r, kind) ==
  IF \/ ~There(r, "binding", c.on)
     \/ c.ref # None /\ ~\E t \in Find(r, "trace", c.ref) : t.on = c.on
  THEN Raise
  ELSE Once(r, Row(kind, c), {})
RecordEfficiency(c, r) == RecordForExecution(c, r, "efficiency")
RecordFinding(c, r) == RecordForExecution(c, r, "finding")
RecordStopping(c, r) == RecordForExecution(c, r, "stopping")

\* ref: the execution whose task the obligation comes from
RecordObligation(c, r) ==
  IF \/ ~There(r, "binding", c.on)
     \/ c.ref # None /\ Get(r, "binding", c.on).ref # c.ref
  THEN Raise
  ELSE Once(r, Row("obligation", c), {})

RecordObservation(c, r) ==
  IF ~There(r, "obligation", c.on) THEN Raise
  ELSE Once(r, Row("observation", c), {})

\* ref: the specialist's execution
RecordSpecialist(c, r) ==
  IF \/ ~There(r, "binding", c.on)
     \/ Get(r, "binding", c.on).ref = c.ref
  THEN Raise
  ELSE Once(r, Row("specialist", c), {})

LinkStrategyLesson(c, r) ==
  IF ~There(r, "strategy", c.on) THEN Raise
  ELSE Once(r, Row("strategy_lesson", c), {})

Required(r, binding) ==
  {o \in Children(r, "obligation", binding) : o.state = "required"}
VerificationOf(r, obligation) ==
  LET seen == Children(r, "observation", obligation.key) IN
  IF seen = {} THEN "missing" ELSE Latest(seen).state
\* verification_state
Verification(r, binding) ==
  LET states == {VerificationOf(r, o) : o \in Required(r, binding)} IN
  [failed |-> "performed_failed" \in states,
   satisfied |-> states = {"performed_passed"}]

-----------------------------------------------------------------------------
(* strategy_evaluation *)

\* on is the baseline binding, ref the challenger's
CreateComparison(c, r) ==
  IF \/ ~There(r, "binding", c.on) \/ ~There(r, "binding", c.ref)
     \/ c.on = c.ref
  THEN Raise
  ELSE Once(r, Row("comparison", c), {})

AssessComparability(c, r) ==
  IF \/ ~There(r, "comparison", c.on)
     \/ c.old # None /\ ~\E a \in Find(r, "comparability", c.old) : a.on = c.on
  THEN Raise
  ELSE Once(r, Row("comparability", c), {})

\* to: what the caller reports; the state follows from the verification
QualityState(r, binding, reported) ==
  LET v == Verification(r, binding) IN
  IF reported = "scope_violation" THEN "invalid_comparison"
  ELSE IF reported = "regression" THEN "regression_detected"
  ELSE IF v.failed THEN "quality_fail"
  ELSE IF ~v.satisfied THEN "verification_incomplete"
  ELSE "quality_pass"
AssessQuality(c, r) ==
  LET cmp == Get(r, "comparison", c.on)
      binding == IF c.ref = "baseline" THEN cmp.on ELSE cmp.ref
  IN IF ~There(r, "comparison", c.on) THEN Raise
     ELSE Once(r, [Row("quality", c) EXCEPT
                     !.state = QualityState(r, binding, c.to)], {})

RecordDelta(c, r) ==
  LET cmp == Get(r, "comparison", c.on)
      base == Get(r, "efficiency", c.ref)
      new == Get(r, "efficiency", c.old)
  IN IF \/ ~There(r, "comparison", c.on)
        \/ ~There(r, "efficiency", c.ref) \/ ~There(r, "efficiency", c.old)
        \/ base.on # cmp.on \/ new.on # cmp.ref \/ base.state # new.state
     THEN Raise
     ELSE Once(r, [Row("delta", c) EXCEPT !.num = new.num - base.num], {})

\* _record_event: one event for a key
Moved(c, x) ==
  {[x EXCEPT !.state = c.to],
   Event("eval_event", c.key, c.on, "state_changed", x.state, c.to)}

\* on is the baseline strategy, ref the challenger; a repeated call compares
\* the state too
CreateExperiment(c, r) ==
  IF ~There(r, "strategy", c.on) \/ ~There(r, "strategy", c.ref) THEN Raise
  ELSE Once(r, [Row("experiment", c) EXCEPT !.state = "draft"],
            {Event("eval_event", c.key, c.key, "created", None, "draft")})

ExperimentMoves ==
  [draft |-> {"ready", "cancelled", "invalidated"},
   ready |-> {"running", "cancelled", "invalidated"},
   running |-> {"completed", "failed", "cancelled", "invalidated"},
   completed |-> {"invalidated"}, failed |-> {"invalidated"},
   cancelled |-> {}, invalidated |-> {}]
TransitionExperiment(c, r) ==
  LET x == Get(r, "experiment", c.on) IN
  IF ~There(r, "experiment", c.on) \/ c.to \notin ExperimentMoves[x.state]
  THEN Raise
  ELSE Plan({x}, Moved(c, x))

\* on is the strategy, ref its baseline, num the minimum of comparisons
CreateCandidate(c, r) ==
  IF ~There(r, "strategy", c.on) \/ ~There(r, "strategy", c.ref) THEN Raise
  ELSE Once(r, [Row("candidate", c) EXCEPT !.state = "candidate"],
            {Event("eval_event", c.key, c.key, "created", None,
                   "candidate")})

\* The strategies a comparison compares
StrategiesOf(r, cmp) ==
  LET x == Get(r, "comparison", cmp) IN
  <<Get(r, "binding", x.on).on, Get(r, "binding", x.ref).on>>
\* on is an experiment or a candidate, ref the comparison
LinkComparison(c, r) ==
  LET experiment == Find(r, "experiment", c.on)
      candidate == Find(r, "candidate", c.on)
      expected == {<<x.on, x.ref>> : x \in experiment}
                  \cup {<<x.ref, x.on>> : x \in candidate}
  IN IF \/ ~There(r, "comparison", c.ref)
        \/ StrategiesOf(r, c.ref) \notin expected
     THEN Raise
     ELSE Once(r, Row("comparison_link", c),
               {Event("eval_event", c.key, c.on, "comparison_linked", None,
                      None)})

Assessment(r, kind, cmp, subject) ==
  LET all == {a \in Children(r, kind, cmp) : a.ref = subject} IN
  IF all = {} THEN "missing" ELSE Latest(all).state
ValidComparisons(r, candidate) ==
  {k.ref : k \in {l \in Children(r, "comparison_link", candidate) :
     Assessment(r, "comparability", l.ref, None)
       \in {"comparable", "partially_comparable"}}}
\* promotion_summary; the trigger of migration 0044 computes the same
Promotable(r, x) ==
  LET valid == ValidComparisons(r, x.key) IN
  /\ Cardinality(valid) >= (IF x.num = 0 THEN 2 ELSE x.num)
  /\ \A k \in valid :
       Assessment(r, "quality", k, "challenger") = "quality_pass"

CandidateMoves ==
  [candidate |-> {"insufficient_evidence", "under_review", "rejected",
                  "invalidated"},
   insufficient_evidence |-> {"under_review", "rejected", "invalidated"},
   under_review |-> {"approved", "rejected", "insufficient_evidence",
                     "invalidated"},
   approved |-> {"superseded", "invalidated"},
   rejected |-> {}, superseded |-> {}, invalidated |-> {}]
\* An event the key already has must be the same; the state moves again
TransitionCandidate(c, r) ==
  LET x == Get(r, "candidate", c.on)
      was == Find(r, "eval_event", c.key)
  IN IF \/ ~There(r, "candidate", c.on)
        \/ c.to \notin CandidateMoves[x.state]
        \/ c.to = "approved" /\ ~Promotable(r, x)
        \/ \E e \in was : e.on # c.on \/ e.old # x.state \/ e.state # c.to
     THEN Raise
     ELSE Plan({x}, IF was = {} THEN Moved(c, x)
                    ELSE {[x EXCEPT !.state = c.to]})

\* on is a comparison or an experiment, ref a component or an assumption
LinkLearning(c, r) ==
  IF \/ ~There(r, "comparison", c.on) /\ ~There(r, "experiment", c.on)
     \/ ~There(r, "component", c.ref) /\ ~There(r, "assumption", c.ref)
  THEN Raise
  ELSE Once(r, Row("learning_link", c), {})

RecordLearning(c, r) ==
  LET cmp == Get(r, "comparison", c.on) IN
  IF \/ ~There(r, "comparison", c.on)
     \/ c.ref # None
        /\ ~\E t \in Find(r, "trace", c.ref) : t.on \in {cmp.on, cmp.ref}
  THEN Raise
  ELSE Once(r, Row("learning", c), {})

EvaluationLocks(c) ==
  CASE c.op = "create_strategy" -> <<Owner>>
    [] c.op = "bind_execution" -> <<c.ref>>
    [] c.op \in {"record_trace", "assess_comparability", "record_learning",
                 "transition_experiment", "transition_candidate"} -> <<c.on>>
    [] OTHER -> <<>>

EvaluationPlan(c, r) ==
  CASE c.op = "create_strategy" -> CreateStrategy(c, r)
    [] c.op = "bind_execution" -> BindExecution(c, r)
    [] c.op = "record_trace" -> RecordTrace(c, r)
    [] c.op = "record_efficiency" -> RecordEfficiency(c, r)
    [] c.op = "record_finding" -> RecordFinding(c, r)
    [] c.op = "record_stopping" -> RecordStopping(c, r)
    [] c.op = "record_obligation" -> RecordObligation(c, r)
    [] c.op = "record_observation" -> RecordObservation(c, r)
    [] c.op = "record_specialist" -> RecordSpecialist(c, r)
    [] c.op = "link_strategy_lesson" -> LinkStrategyLesson(c, r)
    [] c.op = "create_comparison" -> CreateComparison(c, r)
    [] c.op = "assess_comparability" -> AssessComparability(c, r)
    [] c.op = "assess_quality" -> AssessQuality(c, r)
    [] c.op = "record_delta" -> RecordDelta(c, r)
    [] c.op = "create_experiment" -> CreateExperiment(c, r)
    [] c.op = "transition_experiment" -> TransitionExperiment(c, r)
    [] c.op = "create_candidate" -> CreateCandidate(c, r)
    [] c.op = "link_comparison" -> LinkComparison(c, r)
    [] c.op = "transition_candidate" -> TransitionCandidate(c, r)
    [] c.op = "link_learning" -> LinkLearning(c, r)
    [] c.op = "record_learning" -> RecordLearning(c, r)

-----------------------------------------------------------------------------
(* The rows each row refers to: the columns of its table *)

\* Versions of one strategy follow their predecessor
StrategyRow(r, x) ==
  x.ref = None \/ \E p \in Find(r, "strategy", x.ref) : p.num < x.num
ObservationRow(r, x) == There(r, "obligation", x.on)
StoppingRow(r, x) == There(r, "binding", x.on) /\ Known(r, "trace", x.ref)
\* The specialist's execution is not the one it contributes to
SpecialistRow(r, x) ==
  There(r, "binding", x.on) /\ Get(r, "binding", x.on).ref # x.ref
StrategyLessonRow(r, x) == There(r, "strategy", x.on)
CandidateRow(r, x) ==
  There(r, "strategy", x.on) /\ There(r, "strategy", x.ref)
\* Of an experiment or of a promotion candidate
ComparisonLinkRow(r, x) ==
  /\ There(r, "experiment", x.on) \/ There(r, "candidate", x.on)
  /\ There(r, "comparison", x.ref)
LearningLinkRow(r, x) ==
  /\ There(r, "comparison", x.on) \/ There(r, "experiment", x.on)
  /\ There(r, "component", x.ref) \/ There(r, "assumption", x.ref)
LearningRow(r, x) == There(r, "comparison", x.on) /\ Known(r, "trace", x.ref)
EvalEventRow(r, x) ==
  There(r, "experiment", x.on) \/ There(r, "candidate", x.on)
EvaluationRowsRefer(r) ==
  \A x \in r :
    CASE x.kind = "strategy" -> StrategyRow(r, x)
      [] x.kind = "observation" -> ObservationRow(r, x)
      [] x.kind = "stopping" -> StoppingRow(r, x)
      [] x.kind = "specialist" -> SpecialistRow(r, x)
      [] x.kind = "strategy_lesson" -> StrategyLessonRow(r, x)
      [] x.kind = "candidate" -> CandidateRow(r, x)
      [] x.kind = "comparison_link" -> ComparisonLinkRow(r, x)
      [] x.kind = "learning_link" -> LearningLinkRow(r, x)
      [] x.kind = "learning" -> LearningRow(r, x)
      [] x.kind = "eval_event" -> EvalEventRow(r, x)
      [] OTHER -> TRUE

EvaluationOps ==
  {"create_strategy", "bind_execution", "record_trace", "record_efficiency",
   "record_finding", "record_stopping", "record_obligation",
   "record_observation", "record_specialist", "link_strategy_lesson",
   "create_comparison", "assess_comparability", "assess_quality",
   "record_delta", "create_experiment", "transition_experiment",
   "create_candidate", "link_comparison", "transition_candidate",
   "link_learning", "record_learning"}
=============================================================================
