-------------------------- MODULE ProblemLearning ---------------------------
(***************************************************************************)
(* The operations of problem_learning/service.py: problems, the approaches *)
(* to them, the components of approaches, assumptions, decisions, outcomes *)
(* and links.  r is what the transaction reads; the row locks each one     *)
(* takes are in ProblemLocks.                                              *)
(***************************************************************************)
EXTENDS RecordRows, SequencesExt

\* _event: appended with no key, so a repeated call would repeat it
LifeEvent(problem, on, type, from, to) ==
  Event("life_event", problem, on, type, from, to)

CreateProblem(c, r) ==
  LET row == Row("problem", c) IN
  IF There(r, "problem", c.key) THEN Once(r, row, {})
  ELSE IF ~Known(r, "problem", c.old) THEN Raise
  ELSE Plan({}, {row, LifeEvent(c.key, c.key, "problem_created", None, c.to)})

\* A transition with no key: the second of two equal calls finds the status
MoveRow(c, r, kind, type) ==
  LET x == Get(r, kind, c.on) IN
  IF ~There(r, kind, c.on) THEN Raise
  ELSE IF x.state = c.to THEN Keep
  ELSE Plan({x}, {[x EXCEPT !.state = c.to],
                  LifeEvent(IF kind = "problem" THEN c.on ELSE x.on, c.on,
                            type, x.state, c.to)})

TransitionProblem(c, r) == MoveRow(c, r, "problem", "problem_status_changed")
TransitionApproach(c, r) ==
  MoveRow(c, r, "approach", "approach_status_changed")
TransitionAssumption(c, r) ==
  MoveRow(c, r, "assumption", "assumption_status_changed")

ApproachForProblem(r, approach, problem) ==
  \E a \in Find(r, "approach", approach) : a.on = problem
ComponentForProblem(r, component, problem) ==
  \E x \in Find(r, "component", component) :
    ApproachForProblem(r, x.on, problem)

RecordApproach(c, r) ==
  IF ~There(r, "problem", c.on) THEN Raise
  ELSE Once(r, Row("approach", c),
            {LifeEvent(c.on, c.key, "approach_created", None, c.to)})

RecordComponent(c, r) ==
  IF ~There(r, "approach", c.on) THEN Raise
  ELSE Once(r, Row("component", c),
            {LifeEvent(Get(r, "approach", c.on).on, c.key,
                       "component_created", None, None)})

EvaluateComponent(c, r) ==
  IF ~There(r, "component", c.on) THEN Raise
  ELSE Once(r, Row("evaluation", c), {})

RecordAssumption(c, r) ==
  IF \/ ~There(r, "problem", c.on)
     \/ c.ref # None /\ ~ComponentForProblem(r, c.ref, c.on)
  THEN Raise
  ELSE Once(r, Row("assumption", c),
            {LifeEvent(c.on, c.key, "assumption_created", None, c.to)})

ActiveDecisions(r, problem) ==
  {d \in Children(r, "decision", problem) : d.state = "active"}

\* A decision the call replaces is superseded if it is the active one
RecordDecision(c, r) ==
  LET row == Row("decision", c)
      before == Find(r, "decision", c.old)
      active == {d \in before : d.state = "active"}
  IN IF \/ ~There(r, "problem", c.on)
        \/ c.ref # None /\ ~ComponentForProblem(r, c.ref, c.on)
        \/ c.old # None /\ ~\E d \in before : d.on = c.on
     THEN Raise
     ELSE IF There(r, "decision", c.key) THEN Once(r, row, {})
     ELSE IF c.to = "active" /\ c.old = None /\ ActiveDecisions(r, c.on) # {}
     THEN Raise
     ELSE Plan(active,
               {[d EXCEPT !.state = "superseded"] : d \in active}
               \cup {row, LifeEvent(c.on, c.key, "decision_created", None,
                               None)})

RecordOutcome(c, r) ==
  IF ~There(r, "problem", c.on) \/ ~ApproachForProblem(r, c.ref, c.on)
  THEN Raise
  ELSE Once(r, Row("outcome", c),
            {LifeEvent(c.on, c.key, "outcome_recorded", None, None)})

\* The key of a link is its pair of rows
LinkProblemLesson(c, r) ==
  IF \/ ~There(r, "problem", c.on)
     \/ c.ref # None /\ ~\E o \in Find(r, "outcome", c.ref) : o.on = c.on
  THEN Raise
  ELSE Once(r, Row("problem_lesson", c),
            {LifeEvent(c.on, c.key, "lesson_linked", None, None)})

SelectComponent(c, r) ==
  IF ~There(r, "problem", c.on) \/ ~ComponentForProblem(r, c.ref, c.on)
  THEN Raise
  ELSE Once(r, Row("selection", c),
            {LifeEvent(c.on, c.key, "component_selected", None, None)})

LinkComponents(c, r) ==
  IF \/ c.on = c.ref
     \/ ~There(r, "component", c.on) \/ ~There(r, "component", c.ref)
     \/ LET problemOf(x) ==
              Get(r, "approach", Get(r, "component", x).on).on
        IN problemOf(c.on) # problemOf(c.ref)
  THEN Raise
  ELSE Once(r, Row("component_link", c), {})

\* The rows an operation locks FOR UPDATE, in order
ProblemLocks(c) ==
  CASE c.op = "create_problem" -> <<Owner>>
    [] c.op \in {"transition_problem", "transition_approach",
                 "transition_assumption", "record_approach",
                 "record_component", "record_assumption", "record_outcome",
                 "link_problem_lesson", "select_component"} -> <<c.on>>
    [] c.op = "record_decision" ->
         IF c.old = None THEN <<c.on>> ELSE <<c.on, c.old>>
    \* ORDER BY id, whichever end the call names first
    [] c.op = "link_components" -> SetToSeq({c.on, c.ref})
    [] OTHER -> <<>>

ProblemPlan(c, r) ==
  CASE c.op = "create_problem" -> CreateProblem(c, r)
    [] c.op = "transition_problem" -> TransitionProblem(c, r)
    [] c.op = "transition_approach" -> TransitionApproach(c, r)
    [] c.op = "transition_assumption" -> TransitionAssumption(c, r)
    [] c.op = "record_approach" -> RecordApproach(c, r)
    [] c.op = "record_component" -> RecordComponent(c, r)
    [] c.op = "evaluate_component" -> EvaluateComponent(c, r)
    [] c.op = "record_assumption" -> RecordAssumption(c, r)
    [] c.op = "record_decision" -> RecordDecision(c, r)
    [] c.op = "record_outcome" -> RecordOutcome(c, r)
    [] c.op = "link_problem_lesson" -> LinkProblemLesson(c, r)
    [] c.op = "select_component" -> SelectComponent(c, r)
    [] c.op = "link_components" -> LinkComponents(c, r)

-----------------------------------------------------------------------------
(* The rows each row refers to: the columns of its table *)

AssumptionRow(r, x) ==
  There(r, "problem", x.on) /\ Known(r, "component", x.ref)
DecisionRow(r, x) ==
  /\ There(r, "problem", x.on)
  /\ Known(r, "component", x.ref) /\ Known(r, "decision", x.old)
OutcomeRow(r, x) == There(r, "problem", x.on) /\ There(r, "approach", x.ref)
ProblemLessonRow(r, x) ==
  There(r, "problem", x.on) /\ Known(r, "outcome", x.ref)
SelectionRow(r, x) ==
  There(r, "problem", x.on) /\ There(r, "component", x.ref)
ComponentLinkRow(r, x) ==
  There(r, "component", x.on) /\ There(r, "component", x.ref)
\* An event's key is its problem, on the row it tells of
LifeEventRow(r, x) ==
  /\ There(r, "problem", x.key)
  /\ x.on = x.key \/ \E y \in r : y.key = x.on
ProblemRowsRefer(r) ==
  \A x \in r :
    CASE x.kind = "assumption" -> AssumptionRow(r, x)
      [] x.kind = "decision" -> DecisionRow(r, x)
      [] x.kind = "outcome" -> OutcomeRow(r, x)
      [] x.kind = "problem_lesson" -> ProblemLessonRow(r, x)
      [] x.kind = "selection" -> SelectionRow(r, x)
      [] x.kind = "component_link" -> ComponentLinkRow(r, x)
      [] x.kind = "life_event" -> LifeEventRow(r, x)
      [] OTHER -> TRUE

ProblemOps ==
  {"create_problem", "transition_problem", "transition_approach",
   "transition_assumption", "record_approach", "record_component",
   "evaluate_component", "record_assumption", "record_decision",
   "record_outcome", "link_problem_lesson", "select_component",
   "link_components"}
=============================================================================
