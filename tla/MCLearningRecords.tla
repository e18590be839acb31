------------------------- MODULE MCLearningRecords --------------------------
(***************************************************************************)
(* Stories for TLC: a short history, then three or four calls that two     *)
(* sessions make in any order, one of them perhaps twice.                  *)
(***************************************************************************)
EXTENDS LearningRecords

With(c, old) == [c EXCEPT !.old = old]
Num(c, n) == [c EXCEPT !.num = n]
List(c, l) == [c EXCEPT !.list = l]

AProblem == <<
  Call("create_problem", "p1", None, None, "open"),
  Call("record_approach", "a1", "p1", None, "proposed"),
  Call("record_component", "x1", "a1", None, None)>>
Problems == {
  [before |-> AProblem,
   calls |-> {With(Call("create_problem", "p2", None, None, "open"), "p1"),
              Call("create_problem", "p1", None, None, "open"),
              Call("transition_problem", None, "p1", None, "blocked"),
              Call("transition_problem", None, "p1", None, "resolved")}],
  [before |-> Append(AProblem,
                     Call("record_decision", "d0", "p1", None, "proposed")),
   calls |-> {Call("record_decision", "d1", "p1", "x1", "active"),
              With(Call("record_decision", "d2", "p1", None, "active"), "d1"),
              With(Call("record_decision", "d3", "p1", None, "active"), "d1"),
              With(Call("record_decision", "d4", "p1", None, "active"),
                   "d0")}],
  [before |-> AProblem,
   calls |-> {Call("record_outcome", "o1", "p1", "a1", "worked"),
              Call("link_problem_lesson", "l1", "p1", "o1", "pattern"),
              Call("transition_approach", None, "a1", None, "failed"),
              Call("transition_approach", None, "a1", None, "rejected")}],
  [before |-> Append(AProblem,
                     Call("record_component", "x2", "a1", None, None)),
   calls |-> {Call("record_assumption", "s1", "p1", "x1", "untested"),
              Call("transition_assumption", None, "s1", None, "verified"),
              Call("transition_assumption", None, "s1", None, "refuted")}],
  [before |-> Append(AProblem,
                     Call("record_component", "x2", "a1", None, None)),
   calls |-> {Call("link_components", None, "x1", "x2", "combines"),
              Call("link_components", None, "x2", "x1", "combines"),
              Call("select_component", None, "p1", "x1", "core"),
              Call("evaluate_component", "e1", "x1", None,
                   "verified_useful")}]}

\* Executions of a baseline and of a challenger, and their comparison
Bound == <<
  Num(Call("create_strategy", "base", "search", None, "manual"), 1),
  Num(Call("create_strategy", "chal", "search", "base", "manual"), 2),
  Call("bind_execution", "b0", "base", "run0", None),
  Call("bind_execution", "b1", "chal", "run1", None)>>
Compared == Bound \o <<
  Call("record_obligation", "o1", "b1", None, "required"),
  Call("create_comparison", "k1", "b0", "b1", None)>>
Observe(k, to) == Call("record_observation", k, "o1", None, to)
Judge(k, to) == Call("assess_quality", k, "k1", "challenger", to)
Assessed == Compared \o <<
  Num(Call("create_candidate", "p1", "chal", "base", None), 1),
  Call("transition_candidate", "m1", "p1", None, "under_review"),
  Call("assess_comparability", "a1", "k1", None, "comparable")>>
LinkIt == Call("link_comparison", "c1", "p1", "k1", None)
Approve == Call("transition_candidate", "m2", "p1", None, "approved")
Evaluations == {
  [before |-> Bound,
   calls |-> {Call("record_trace", "t1", "b1", None, "ok"),
              Call("record_trace", "t2", "b1", None, "ok"),
              Num(Call("record_efficiency", "f1", "b1", "t1", "ms"), 5),
              Call("record_finding", "g1", "b1", "t1", "repeat")}],
  [before |-> Bound,
   calls |-> {Call("bind_execution", "b2", "chal", "run2", None),
              Call("bind_execution", "b3", "base", "run2", None),
              Call("record_stopping", "h1", "b1", None, "enough"),
              Call("record_specialist", "i1", "b1", "run0", "unique")}],
  [before |-> Append(Compared,
                     Num(Call("record_efficiency", "f0", "b0", None, "ms"),
                         9)),
   calls |-> {Num(Call("record_efficiency", "f1", "b1", None, "ms"), 5),
              With(Call("record_delta", "d1", "k1", "f0", None), "f1"),
              Call("record_learning", "r1", "k1", None, "narrowing"),
              Call("link_strategy_lesson", "l1", "chal", None, "pattern")}],
  [before |-> Compared,
   calls |-> {Call("create_experiment", "e1", "base", "chal", None),
              Call("transition_experiment", "m1", "e1", None, "ready"),
              Call("transition_experiment", "m2", "e1", None, "cancelled"),
              Call("link_comparison", "c1", "e1", "k1", None)}],
  [before |-> Append(Assessed, LinkIt),
   calls |-> {Observe("v1", "performed_failed"),
              Observe("v2", "performed_passed"),
              Judge("q1", "clean"), Approve}],
  [before |-> Append(Assessed, Observe("v2", "performed_passed")),
   calls |-> {LinkIt, Judge("q1", "clean"), Judge("q2", "regression"),
              Approve}],
  [before |-> Assessed \o <<Observe("v2", "performed_passed"),
                            Judge("q1", "clean")>>,
   calls |-> {LinkIt, Approve,
              With(Call("assess_comparability", "a2", "k1", None,
                        "not_comparable"), "a1"),
              Call("record_obligation", "o2", "b1", "run1", "required")}],
  \* the comparison is between two executions of the baseline
  [before |-> Bound \o <<
     Call("bind_execution", "b2", "base", "run2", None),
     Call("record_obligation", "o1", "b2", None, "required"),
     Call("create_comparison", "k1", "b0", "b2", None),
     Call("assess_comparability", "a1", "k1", None, "comparable"),
     Observe("v1", "performed_passed"), Judge("q1", "clean")>>,
   calls |-> {Num(Call("create_candidate", "p1", "chal", "base", None), 1),
              LinkIt, Approve,
              Call("transition_candidate", "m1", "p1", None,
                   "under_review")}]}

ACase == Bound \o <<
  Num(List(Call("create_case", "c1", "fused", None, None),
           <<"tests_pass">>), 1),
  Call("add_input", "i1", "c1", "chal", "used")>>
Parts == <<Call("add_part", "x1", "c1", "i1", "included"),
           Call("add_part", "x2", "c1", "i1", "excluded")>>
Build == Call("materialize", "m1", "c1", None, None)
ReadyMove == Call("transition_case", "r1", "c1", None, "ready")
Order(k, l) == List(Call("reorder", k, "c1", None, None), l)
Clash == Num(With(Call("record_conflict", "f1", "c1", "x1", None), "x2"), 1)
Syntheses == {
  [before |-> ACase,
   calls |-> {Parts[1], Call("add_part", "x3", "c1", "i1", "modified"),
              Call("add_input", "i2", "c1", "b0", "used"), ReadyMove}],
  [before |-> ACase \o Parts,
   calls |-> {Order("s1", <<"x2", "x1">>), Order("s2", <<"x1", "x2">>),
              Order("s3", <<"x1">>),
              Call("add_part", "x3", "c1", "i1", "modified")}],
  [before |-> ACase \o Parts,
   calls |-> {Order("s1", <<"x2", "x1">>), ReadyMove, Build, Clash}],
  [before |-> ACase \o Parts,
   calls |-> {Clash, ReadyMove,
              Call("transition_conflict", "g1", "f1", None, "resolved"),
              Call("transition_conflict", "g2", "f1", None, "invalidated")}],
  [before |-> ACase \o Parts \o <<ReadyMove>>,
   calls |-> {Build,
              Num(List(Call("create_case", "c2", "fused", "c1", None),
                       <<"tests_pass">>), 2),
              Call("transition_case", "r2", "c1", None, "invalidated"),
              Call("transition_case", "r3", "c1", None, "completed")}],
  [before |-> ACase \o Parts \o <<ReadyMove, Build,
     Call("create_experiment", "e1", "base", "c1", None)>>,
   calls |-> {Call("link_evaluation", "v1", "m1", "e1", None),
              Call("link_synthesis_lesson", "l1", "c1", "x1", "pattern"),
              Call("link_learning", "w1", "e1", "x9", "useful"),
              Call("transition_case", "r3", "c1", None, "completed")}]}

LearningStories == Problems \cup Evaluations \cup Syntheses
=============================================================================
