-------------------------- MODULE MCGoalExecution --------------------------
\* Plans for TLC: an edit and its pull request, an audit that needs approval,
\* and a cycle.
EXTENDS GoalExecution

Task(k, d, n, m) == [kind |-> k, deps |-> d, needs |-> n, max |-> m]
EditThenPR == <<Task("edit", {}, FALSE, 1), Task("pr", {1}, FALSE, 1)>>
Audit == <<Task("audit", {}, TRUE, 2)>>
Loop == <<Task("audit", {2}, FALSE, 1), Task("audit", {1}, FALSE, 1)>>
MCShapes == {EditThenPR, Audit, Loop}
=============================================================================
