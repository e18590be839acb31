-------------------------- MODULE MCFounderRecords --------------------------
(***************************************************************************)
(* Stories of threads, contexts, intents, concepts, candidates, notes,     *)
(* claims and signals, and all the stories of the record-keeping services  *)
(* together.                                                               *)
(***************************************************************************)
EXTENDS FounderRecords, MCLearningRecords

Object(k, cites) == List(Call("relink", k, None, None, None), cites)
AddTo(k, t, o) == Call("add_member", k, t, o, None)
Drop(t, o) == Call("deactivate_member", None, t, o, None)
Merge(k, t, u) == Call("merge", k, t, u, "merged_into")
Two == <<
  Object("o2", <<>>), Object("o1", <<"o2">>),
  Call("create_thread", "t1", None, "first", None),
  Call("create_thread", "t2", None, "second", None),
  AddTo("m1", "t1", "o1"), AddTo("m2", "t2", "o1")>>
Threads == {
  [before |-> Two,
   calls |-> {Merge("g1", "t1", "t2"), Drop("t2", "o1"), Drop("t1", "o1"),
              AddTo("m3", "t1", "o2")}],
  [before |-> Two,
   calls |-> {Merge("g1", "t1", "t2"), Merge("g2", "t2", "t1"),
              Call("add_relation", "g3", "t1", "t2", "merged_into"),
              Call("move_thread", None, "t1", None, "active")}],
  [before |-> Two,
   calls |-> {List(Call("branch", "t3", "t1", "third", None), <<"o1">>),
              Call("create_thread", "t3", None, "third", None),
              Call("label_thread", None, "t3", "renamed", None),
              AddTo("m3", "t3", "o1")}],
  [before |-> Append(Two, Drop("t1", "o1")),
   calls |-> {Num(Call("expand", None, "t1", "o1", None), 2),
              Object("o2", <<"o1">>), AddTo("m1", "t1", "o1"),
              Drop("t1", "o2")}]}

SetTo(o, action) == Call("context_state", None, "c1", o, action)
Refresh == Num(Call("refresh_context", None, "c1", None, None), 2)
Context == <<
  Object("o3", <<>>), Object("o2", <<>>), Object("o1", <<"o2", "o3">>),
  Call("create_context", "c1", "o1", None, None), Refresh,
  Object("o1", <<"o3">>)>>
Contexts == {
  [before |-> Context,
   calls |-> {Refresh, SetTo("o2", "suppressed"), SetTo("o3", "pinned"),
              Object("o1", <<"o2">>)}],
  [before |-> Append(Context, SetTo("o2", "suppressed")),
   calls |-> {Refresh, SetTo("o2", "unsuppressed"), Object("o1", <<"o2">>),
              Call("create_context", "c1", "o1", None, None)}]}

Intent(k, t, state) == Call("create_intent", k, None, t, state)
Move(k, to) == Call("transition_intent", None, k, None, to)
Need(k, i, j) == Call("add_dependency", k, i, j, "requires")
Block(k, i) == Call("add_blocker", k, i, None, "active")
Unblock(k, to) == Call("resolve_blocker", None, k, None, to)
Some == <<Intent("i1", None, "active"), Intent("i2", None, "active"),
          Intent("i3", None, "future"), Need("d1", "i1", "i2")>>
Intents == {
  [before |-> Some,
   calls |-> {Need("d2", "i2", "i3"), Need("d3", "i2", "i1"),
              Move("i3", "active"), Block("b1", "i2")}],
  [before |-> Append(Some, Block("b1", "i2")),
   calls |-> {Unblock("b1", "resolved"), Unblock("b1", "invalidated"),
              Block("b1", "i2"), Move("i2", "completed")}],
  [before |-> <<Call("create_thread", "t1", None, "first", None)>>,
   calls |-> {Intent("i1", "t1", "unknown"), Intent("i2", "t9", "active"),
              Move("i1", "active"), Move("i1", "blocked")}]}

MemoryStories == Threads \cup Contexts \cup Intents

-----------------------------------------------------------------------------
Propose(k) == Call("record_proposal", k, "o1", "idea", "idea")
Concept(op, k, p, title) == Call(op, k, p, title, "idea")
Proposed == <<Object("o1", <<>>), Propose("p1"), Propose("p2")>>
Known1 == Append(Proposed, Concept("promote", "e1", "p1", "ship"))
Authorize(k) == Call("authorize_work", k, "work:e1", None, None)
Concepts == {
  [before |-> Proposed,
   calls |-> {Concept("promote", "e1", "p1", "Ship"),
              Concept("reconcile", "e2", "p2", "ship"),
              Concept("promote", "e3", "p1", "plan"),
              Call("dismiss_proposal", None, "p2", None, None)}],
  [before |-> Known1,
   calls |-> {Concept("reconcile", "e2", "p2", "ship fast"),
              Call("attach_alias", None, "e1", "Ship", None),
              Call("attach_alias", None, "e1", "ship fast", None),
              Call("relate", None, "e2", "e1", "depends_on")}],
  [before |-> Known1,
   calls |-> {With(Concept("promote", "e2", "p2", "plan"), "e1"),
              Call("mark_superseded", None, "e1", "e2", None),
              Call("record_work", "w1", "e1", "plan", None),
              Call("supersede_work", None, "w1", None, None)}],
  [before |-> Known1,
   calls |-> {Authorize("g1"), Authorize("g2"),
              Call("dismiss_work", None, "work:e1", None, None),
              Call("claim", "k1", "work:e1", "work", "planned")}],
  [before |-> Append(Known1,
                     Call("claim", "k1", "work:e1", "work", "planned")),
   calls |-> {Authorize("g1"), Call("verify_claim", None, "k1", None, None),
              Call("put_external", "x1", "lesson", "ship", "verified"),
              Call("claim", "k2", "x1", "lesson", "verified")}]}

Note(k, text) == Call("add_note", k, None, text, "decision")
Correction(k, n, text) == With(Call("correct_note", k, None, text, "goal"), n)
Link(n, drop) == List(Call("link_note", None, n, None, None), drop)
Notes == {
  [before |-> Known1,
   calls |-> {Note("n1", "ship"), Note("n2", "Ship"),
              Call("put_external", "t1", "task", "ship", "running")}],
  [before |-> Known1 \o <<Note("n1", "ship"),
                          Call("record_work", "w1", "e1", "ship", None)>>,
   calls |-> {Link("n1", <<"w1">>), Note("n2", "ship"),
              Call("dismiss_work", None, "memory:n1", None, None)}],
  [before |-> Append(Known1, Note("n1", "plan")),
   calls |-> {Correction("n2", "n1", "ship"), Correction("n3", "n1", "Ship"),
              Call("dispute_note", None, "n1", None, None)}],
  [before |-> <<Object("o1", <<>>)>>,
   calls |-> {Call("record_signal", "s1", "o1", "ship", None), Propose("p1"),
              Call("promote_signal", "n1", "s1", "ship", "preference"),
              Call("promote_signal", "n2", "s1", "ship", "preference"),
              Call("resolve_signal", None, "s1", "plan", None),
              Call("dismiss_signal", None, "s1", None, None)}]}

Diagnose(k, old) ==
  With(Call("record_diagnosis", k, "o1", None, "hypothesis"), old)
Capability(op, to, evidence) == Call(op, "q1", None, evidence, to)
Others == {
  [before |-> <<Object("o1", <<>>)>>,
   calls |-> {Diagnose("h1", None), Diagnose("h2", "h1"),
              Call("prove", None, "h1", "o1", None),
              Call("prove", None, "h1", None, None),
              Call("rule_out", None, "h1", None, None)}],
  [before |-> <<>>,
   calls |-> {Capability("observe_capability", "available", None),
              Capability("observe_capability", "verified", "run1"),
              Capability("capability_gap", "degraded", None)}],
  [before |-> <<Object("o1", <<>>)>>,
   calls |-> {Call("record_execution", "x1", "o1", None, "done"),
              Call("record_evidence", "v1", "x1", None, "measured"),
              Call("record_interpretation", "i1", "x1", "v1", "works"),
              Call("record_idea", "d1", "i1", None, "open")}],
  [before |-> <<Object("o1", <<>>),
                Call("record_idea", "d1", "o1", None, "open"),
                Call("record_idea", "d2", "o1", None, "open")>>,
   calls |-> {Call("link_ideas", "extends", "d1", "d2", None),
              With(Call("link_ideas", "extends", "d1", "d2", None), "o1"),
              Call("link_ideas", "extends", "d2", "d3", None)}]}

Lesson(k, component, test) ==
  List(Call("record_lesson", k, component, test, None), <<"audit">>)
ATask(k) == List(Call("plan_lessons", k, "audit", None, None), <<"x0">>)
\* A job of the task ends: these targets passed, the others came to that
End(job, passed, rest) ==
  Num(List(Call("finalize_lessons", job, "t1", None, rest), passed), 1)
Both == Call("mark_conflict", None, "l1", "l2", None)
Lessons == {
  [before |-> <<Lesson("l1", "c1", "x1")>>,
   calls |-> {Lesson("l2", "c1", "x2"), ATask("t1"), Both,
              End("j1", <<"x0", "x1">>, "failed")}],
  [before |-> <<Lesson("l1", "c1", "x1"), ATask("t1"),
                Lesson("l2", "c1", "x2")>>,
   calls |-> {Both, End("j1", <<"x0", "x1">>, "failed"),
              End("j2", <<"x0">>, "failed"), ATask("t2")}],
  [before |-> <<Lesson("l1", "c1", "x1"), Lesson("l2", "c2", "x2"),
                ATask("t1"), Lesson("l3", "c3", "../x")>>,
   calls |-> {End("j1", <<"x0", "x1">>, "unusable"),
              End("j1", <<"x0", "x1">>, "timeout"), ATask("t2")}],
  [before |-> <<Call("add_note", "n1", None, "plan", "correction"),
                Call("add_note", "n2", None, "plan", "goal")>>,
   calls |-> {With(Lesson("l1", "c1", "x1"), "n1"),
              [With(Lesson("l2", "c2", "x2"), "n1")
                 EXCEPT !.op = "correction_lesson"],
              [With(Lesson("l3", "c3", "x3"), "n2")
                 EXCEPT !.op = "correction_lesson"]}]}

ProjectNote(k) == Call("add_project_note", k, None, "blocker", None)
Status(k, to) == Call("ingest_github_status", k, "pr8", None, to)
Commit(k, sha) == With(Call("ingest_git_commit", k, None, None, None), sha)
ProjectMemory == {
  [before |-> <<ProjectNote("n1"), Status("b1", "open"), Commit("c1", "sha1")>>,
   calls |-> {Call("resolve_note", None, "n1", None, "resolved"),
              Call("classify_note", None, "n1", None, "blocking"),
              Call("create_checkpoint", "k1", None, None, None),
              ProjectNote("n2")}],
  [before |-> <<Status("b1", "open")>>,
   calls |-> {Status("b2", "merged"), Status("b3", "closed"),
              Call("create_checkpoint", "k1", None, None, None),
              Call("ingest_doc", "c2", None, "plan", None),
              Call("ingest_system_map", "c3", None, "lifeai", None)}]}

WorkOrder(op, to) == Call(op, None, "w1", None, to)
Ordered == <<ProjectNote("n1"),
             Call("create_agent_task", "w1", None, "n1", None),
             WorkOrder("dispatch_task", None),
             WorkOrder("record_test_results", "green")>>
WorkOrders == {
  [before |-> Ordered,
   calls |-> {WorkOrder("review_task", "approved"), WorkOrder("dispatch_task", None),
              WorkOrder("prepare_github_pr", None),
              WorkOrder("record_test_results", "red")}],
  [before |-> Append(Ordered, WorkOrder("review_task", "rejected")),
   calls |-> {WorkOrder("review_task", "approved"),
              WorkOrder("review_task", "needs_correction"),
              WorkOrder("prepare_github_pr", None),
              WorkOrder("attempt_auto_merge", None)}]}

Register(agent, to) ==
  List(Call("register_agent", agent, None, None, to), <<"read", "test">>)
Delegate(k) ==
  With(Call("resolve_delegation", k, "q1", "a1", None), "a2")
Upon(op, type, to) == Call(op, None, "w1", type, to)
VerdictBy(op, by, to) == Num(Call(op, None, "w1", by, to), 1)
Staffed == <<Register("a1", "active"),
             Call("hire_agent", "a2", None, None, "probation"),
             Register("a3", "sandbox"),
             Call("verified_outcome", None, "a1", None, None),
             Call("submit_request", "q1", None, None, None)>>
Delegated == Append(Staffed, Delegate("w1"))
Staff == {
  [before |-> Staffed,
   calls |-> {Delegate("w1"), Delegate("w2"),
              Call("retire_agent", None, "a1", None, "retired"),
              Register("a1", "candidate")}],
  [before |-> Staffed,
   calls |-> {Call("advance_lifecycle", None, "a2", "activate", "active"),
              Call("record_improvement", None, "a2", "fine_tune", None),
              Call("disable_agent", None, "a2", None, "disabled"),
              List(Call("form_team", "t1", None, "pair", "active"),
                   <<"a1", "a2">>)}]}
Failures == {
  [before |-> Append(Delegated, Upon("record_effort", "progress", "none_proven")),
   calls |-> {Upon("mark_failure", "timeout", "unknown"),
              Upon("record_effort", "restart", None),
              Upon("retry_same_agent", None, None),
              Call("takeover", "w2", "w1", "a3", None)}],
  [before |-> Append(Delegated, Upon("mark_failure", "crash", "none_proven")),
   calls |-> {Upon("retry_same_agent", None, None),
              Call("takeover", "w2", "w1", "a3", None),
              Call("kill_switch", None, None, None, None),
              VerdictBy("mark_verification", "a2", "VERIFIED")}],
  [before |-> Delegated,
   calls |-> {Call("ingest_result", None, "w1", None, None),
              Call("cancel_assignment", None, "w1", None, None),
              VerdictBy("apply_decision", "a2", "CHECKED"),
              VerdictBy("apply_decision", "a2", "VERIFIED")}],
  [before |-> Delegated,
   calls |-> {VerdictBy("apply_decision", "a2", "REJECTED"),
              Num(VerdictBy("apply_decision", "a2", "VERIFIED"), 2),
              Call("verified_outcome", None, "a1", None, None),
              Upon("mark_failure", "crash", "effect_proven")}]}

FounderStories ==
  UNION {Concepts, Notes, Others, Lessons, ProjectMemory, WorkOrders, Staff,
         Failures}
MCStories == LearningStories \cup MemoryStories \cup FounderStories
=============================================================================
