---------------------------- MODULE ProjectWork ----------------------------
(***************************************************************************)
(* project_memory.py: notes on the project, the sources and branch states  *)
(* taken in, and the checkpoints a new session resumes from; and           *)
(* agent_orchestration.py: work orders, dispatched to a code agent,        *)
(* tested, reviewed and proposed as a pull request.  None of it locks a    *)
(* row.                                                                    *)
(* A note's ref is its kind, list its classification.  A source's ref is   *)
(* what it is of, state its type, old the commit.  A branch state's on is  *)
(* the branch or pull request, ref its status, state "current" or "past".  *)
(* A checkpoint's ref is the commit it was taken at, list its notes.       *)
(* A work order's state is its status; an event's old is what the tests    *)
(* said, num the dispatch it is about.                                     *)
(***************************************************************************)
EXTENDS RecordRows, SequencesExt

-----------------------------------------------------------------------------
(* Project memory *)

\* on is the source it was derived from, if any
AddProjectNote(c, r) ==
  IF ~Known(r, "source", c.on) THEN Raise
  ELSE Plan({}, {[Row("project_note", c) EXCEPT !.state = "open"]})
\* to is resolved or superseded, whatever the note is
ResolveNote(c, r) ==
  LET x == Get(r, "project_note", c.on) IN
  IF ~There(r, "project_note", c.on) THEN Raise
  ELSE Plan({x}, {[x EXCEPT !.state = c.to]})
ClassifyNote(c, r) ==
  LET x == Get(r, "project_note", c.on) IN
  IF ~There(r, "project_note", c.on) THEN Raise
  ELSE Plan({x}, {[x EXCEPT !.list = <<c.to>>]})
OpenNotes(r) == {x \in r : x.kind = "project_note" /\ x.state = "open"}

\* ref is the document, old the commit that is checked out
Source(c, type) == [Row("source", c) EXCEPT !.state = type, !.on = None]
IngestDoc(c) == Plan({}, {Source(c, "doc")})
IngestGitCommit(c) == Plan({}, {[Source(c, "git_commit") EXCEPT !.ref = "HEAD"]})
IngestSystemMap(c) == Plan({}, {Source(c, "system_map")})
LatestCommit(r) ==
  LET commits == {x \in r : x.kind = "source" /\ x.state = "git_commit"} IN
  IF commits = {} THEN None ELSE Latest(commits).old

\* The states of on that are current are past from now
IngestGithubStatus(c, r) ==
  LET prior == {x \in Children(r, "pr_status", c.on) : x.state = "current"}
  IN Plan(prior,
          {[x EXCEPT !.state = "past"] : x \in prior}
          \cup {[Row("pr_status", c) EXCEPT !.ref = c.to, !.state = "current"],
                [Source(c, "github_pr") EXCEPT !.ref = c.on]})

CreateCheckpoint(c, r) ==
  Plan({}, {[Row("checkpoint", c)
               EXCEPT !.ref = LatestCommit(r),
                      !.list = SetToSeq({x.key : x \in OpenNotes(r)})]})
\* is_checkpoint_stale
IsStale(r, x) ==
  \/ x.ref # None /\ LatestCommit(r) \notin {None, x.ref}
  \/ \E y \in r : y.kind \in {"project_note", "pr_status"} /\ y.tick > x.tick

-----------------------------------------------------------------------------
(* Work orders *)

\* ref is the note it comes from, if any
CreateAgentTask(c, r) ==
  IF ~Known(r, "project_note", c.ref) THEN Raise
  ELSE Plan({}, {[Row("order", c) EXCEPT !.state = "created"]})

OrderEvents(r, order, type) ==
  {x \in Children(r, "order_event", order) : x.ref = type}
RecordOrderEvent(c, type, old, state, num) ==
  [Event("order_event", c.on, c.on, type, old, state) EXCEPT !.num = num]
\* The response of the latest dispatch, named by when it was made
LatestDispatch(r, order) ==
  LET made == OrderEvents(r, order, "dispatched") IN
  IF made = {} THEN 0 ELSE Latest(made).tick
\* What the latest tests said, None when there were none
LatestTests(r, order) ==
  LET made == OrderEvents(r, order, "test_results_recorded") IN
  IF made = {} THEN None ELSE Latest(made).old

\* The order is read, the code agent answers, the answer is recorded
DispatchTask(c, r) ==
  LET x == Get(r, "order", c.on) IN
  IF ~There(r, "order", c.on) THEN Raise
  ELSE Plan({x}, {[x EXCEPT !.state = "result_recorded"],
                  RecordOrderEvent(c, "dispatched", None, None, 0)})
\* to is green or red
RecordTestResults(c, r) ==
  IF ~There(r, "order", c.on) THEN Raise
  ELSE Plan({}, {RecordOrderEvent(c, "test_results_recorded", c.to, None, 0)})

\* The verdict the review agent answered, and the one that is recorded: no
\* approval without green tests
ReviewVerdict(said, tests) ==
  IF said = "approved" /\ tests # "green" THEN "needs_correction" ELSE said
\* The tests are read before the review agent is asked, to is what it says
ReviewTask(c, r) ==
  LET x == Get(r, "order", c.on)
      tests == LatestTests(r, c.on)
      verdict == ReviewVerdict(c.to, tests)
  IN IF ~There(r, "order", c.on) \/ tests = None THEN Raise
     ELSE Plan({x}, {[x EXCEPT !.state = "reviewed_" \o verdict],
                     RecordOrderEvent(c, "reviewed", tests, verdict,
                                      LatestDispatch(r, c.on))})

\* _require_approved_with_tests
ApprovedWithTests(r, x) ==
  x.state = "reviewed_approved" /\ LatestTests(r, x.key) = "green"
\* With writing to GitHub off, its default: the proposal is recorded
PrepareGithubPr(c, r) ==
  LET x == Get(r, "order", c.on) IN
  IF ~There(r, "order", c.on) \/ ~ApprovedWithTests(r, x) THEN Raise
  ELSE Plan({x}, {[x EXCEPT !.state = "pr_prepared"],
                  RecordOrderEvent(c, "github_pr_proposed", None, None,
                                   LatestDispatch(r, c.on))})
AttemptAutoMerge(c, r) ==
  IF ~There(r, "order", c.on) THEN Raise
  ELSE Plan({}, {RecordOrderEvent(c, "merge_blocked", None, None, 0)})

-----------------------------------------------------------------------------
(* The rows each row refers to: the columns of its table *)

ProjectNoteRow(r, x) ==
  x.state \in {"open", "resolved", "superseded"} /\ Known(r, "source", x.on)
StatusRow(r, x) == There(r, "source", x.key)
CheckpointRow(r, x) ==
  \A k \in ToSet(x.list) : There(r, "project_note", k)
OrderRow(r, x) == Known(r, "project_note", x.ref)
OrderEventRow(r, x) == There(r, "order", x.on)
WorkRowsRefer(r) ==
  \A x \in r :
    CASE x.kind = "project_note" -> ProjectNoteRow(r, x)
      [] x.kind = "pr_status" -> StatusRow(r, x)
      [] x.kind = "checkpoint" -> CheckpointRow(r, x)
      [] x.kind = "order" -> OrderRow(r, x)
      [] x.kind = "order_event" -> OrderEventRow(r, x)
      [] OTHER -> TRUE

WorkPlan(c, r) ==
  CASE c.op = "add_project_note" -> AddProjectNote(c, r)
    [] c.op = "resolve_note" -> ResolveNote(c, r)
    [] c.op = "classify_note" -> ClassifyNote(c, r)
    [] c.op = "ingest_doc" -> IngestDoc(c)
    [] c.op = "ingest_git_commit" -> IngestGitCommit(c)
    [] c.op = "ingest_system_map" -> IngestSystemMap(c)
    [] c.op = "ingest_github_status" -> IngestGithubStatus(c, r)
    [] c.op = "create_checkpoint" -> CreateCheckpoint(c, r)
    [] c.op = "create_agent_task" -> CreateAgentTask(c, r)
    [] c.op = "dispatch_task" -> DispatchTask(c, r)
    [] c.op = "record_test_results" -> RecordTestResults(c, r)
    [] c.op = "review_task" -> ReviewTask(c, r)
    [] c.op = "prepare_github_pr" -> PrepareGithubPr(c, r)
    [] c.op = "attempt_auto_merge" -> AttemptAutoMerge(c, r)
WorkLocks(c) == <<>>

\* Every call of these makes a row of its own: a repeated call is another one
FreshOps == {"add_project_note", "ingest_doc", "ingest_git_commit",
             "ingest_system_map", "ingest_github_status", "create_checkpoint",
             "create_agent_task"}
WorkOps ==
  FreshOps \cup {"resolve_note", "classify_note", "dispatch_task",
                 "record_test_results", "review_task", "prepare_github_pr",
                 "attempt_auto_merge"}
=============================================================================
