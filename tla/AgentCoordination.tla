------------------------- MODULE AgentCoordination -------------------------
(***************************************************************************)
(* Several coding agents on one repository: the registry and routing       *)
(* (service.py, routing.py), work assignments with dependencies and        *)
(* duplicate detection, scope leases with expiry, takeover and fencing     *)
(* (service.py), dispatch to a local process (dispatch.py, adapters.py)    *)
(* and the collection of its result (execution_control.py).                *)
(*                                                                         *)
(* A call without an await is one transaction and one action.  Collecting  *)
(* a result awaits the process: what the collector read of its assignment  *)
(* before is used after, so it is two actions.                             *)
(***************************************************************************)
EXTENDS Integers, Sequences, FiniteSets, FiniteSetsExt, SequencesExt

CONSTANTS Agents,      \* agent_key -> [read, write, limit]
          Requests,    \* the assignments that callers ask for, by name
          Asked,       \* which of them are asked for together
          Groups,      \* parallel exploration groups
          NoGroup,
          MaxLeases, MaxAttempts, MaxMoves

Modes == {"read_only", "read_write"}
Works == DOMAIN Requests
ASSUME AgentsAssumption ==
  \A a \in DOMAIN Agents :
    Agents[a] \in [read : BOOLEAN, write : BOOLEAN, limit : Nat]
ASSUME RequestsAssumption ==
  \A w \in Works :
    /\ Requests[w].mode \in Modes
    /\ Requests[w].deps \subseteq Works \ {w}
    /\ Requests[w].groups \subseteq Groups \cup {NoGroup}
    /\ Requests[w].needs \in BOOLEAN /\ Requests[w].ttl \in BOOLEAN
ASSUME AskedAssumption == Asked \subseteq SUBSET Works
ASSUME GroupsAssumption == NoGroup \notin Groups

VARIABLES
  asked,      \* the assignments asked for in this behaviour
  registry,   \* coordination_agents.status
  work,       \* agent_work_assignments and the order they were created in
  leases,     \* agent_scope_leases, oldest row first
  execs,      \* agent_dispatch_executions, oldest row first
  procs,      \* LocalCLIAdapter._processes, in memory
  evidence,   \* the intelligence_evidence row of an assignment
  clock,      \* acquisitions so far: the order of acquired_at
  moves       \* interventions of people and faults so far
agentVars ==
  <<asked, registry, work, leases, execs, procs, evidence, clock, moves>>

WorkStatuses == {"planned", "ready", "running", "waiting_dependency",
                 "waiting_review", "blocked", "ready_for_review", "reviewing",
                 "changes_requested", "verified", "completed", "failed",
                 "cancelled", "superseded"}
WorkTerminal == {"completed", "failed", "cancelled", "superseded"}
NoWork == [status |-> "none"]
NoEvidence == [attempt |-> 0, ok |-> FALSE]

AgentsInit ==
  /\ asked \in Asked
  /\ registry = [a \in DOMAIN Agents |-> "active"]
  /\ work = [w \in Works |-> NoWork]
  /\ leases = <<>>
  /\ execs = <<>>
  /\ procs = [w \in Works |-> "none"]
  /\ evidence = [w \in Works |-> NoEvidence]
  /\ clock = 0
  /\ moves = 0

Exists(w) == work[w].status # "none"
Live(w) == Exists(w) /\ work[w].status \notin WorkTerminal

-----------------------------------------------------------------------------
(* The registry, availability and routing.                                 *)

\* Statuses that occupy one of the agent's concurrent places.
Consuming == {"running", "waiting_review", "blocked", "ready_for_review",
              "reviewing", "changes_requested", "verified"}
ActiveCount(a) ==
  Cardinality({w \in Works : Exists(w) /\ work[w].agent = a
                              /\ work[w].status \in Consuming})
Available(a) ==
  /\ registry[a] = "active"
  /\ ActiveCount(a) < Agents[a].limit

\* register_agent on a known key: the founder's stop and restart.
Register(a, s) ==
  /\ moves < MaxMoves
  /\ registry[a] # s
  /\ registry' = [registry EXCEPT ![a] = s]
  /\ moves' = moves + 1
  /\ UNCHANGED <<asked, work, leases, execs, procs, evidence, clock>>

\* Paths are tuples of segments: one is within the other.
PathsConflict(a, b) == IsPrefix(a, b) \/ IsPrefix(b, a)
ScopesConflict(s, t) == \E a \in s, b \in t : PathsConflict(a, b)

Stale(l) == l.status = "active" /\ l.stale
LiveLeases == {i \in DOMAIN leases : leases[i].status = "active"
                                      /\ ~leases[i].stale}
SharesGroup(g, w) == g # NoGroup /\ work[w].group = g

\* The leases that stand in the way of a writer on these paths.
PathConflicts(scope, g, others) ==
  {i \in others : /\ leases[i].mode = "read_write"
                  /\ ~SharesGroup(g, leases[i].work)
                  /\ ScopesConflict(scope, leases[i].scope)}
TreeConflicts(tree, others) == {i \in others : leases[i].tree = tree}

\* scan_write_scope_conflict without a branch, then the filters per agent.
Eligible(w, g) ==
  LET r == Requests[w]
  IN IF r.mode = "read_write" /\ PathConflicts(r.scope, g, LiveLeases) # {}
     THEN {}
     ELSE {a \in DOMAIN Agents :
            /\ IF r.mode = "read_write" THEN Agents[a].write
               ELSE Agents[a].read
            /\ Available(a)}

-----------------------------------------------------------------------------
(* Assignments: creation, dependencies, the state machine.                 *)

Releasing == {"ready_for_review", "verified", "completed"}
DepsSatisfied(w, st) ==
  \A d \in Requests[w].deps : st[d].status \in Releasing
Refreshed(w, st) ==
  IF st[w].status \in {"planned", "waiting_dependency"}
  THEN IF DepsSatisfied(w, st) THEN "ready" ELSE "waiting_dependency"
  ELSE st[w].status

\* Ungrouped work is a duplicate of any live work with its key.
Duplicates(key, g) ==
  IF g # NoGroup THEN {} ELSE {w \in Works : Live(w) /\ Requests[w].key = key}

NewWork(a, g) ==
  [status |-> "planned", agent |-> a, group |-> g, started |-> FALSE,
   ended |-> FALSE, tree |-> "", granted |-> FALSE,
   nth |-> Cardinality({w \in Works : Exists(w)})]
Create(w, a, g) ==
  /\ w \in asked /\ ~Exists(w)
  /\ \A d \in Requests[w].deps : Exists(d)
  /\ a \in Eligible(w, g)
  /\ Duplicates(Requests[w].key, g) = {}
  /\ LET st == [work EXCEPT ![w] = NewWork(a, g)]
     IN work' = [st EXCEPT ![w].status = Refreshed(w, st)]
  /\ UNCHANGED <<asked, registry, leases, execs, procs, evidence, clock,
                 moves>>

Allowed ==
  [s \in WorkStatuses |->
    CASE s = "planned" -> {"ready", "waiting_dependency", "cancelled"}
      [] s = "waiting_dependency" -> {"ready", "blocked", "cancelled"}
      [] s = "ready" -> {"running", "blocked", "cancelled"}
      [] s = "running" -> {"waiting_review", "ready_for_review", "blocked",
                           "failed", "completed", "cancelled"}
      [] s \in {"waiting_review", "ready_for_review"} ->
           {"reviewing", "cancelled"}
      [] s = "reviewing" ->
           {"changes_requested", "verified", "completed", "cancelled"}
      [] s = "changes_requested" -> {"running", "ready", "cancelled"}
      [] s = "verified" -> {"completed", "cancelled"}
      [] s = "blocked" ->
           {"ready", "running", "waiting_dependency", "failed", "cancelled"}
      [] s = "failed" -> {"ready", "superseded"}
      [] s = "completed" -> {"superseded"}
      [] OTHER -> {}]

\* transition_status from the status the caller read, and its dependents.
\* Mutant: dependents are not refreshed.
TransitionedAlone(w, to) ==
  [work EXCEPT ![w].status = to, ![w].started = @ \/ to = "running",
               ![w].ended = @ \/ to \in WorkTerminal]
Transitioned(w, to) ==
  LET st == [work EXCEPT ![w].status = to,
                         ![w].started = @ \/ to = "running",
                         ![w].ended = @ \/ to \in WorkTerminal]
  IN [v \in Works |->
       IF Exists(v) /\ w \in Requests[v].deps
       THEN [st[v] EXCEPT !.status = Refreshed(v, st)] ELSE st[v]]
TransitionAllowed(from, to) == to \in Allowed[from]

\* What reviewers and the founder do by transition_status; only dispatch
\* starts work.
Move(w, to) ==
  /\ moves < MaxMoves
  /\ Exists(w)
  /\ to \notin {"running", "waiting_dependency"}
  /\ TransitionAllowed(work[w].status, to)
  /\ work' = Transitioned(w, to)
  /\ moves' = moves + 1
  /\ UNCHANGED <<asked, registry, leases, execs, procs, evidence, clock>>

\* The founder's approval of the task behind the assignment.
Approve(w) ==
  /\ Exists(w) /\ Requests[w].needs /\ ~work[w].granted
  /\ work' = [work EXCEPT ![w].granted = TRUE]
  /\ UNCHANGED <<asked, registry, leases, execs, procs, evidence, clock,
                 moves>>

-----------------------------------------------------------------------------
(* Scope leases.                                                           *)

OwnActive(w) ==
  {i \in DOMAIN leases : leases[i].work = w /\ leases[i].status = "active"}
NewLease(w, tree, scope) ==
  [work |-> w, holders |-> <<work[w].agent>>, tree |-> tree, scope |-> scope,
   mode |-> Requests[w].mode, status |-> "active", ttl |-> Requests[w].ttl,
   stale |-> FALSE, at |-> clock]
\* A released row is not looked at again: what it held is forgotten.
Released(l) ==
  [l EXCEPT !.status = "released", !.stale = FALSE, !.ttl = FALSE, !.at = 0,
            !.holders = <<Head(@)>>, !.scope = {}]

\* The assignment's own lease: kept when live, released when stale.
ReusableLease(w) == OwnActive(w) \cap LiveLeases # {}

Acquire(w, tree, scope) ==
  /\ work[w].status \in {"ready", "running"}   \* LEASE_REQUIRED's statuses
  /\ Len(leases) < MaxLeases
  /\ Cardinality(OwnActive(w)) <= 1      \* scalar_one_or_none raises
  /\ ~ReusableLease(w)                   \* a replay, or ScopeExpansionError
  /\ Requests[w].mode = "read_write" =>
       /\ TreeConflicts(tree, LiveLeases) = {}
       /\ PathConflicts(scope, work[w].group, LiveLeases) = {}
  /\ leases' = Append([i \in DOMAIN leases |->
                         IF i \in OwnActive(w) THEN Released(leases[i])
                         ELSE leases[i]],
                      NewLease(w, tree, scope))
  /\ work' = [work EXCEPT ![w].tree = tree]
  /\ clock' = clock + 1
  /\ UNCHANGED <<asked, registry, execs, procs, evidence, moves>>

\* A lease's expires_at passes; only a lease with a ttl has one.
Lapse(i) ==
  /\ leases[i].status = "active" /\ leases[i].ttl /\ ~leases[i].stale
  /\ leases' = [leases EXCEPT ![i].stale = TRUE]
  /\ UNCHANGED <<asked, registry, work, execs, procs, evidence, clock, moves>>

\* An agent presents the generation it was given, current or not.
Presented(l, g) == g = Len(l.holders) /\ l.status = "active"
\* Mutant: a lapsed lease is renewed.
RenewableLapsed(l, g) == Presented(l, g)
Renewable(l, g) == Presented(l, g) /\ ~Stale(l)
Renew(i, g) ==
  /\ Renewable(leases[i], g)
  /\ leases' = [leases EXCEPT ![i].ttl = TRUE, ![i].stale = FALSE]
  /\ UNCHANGED <<asked, registry, work, execs, procs, evidence, clock, moves>>

Release(i, g) ==
  /\ Presented(leases[i], g)
  /\ leases' = [leases EXCEPT ![i] = Released(@)]
  /\ UNCHANGED <<asked, registry, work, execs, procs, evidence, clock, moves>>

\* Only a stale lease is taken over, in place; its conflicts with leases
\* acquired since are not looked at.
MayTakeOver(l) == Stale(l)
TakeOver(i, a, w) ==
  /\ moves < MaxMoves
  /\ MayTakeOver(leases[i])
  /\ Exists(w)
  /\ leases' = [leases EXCEPT ![i].holders = Append(@, a), ![i].work = w,
                              ![i].ttl = Requests[w].ttl,
                              ![i].stale = FALSE, ![i].at = clock]
  /\ clock' = clock + 1
  /\ moves' = moves + 1
  /\ UNCHANGED <<asked, registry, work, execs, procs, evidence>>

\* Mutant: the leases of running work are left alone.
ExpireStaleIdle ==
  /\ \E i \in DOMAIN leases :
       Stale(leases[i]) /\ work[leases[i].work].status # "running"
  /\ leases' = [i \in DOMAIN leases |->
                  IF /\ Stale(leases[i])
                     /\ work[leases[i].work].status # "running"
                  THEN Released(leases[i]) ELSE leases[i]]
  /\ UNCHANGED <<asked, registry, work, execs, procs, evidence, clock, moves>>

\* The worker's sweep on every idle tick.
ExpireStale ==
  /\ \E i \in DOMAIN leases : Stale(leases[i])
  /\ leases' = [i \in DOMAIN leases |->
                  IF Stale(leases[i]) THEN Released(leases[i]) ELSE leases[i]]
  /\ UNCHANGED <<asked, registry, work, execs, procs, evidence, clock, moves>>

-----------------------------------------------------------------------------
(* Readiness, the choice of the next work, and dispatch.                   *)

\* is_duplicate_canonical_work returns any one row of the duplicates.
NotDuplicate(w) ==
  LET ds == Duplicates(Requests[w].key, work[w].group)
  IN ds = {} \/ w \in ds
Unobstructed(w) ==
  LET others == {i \in LiveLeases : leases[i].work # w}
  IN Requests[w].mode = "read_write" =>
       /\ work[w].tree # "" => TreeConflicts(work[w].tree, others) = {}
       /\ PathConflicts(Requests[w].scope, work[w].group, others) = {}

\* evaluate_assignment_readiness: assignable but for the lease it must hold.
Feasible(w) ==
  /\ Available(work[w].agent)
  /\ DepsSatisfied(w, work)
  /\ NotDuplicate(w)
  /\ Unobstructed(w)
  /\ Requests[w].mode = "read_write" => Cardinality(OwnActive(w)) <= 1
Assignable(w) ==
  /\ Feasible(w)
  /\ Requests[w].mode = "read_write" => OwnActive(w) # {} /\ work[w].tree # ""
  /\ Requests[w].needs => work[w].granted

\* next_feasible_assignment_for_agent: first come, first served.
NextFor(a) ==
  LET ready == {w \in Works : /\ Exists(w) /\ work[w].agent = a
                              /\ work[w].status = "ready" /\ Feasible(w)}
  IN {w \in ready : \A v \in ready : work[w].nth <= work[v].nth}

NewExec(w) ==
  [work |-> w, state |-> "running", ingest |-> "pending", seen |-> "none"]
Dispatch(w) ==
  /\ Exists(w) /\ w \in NextFor(work[w].agent) /\ Assignable(w)
  /\ Len(execs) < MaxAttempts
  /\ work' = Transitioned(w, "running")
  /\ procs' = [procs EXCEPT ![w] = "running"]
  /\ execs' = Append(execs, NewExec(w))
  /\ UNCHANGED <<asked, registry, leases, evidence, clock, moves>>

\* The adapter refuses, or the process does not start.
DispatchFails(w) ==
  /\ moves < MaxMoves
  /\ Exists(w) /\ w \in NextFor(work[w].agent) /\ Assignable(w)
  /\ work' = Transitioned(w, "blocked")
  /\ moves' = moves + 1
  /\ UNCHANGED <<asked, registry, leases, execs, procs, evidence, clock>>

-----------------------------------------------------------------------------
(* The process, the collection of its result, cancel and reconciliation.   *)

Exit(w, ok) ==
  /\ procs[w] = "running"
  /\ procs' = [procs EXCEPT ![w] = IF ok THEN "ok" ELSE "bad"]
  /\ UNCHANGED <<asked, registry, work, leases, execs, evidence, clock, moves>>

\* The process that held the adapter is killed: nothing is tracked any more.
Restart ==
  /\ moves < MaxMoves
  /\ \E w \in Works : procs[w] # "none"
  /\ procs' = [w \in Works |-> "none"]
  /\ execs' = [x \in DOMAIN execs |-> [execs[x] EXCEPT !.seen = "none"]]
  /\ moves' = moves + 1
  /\ UNCHANGED <<asked, registry, work, leases, evidence, clock>>

CollectBegin(x) ==
  /\ execs[x].seen = "none" /\ execs[x].ingest # "ingested"
  /\ execs' = [execs EXCEPT ![x].seen = work[execs[x].work].status]
  /\ UNCHANGED <<asked, registry, work, leases, procs, evidence, clock, moves>>

Collected(x, state, ingest) ==
  execs' = [execs EXCEPT ![x].seen = "none", ![x].state = state,
                         ![x].ingest = ingest]

\* A transition asked for by a collector, from the status it read before.
MayGo(x, to) ==
  to = execs[x].seen \/ TransitionAllowed(execs[x].seen, to)
GoneTo(x, to) ==
  IF to = execs[x].seen THEN work ELSE Transitioned(execs[x].work, to)

\* record_evidence: one row per assignment, the same again or a conflict.
Result(x) == [attempt |-> x, ok |-> procs[execs[x].work] = "ok"]
EvidenceFits(x) ==
  evidence[execs[x].work] \in {NoEvidence, Result(x)}
Recorded(x) ==
  IF evidence[execs[x].work] = NoEvidence THEN Result(x)
  ELSE evidence[execs[x].work]
Outcome(x) == IF procs[execs[x].work] = "ok" THEN "completed" ELSE "failed"
Exited(x) == procs[execs[x].work] \in {"ok", "bad"}

\* apply_dispatch_result: evidence and outcome in one transaction.
CollectResult(x) ==
  /\ execs[x].seen # "none" /\ Exited(x)
  /\ EvidenceFits(x) /\ MayGo(x, Outcome(x))
  /\ evidence' = [evidence EXCEPT ![execs[x].work] = Recorded(x)]
  /\ work' = GoneTo(x, Outcome(x))
  /\ Collected(x, "exited", "ingested")
  /\ UNCHANGED <<asked, registry, leases, procs, clock, moves>>

\* It raises; the caller commits the failed mark or rolls everything back.
CollectRaises(x) ==
  /\ execs[x].seen # "none" /\ Exited(x)
  /\ ~(EvidenceFits(x) /\ MayGo(x, Outcome(x)))
  /\ \/ Collected(x, execs[x].state, "failed")
     \/ Collected(x, execs[x].state, execs[x].ingest)
  /\ UNCHANGED <<asked, registry, work, leases, procs, evidence, clock, moves>>

\* No process is tracked, or it ran out of time and is killed.
CollectNothing(x) ==
  /\ execs[x].seen # "none" /\ MayGo(x, "blocked")
  /\ \/ /\ procs[execs[x].work] = "none"
        /\ Collected(x, "lost", "failed")
        /\ UNCHANGED procs
     \/ /\ procs[execs[x].work] = "running"
        /\ Collected(x, "timeout", "failed")
        /\ procs' = [procs EXCEPT ![execs[x].work] = "bad"]
  /\ work' = GoneTo(x, "blocked")
  /\ UNCHANGED <<asked, registry, leases, evidence, clock, moves>>

\* cancel_execution: the process is terminated, then the rows are marked.
Cancel(x) ==
  /\ moves < MaxMoves
  /\ LET w == execs[x].work
     IN /\ procs' = [procs EXCEPT ![w] = IF @ = "running" THEN "bad" ELSE @]
        /\ execs' = [execs EXCEPT ![x].state = "cancelled"]
        /\ work' = IF work[w].status = "running"
                   THEN Transitioned(w, "cancelled") ELSE work
  /\ moves' = moves + 1
  /\ UNCHANGED <<asked, registry, leases, evidence, clock>>

\* reconcile_execution_state never touches the assignment.
Reconcile(x) ==
  /\ execs[x].state = "running" /\ Exited(x)
  /\ execs' = [execs EXCEPT ![x].state = "exited"]
  /\ UNCHANGED <<asked, registry, work, leases, procs, evidence, clock, moves>>

-----------------------------------------------------------------------------
AgentsNext ==
  \/ \E a \in DOMAIN Agents :
       \E s \in {"active", "unavailable"} : Register(a, s)
  \/ \E w \in Works :
       \/ \E a \in DOMAIN Agents, g \in Requests[w].groups : Create(w, a, g)
       \/ \E to \in WorkStatuses : Move(w, to)
       \/ Approve(w)
       \/ \E tree \in Requests[w].trees, scope \in Requests[w].scopes :
            Acquire(w, tree, scope)
       \/ Dispatch(w)
       \/ DispatchFails(w)
       \/ \E ok \in BOOLEAN : Exit(w, ok)
  \/ \E i \in DOMAIN leases :
       \/ Lapse(i)
       \/ \E g \in 1..Len(leases[i].holders) : Renew(i, g) \/ Release(i, g)
       \/ \E a \in DOMAIN Agents, w \in Works : TakeOver(i, a, w)
  \/ ExpireStale
  \/ Restart
  \/ \E x \in DOMAIN execs :
       \/ CollectBegin(x)
       \/ CollectResult(x)
       \/ CollectRaises(x)
       \/ CollectNothing(x)
       \/ Cancel(x)
       \/ Reconcile(x)

\* The worker sweeps on every idle tick.
AgentsSpec ==
  AgentsInit /\ [][AgentsNext]_agentVars /\ WF_agentVars(ExpireStale)

-----------------------------------------------------------------------------
(* Properties.                                                             *)

\* The rows of the tables and what their columns may hold.
RegistryRows == [DOMAIN Agents -> {"active", "unavailable"}]
AssignmentRow(a) ==
  /\ a.status \in WorkStatuses \ {"planned"}
  /\ a.agent \in DOMAIN Agents
  /\ a.group \in Groups \cup {NoGroup}
LeaseRow(l) ==
  /\ Exists(l.work) /\ l.mode \in Modes
  /\ l.status \in {"active", "released"}
  /\ l.holders \in Seq(DOMAIN Agents) \ {<<>>}
  /\ l.stale => l.ttl
ExecutionRow(x) ==
  /\ Exists(x.work) /\ x.ingest \in {"pending", "ingested", "failed"}
  /\ x.state \in {"running", "exited", "lost", "timeout", "cancelled"}
  /\ x.seen \in WorkStatuses \cup {"none"}

\* Every row has the shape and the statuses its table allows, and belongs to
\* an assignment that is there.
AgentsTypeOK ==
  /\ registry \in RegistryRows
  /\ \A w \in Works : work[w] = NoWork \/ AssignmentRow(work[w])
  /\ \A i \in DOMAIN leases : LeaseRow(leases[i])
  /\ \A x \in DOMAIN execs : ExecutionRow(execs[x])
  /\ procs \in [Works -> {"none", "running", "ok", "bad"}]

Writers == {i \in LiveLeases : leases[i].mode = "read_write"}
InTheWay(i, j) ==
  \/ leases[i].tree = leases[j].tree
  \/ /\ ~SharesGroup(work[leases[i].work].group, leases[j].work)
     /\ ScopesConflict(leases[i].scope, leases[j].scope)

\* Two live write leases share a worktree, or paths outside an exploration
\* group, only when the later of them was taken over: acquire_lease never
\* grants one beside another (service.py:705-729), however leases lapse, are
\* renewed, released and acquired again.
WritersApart ==
  \A i, j \in Writers :
    InTheWay(i, j) /\ leases[i].at < leases[j].at
      => Len(leases[j].holders) > 1

\* Work that has run depends only on work that had run before it: a
\* dependent is released by what its dependencies did, through reviews,
\* failures and retries of theirs (_release_dependents).
StartedInOrder ==
  \A w \in Works :
    Exists(w) /\ work[w].started => \A d \in Requests[w].deps : work[d].started

\* No wake-up is lost: an assignment waits for its dependencies only while
\* one of them has not been released (_refresh_dependency_state is called
\* by whichever of the two changes last).
NoLostRelease ==
  \A w \in Works :
    work[w].status = "waiting_dependency" => ~DepsSatisfied(w, work)

\* Two live assignments of the same work outside every group: one of them
\* had ended and was revived (DuplicateWorkError, service.py:362-369).
OneLivePerKey ==
  \A v, w \in Works :
    /\ v # w /\ Live(v) /\ Live(w)
    /\ Requests[v].key = Requests[w].key
    /\ work[v].group = NoGroup /\ work[w].group = NoGroup
    => work[v].ended \/ work[w].ended

\* An execution marked ingested is the attempt that the evidence of its
\* assignment records (collect_and_ingest_execution_result, record_evidence).
IngestedIsRecorded ==
  \A x \in DOMAIN execs :
    execs[x].ingest = "ingested" => evidence[execs[x].work].attempt = x

\* A lapsed lease does not stay with its holder: the worker's sweep releases
\* it unless it is taken over or acquired again (expire_stale_active_leases).
StaleLeaseFreed ==
  \A i \in 1..MaxLeases :
    []<>(i \in DOMAIN leases => ~Stale(leases[i]))

\* The states of the assignments: typed, started in order, none asleep without
\* a reason, no live duplicate, and evidence of the attempt that was ingested.
AssignmentInv ==
  /\ AgentsTypeOK /\ StartedInOrder /\ NoLostRelease /\ OneLivePerKey
  /\ IngestedIsRecorded
=============================================================================
