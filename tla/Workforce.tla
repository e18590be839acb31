----------------------------- MODULE Workforce -----------------------------
(***************************************************************************)
(* app/workforce: the agents the owner has hired, the requests that are    *)
(* delegated to them, the assignments that come of it, and what becomes of *)
(* an assignment that fails.  None of it locks a row.                      *)
(* An agent's state is its lifecycle status, list its tools, next is 1     *)
(* once it was retired.  An assignment ("staffing") names its request in   *)
(* on, its agent in ref, the one it took over from in old; list is its     *)
(* tools, num its retries, next is 1 once it was revoked.  Two of its      *)
(* columns, which other calls write, are rows of their own: what is known  *)
(* of its external effect, and its verification with the verifier in ref.  *)
(* A checkpoint's num is its sequence, state the effect.                   *)
(* Which agent ranks first is the call's; capabilities, context packages,  *)
(* paths, ceilings, expiry and cost budgets are left out.                  *)
(***************************************************************************)
EXTENDS RecordRows, SequencesExt

Agent(r, key) == Get(r, "agent", key)
Hired(r, key) == There(r, "agent", key)

-----------------------------------------------------------------------------
(* Agents *)

\* Registering again sets an agent to what the call says
RegisterAgent(c, r) ==
  LET was == Find(r, "agent", c.key) IN
  IF was = {} THEN Plan({}, {Row("agent", c)})
  ELSE Plan(was, {[x EXCEPT !.state = c.to, !.list = c.list] : x \in was})

Lifecycle == [
  candidate |-> {"sandbox", "retired", "disabled"},
  sandbox |-> {"sandbox", "probation", "candidate", "retired", "disabled"},
  probation |-> {"probation", "active", "sandbox", "retired", "disabled"},
  active |-> {"active", "disabled", "retired"},
  disabled |-> {"active", "retired", "probation"},
  retired |-> {}]
Improvements == {"improve_tools", "fine_tune"}
LifecycleEvent(agent, kind, from, to) ==
  Event("lifecycle_event", agent, agent, kind, from, to)
Transferred(x, to) ==
  [x EXCEPT !.state = to, !.next = IF to = "retired" THEN 1 ELSE @]
\* ref is the kind of change; an improvement leaves the status as it is
AdvanceLifecycle(c, r) ==
  LET x == Agent(r, c.on)
      to == IF c.op = "record_improvement" THEN x.state ELSE c.to
  IN IF \/ ~Hired(r, c.on) \/ to \notin Lifecycle[x.state]
        \/ /\ c.ref \in Improvements
           /\ x.state \notin {"active", "probation", "sandbox"}
     THEN Raise
     ELSE Plan({x}, {Transferred(x, to), LifecycleEvent(c.on, c.ref, x.state, to)})
\* disable_workforce_agent, retire_workforce_agent: whatever the status
SetAgent(c, r) ==
  LET x == Agent(r, c.on) IN
  IF ~Hired(r, c.on) THEN Raise ELSE Plan({x}, {Transferred(x, c.to)})

\* Registers a candidate without tools and takes it as far as to
HiringSteps(to) ==
  LET all == <<"candidate", "sandbox", "probation", "active">> IN
  SubSeq(all, 1, CHOOSE i \in 1..4 : all[i] = to)
HireAgent(c, r) ==
  LET p == RegisterAgent([c EXCEPT !.list = <<>>], r)
      steps == HiringSteps(c.to)
  IN Plan(p.old,
          p.new \cup {LifecycleEvent(c.key, "hired",
                                     IF i = 1 THEN None ELSE steps[i - 1],
                                     steps[i]) : i \in DOMAIN steps})

Selectable(x) ==
  x.state \notin {"retired", "disabled", "need_detected"} /\ x.next = 0
FormTeam(c, r) ==
  IF ~IsInjective(c.list) \/ \E a \in ToSet(c.list) : ~Hired(r, a) THEN Raise
  ELSE Plan({}, {Row("team", c)})

-----------------------------------------------------------------------------
(* Delegation *)

SubmitRequest(c) == Plan({}, {[Row("request", c) EXCEPT !.state = "open"]})

\* record_job_attempt, record_verified_outcome: counters of an agent, next the
\* jobs it attempted, num those that came to an end
Scored(r, agent, attempts, ends) ==
  LET was == Find(r, "rollup", agent)
      new == [Row("rollup", Call(None, agent, agent, None, None))
                EXCEPT !.next = attempts, !.num = ends]
  IN IF was = {} THEN Plan({}, {new})
     ELSE Plan(was, {[x EXCEPT !.next = @ + attempts, !.num = @ + ends]
                       : x \in was})

Staffing(key, request, agent, from, tools) ==
  [Row("staffing", Call(None, key, request, agent, "assigned"))
     EXCEPT !.old = from, !.list = tools]
Effect(key, to) == Row("effect", Call(None, key, key, None, to))
Unverified(key, verifier) ==
  Row("verification", Call(None, key, key, verifier, "UNVERIFIED"))

\* on is the request, ref the agent that ranks first, old its verifier
ResolveDelegation(c, r) ==
  LET request == Get(r, "request", c.on)
      agent == Agent(r, c.ref)
  IN IF \/ ~There(r, "request", c.on) \/ request.state # "open"
        \/ ~Hired(r, c.ref)
        \/ agent.state \notin {"active", "probation", "sandbox"}
        \/ ~Selectable(agent)
        \/ c.old = c.ref \/ ~Hired(r, c.old) \/ ~Selectable(Agent(r, c.old))
     THEN Raise
     ELSE All({Plan({request, agent},
                    {[request EXCEPT !.state = "assigned"], agent,
                     Staffing(c.key, c.on, c.ref, None, agent.list),
                     Effect(c.key, "none_known"),
                     Unverified(c.key, c.old)}),
               Scored(r, c.ref, 1, 0)})

Live(x) ==
  /\ x.next = 0
  /\ x.state \notin {"revoked", "expired", "cancelled", "superseded"}
Revoked(x, to) == [x EXCEPT !.state = to, !.next = 1]
\* The result awaits its verification
IngestResult(c, r) ==
  LET x == Get(r, "staffing", c.on)
      v == Get(r, "verification", c.on)
  IN IF ~There(r, "staffing", c.on) \/ ~Live(x) THEN Raise
     ELSE Plan({x, v}, {[x EXCEPT !.state = "awaiting_verification"],
                        [v EXCEPT !.state = "UNVERIFIED"]})
CancelAssignment(c, r) ==
  LET x == Get(r, "staffing", c.on) IN
  IF ~There(r, "staffing", c.on) THEN Raise
  ELSE Plan({x}, {Revoked(x, "revoked")})
\* activate_kill_switch: every assignment that is not at an end
KillSwitch(r) ==
  LET live == {x \in r : /\ x.kind = "staffing"
                         /\ x.state \in {"assigned", "running",
                                         "awaiting_verification"}}
  IN Plan(live, {Revoked(x, "revoked") : x \in live})

\* What a verdict makes of the assignment
Concluded(x, to) ==
  [x EXCEPT !.state = CASE to = "VERIFIED" -> "completed"
                        [] to = "REJECTED" -> "failed"
                        [] to = "SUPERSEDED" -> "superseded"
                        [] OTHER -> @]
\* ref verifies; only a finding of VERIFIED asks who it is
MayVerify(c, x, v) == c.to = "VERIFIED" => c.ref \notin {x.ref, None} /\ c.ref = v.ref
MarkVerification(c, r) ==
  LET x == Get(r, "staffing", c.on)
      v == Get(r, "verification", c.on)
  IN IF ~There(r, "staffing", c.on) \/ ~MayVerify(c, x, v) THEN Raise
     ELSE Plan({x, v}, {Concluded(x, c.to), [v EXCEPT !.state = c.to]})
\* policy_for_risk: the evidence that num, the risk from low to high, asks for
PolicyForRisk == <<{}, {"tests"}, {"tests", "second", "validator", "founder"}>>
ApplyDecision(c, r) ==
  LET p == MarkVerification(c, r)
      checked == {[x EXCEPT !.state = IF x.kind = "staffing"
                                      THEN "awaiting_verification" ELSE @]
                    : x \in p.new}
  IN IF ~p.ok \/ (c.to = "VERIFIED" /\ ~PolicyForRisk[c.num] \subseteq ToSet(c.list))
     THEN Raise
     ELSE Plan(p.old, (IF c.to = "CHECKED" THEN checked ELSE p.new)
                      \cup {Event("verdict_event", c.on, c.on, c.ref, None, c.to)})

-----------------------------------------------------------------------------
(* Failure, retry and takeover *)

SafeToRetry == {"none_known", "none_proven"}
Efforts(r, key) == Children(r, "effort", key)
NextSequence(r, key) ==
  Max({0} \cup {x.num : x \in Efforts(r, key)}) + 1
Effort(key, type, num, effect) ==
  [Event("effort", key, key, type, None, effect) EXCEPT !.num = num]
\* record_checkpoint: the checkpoint, and what it says of the effect
Checkpointed(r, x, type, effect) ==
  LET e == Get(r, "effect", x.key) IN
  Plan({x, e}, {x, [e EXCEPT !.state = effect],
                Effort(x.key, type, NextSequence(r, x.key), effect)})

\* ref is the kind of checkpoint, to the effect; a restart keeps what is known
RecordCheckpoint(c, r) ==
  LET x == Get(r, "staffing", c.on)
      to == IF c.ref = "restart" THEN Get(r, "effect", c.on).state ELSE c.to
  IN IF ~There(r, "staffing", c.on) THEN Raise
     ELSE Checkpointed(r, x, c.ref, to)
MarkFailure(c, r) ==
  LET x == Get(r, "staffing", c.on)
      p == Checkpointed(r, x, c.ref, c.to)
  IN IF ~There(r, "staffing", c.on) THEN Raise
     ELSE Plan(p.old, (p.new \ {x}) \cup {[x EXCEPT !.state = "failed"]})

\* can_safely_retry
CanRetry(r, key) == Get(r, "effect", key).state \in SafeToRetry
RetrySameAgent(c, r) ==
  LET x == Get(r, "staffing", c.on)
      p == Checkpointed(r, x, "resume", "none_proven")
  IN IF ~There(r, "staffing", c.on) \/ ~CanRetry(r, c.on) \/ ~Live(x) THEN Raise
     ELSE Plan(p.old, (p.new \ {x})
                      \cup {[x EXCEPT !.state = "assigned", !.num = @ + 1]})

\* ref is the other agent: it gets the tools it shares with the first, whose
\* assignment is over whatever it was
Takeover(c, r) ==
  LET x == Get(r, "staffing", c.on)
      v == Get(r, "verification", c.on)
      request == Get(r, "request", x.on)
      agent == Agent(r, c.ref)
      tools == SetToSeq(ToSet(x.list) \cap ToSet(agent.list))
  IN IF \/ ~There(r, "staffing", c.on) \/ ~CanRetry(r, c.on)
        \/ ~Hired(r, c.ref) \/ ~Selectable(agent)
        \/ c.ref \in {x.ref, v.ref}
     THEN Raise
     ELSE All({Plan({x, v, request, agent},
                    {Revoked(x, "superseded"),
                     [v EXCEPT !.state = "SUPERSEDED"],
                     [request EXCEPT !.state = "assigned"], agent,
                     Staffing(c.key, x.on, c.ref, x.key, tools),
                     Effect(c.key, "none_proven"),
                     Unverified(c.key, v.ref),
                     Effort(c.key, "takeover", 1, "none_proven")}),
               Scored(r, c.ref, 1, 0)})

-----------------------------------------------------------------------------
(* The rows each row refers to: the columns of its table *)

StaffingRow(r, x) ==
  /\ There(r, "request", x.on) /\ Hired(r, x.ref) /\ Known(r, "staffing", x.old)
  /\ There(r, "effect", x.key) /\ There(r, "verification", x.key)
  /\ x.next \in 0..1 /\ x.num \in Nat
EffectStates == SafeToRetry \cup {"unknown", "effect_proven"}
VerificationRow(r, x) ==
  /\ Hired(r, x.ref)
  /\ x.state \in {"UNVERIFIED", "CHECKED", "VERIFIED", "REJECTED", "SUPERSEDED"}
EffortRow(r, x) ==
  There(r, "staffing", x.on) /\ x.num > 0 /\ x.state \in EffectStates
StaffRowsRefer(r) ==
  \A x \in r :
    CASE x.kind = "agent" -> x.state \in DOMAIN Lifecycle
      [] x.kind = "request" -> x.state \in {"open", "assigned"}
      [] x.kind = "staffing" -> StaffingRow(r, x)
      [] x.kind = "effect" -> x.state \in EffectStates
      [] x.kind = "verification" -> VerificationRow(r, x)
      [] x.kind = "effort" -> EffortRow(r, x)
      [] x.kind = "rollup" -> Hired(r, x.on)
      [] x.kind = "lifecycle_event" -> Hired(r, x.on)
      [] x.kind = "verdict_event" -> There(r, "staffing", x.on)
      [] x.kind = "team" -> \A a \in ToSet(x.list) : Hired(r, a)
      [] OTHER -> TRUE

StaffPlan(c, r) ==
  CASE c.op = "register_agent" -> RegisterAgent(c, r)
    [] c.op = "hire_agent" -> HireAgent(c, r)
    [] c.op \in {"advance_lifecycle", "record_improvement"} ->
         AdvanceLifecycle(c, r)
    [] c.op \in {"disable_agent", "retire_agent"} -> SetAgent(c, r)
    [] c.op = "form_team" -> FormTeam(c, r)
    [] c.op = "submit_request" -> SubmitRequest(c)
    [] c.op = "resolve_delegation" -> ResolveDelegation(c, r)
    [] c.op = "ingest_result" -> IngestResult(c, r)
    [] c.op = "cancel_assignment" -> CancelAssignment(c, r)
    [] c.op = "kill_switch" -> KillSwitch(r)
    [] c.op = "mark_verification" -> MarkVerification(c, r)
    [] c.op = "apply_decision" -> ApplyDecision(c, r)
    [] c.op = "verified_outcome" ->
         IF Hired(r, c.on) THEN Scored(r, c.on, 0, 1) ELSE Raise
    [] c.op = "record_effort" -> RecordCheckpoint(c, r)
    [] c.op = "mark_failure" -> MarkFailure(c, r)
    [] c.op = "retry_same_agent" -> RetrySameAgent(c, r)
    [] c.op = "takeover" -> Takeover(c, r)
StaffLocks(c) == <<>>

\* Every call of these makes a row of its own
StaffFreshOps ==
  {"form_team", "submit_request", "resolve_delegation", "takeover"}
StaffOps ==
  StaffFreshOps \cup
  {"register_agent", "hire_agent", "advance_lifecycle", "record_improvement",
   "disable_agent", "retire_agent", "ingest_result", "cancel_assignment",
   "kill_switch", "mark_verification", "apply_decision", "verified_outcome",
   "record_effort", "mark_failure", "retry_same_agent"}
=============================================================================
