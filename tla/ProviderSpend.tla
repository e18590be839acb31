---------------------------- MODULE ProviderSpend ----------------------------
(***************************************************************************)
(* Provider spend: the founder authorises an execution scope and a budget  *)
(* for a goal (execution_envelopes, provider_spend), the worker's          *)
(* Supervisor tick plans the goal's tasks with a billed provider           *)
(* (provider_planning) and parks what it may not plan, and the wake        *)
(* functions (provider_wait_wake) put parked tasks back.                   *)
(*                                                                         *)
(* One goal of one owner.  The goal lease lets one tick run at a time; the *)
(* tick is ONE database session whose transaction is committed only by the *)
(* dispatch of a ready task (create_job commits) and by the end of the     *)
(* tick.  `saved' is what is durable of the rows the tick writes; a kill or *)
(* an exception restores it.  Rows the tick has locked are not touched by  *)
(* others until it commits: the grants it has loaded, and the goal row     *)
(* once a checkpoint refers to it.                                         *)
(***************************************************************************)
EXTENDS Naturals, FiniteSets, FiniteSetsExt

CONSTANTS
    Proposals,      \* execution scope proposals; an envelope carries its proposal's name
    Grants,         \* provider spend authorizations, named by their idempotency keys
    Tasks,          \* the goal's tasks that need a provider to be planned
    NoProposal,     \* no proposal
    Unloaded,       \* a grant the session has not loaded since its last commit
    MaxRequests,    \* max_requests of every grant
    MaxCost,        \* max_cost_usd of every grant
    PerCall,        \* max_cost_per_request_usd of every grant
    Charges,        \* what the provider may charge for a call
    MaxAttempt,     \* the last source_ref suffix (999 in the code)
    MaxBackoffs,    \* WAITING_PROVIDER_MAX_BACKOFFS
    MaxBilled,      \* bound on the calls that reach the provider under one source_ref
    MaxTrouble      \* bound on refusals, failures, changes of authority, lapses and kills

ASSUME SpendAssumption ==
    /\ MaxRequests \in Nat /\ MaxCost \in Nat /\ PerCall \in Nat
    /\ Charges \subseteq Nat /\ MaxAttempt \in Nat /\ MaxBackoffs \in Nat
    /\ MaxBilled \in Nat /\ MaxTrouble \in Nat
    /\ NoProposal \notin Proposals
    /\ IsFiniteSet(Tasks)

VARIABLES
    proposal,   \* proposal[p]: status of the ExecutionScopeProposal
    envelope,   \* envelope[p]: status of the envelope authorised from p
    request,    \* request[p]: authorize_execution_scope of p in progress, the envelopes it found
    grant,      \* grant[g]: the ProviderSpendAuthorization row
    elapsed,    \* elapsed[g]: its expires_at has passed
    event,      \* event[r]: the ProviderSpendUsageEvent with source_ref r
    task,       \* task[t]: [status, backoffs, accepted]
    billed,     \* billed[r]: how often the provider was really called for r
    trouble,    \* how much has gone wrong so far
    tick,       \* the Supervisor tick in progress
    mem,        \* mem[g]: the session's copy of the grant row
    saved       \* the durable grant, event and task rows

vars == <<proposal, envelope, request, grant, elapsed, event, task, billed,
          trouble, tick, mem, saved>>

Refs == Tasks \X (0 .. MaxAttempt)

NoEvent == [status |-> "none", grant |-> Unloaded, hold |-> 0, cost |-> 0]
NoGrant == [status |-> "none", envelope |-> NoProposal, spentReq |-> 0,
            reservedReq |-> 0, spentCost |-> 0, reservedCost |-> 0]
NoTick == [pc |-> "idle", scope |-> NoProposal, spend |-> FALSE, task |-> Unloaded,
           ref |-> Unloaded, cost |-> 0, deferred |-> {}, shared |-> FALSE]
NoRequest == {NoProposal}

\* The rows of execution_scope_proposals, execution_authorization_envelopes,
\* provider_spend_authorizations and provider_spend_usage_events.
ProposalRows == {"none", "unreviewed", "rejected", "authorized"}
EnvelopeRows == {"none", "active", "superseded"}
GrantRows ==
    [status : {"none", "active", "superseded", "exhausted", "expired", "revoked"},
     envelope : Proposals \cup {NoProposal}, spentReq : Nat, reservedReq : Nat,
     spentCost : Nat, reservedCost : Nat]
UsageEventRows ==
    [status : {"none", "reserved", "settled", "released"},
     grant : Grants \cup {Unloaded}, hold : Nat, cost : Nat]

\* What planning keeps of a row of mainai_tasks.
TaskRows ==
    [status : {"ready", "running", "parked", "backoff", "exhausted", "completed"},
     backoffs : 0 .. MaxBackoffs, accepted : BOOLEAN]

ASSUME UnloadedAssumption == Unloaded \notin GrantRows

TypeOK ==
    /\ proposal \in [Proposals -> ProposalRows]
    /\ envelope \in [Proposals -> EnvelopeRows]
    /\ request \in [Proposals -> (SUBSET Proposals) \cup {NoRequest}]
    /\ grant \in [Grants -> GrantRows]
    /\ elapsed \in [Grants -> BOOLEAN]
    /\ event \in [Refs -> UsageEventRows]
    /\ task \in [Tasks -> TaskRows]
    /\ billed \in [Refs -> Nat] /\ trouble \in 0 .. MaxTrouble
    /\ tick.pc \in {"idle", "loop", "check", "reserve", "egress", "call", "settle"}
    /\ tick.deferred \subseteq Tasks

Init ==
    /\ proposal = [p \in Proposals |-> "none"]
    /\ envelope = [p \in Proposals |-> "none"]
    /\ request = [p \in Proposals |-> NoRequest]
    /\ grant = [g \in Grants |-> NoGrant]
    /\ elapsed = [g \in Grants |-> FALSE]
    /\ event = [r \in Refs |-> NoEvent]
    /\ task = [t \in Tasks |-> [status |-> "ready", backoffs |-> 0, accepted |-> FALSE]]
    /\ billed = [r \in Refs |-> 0]
    /\ trouble = 0
    /\ tick = NoTick
    /\ mem = [g \in Grants |-> Unloaded]
    /\ saved = [grant |-> grant, event |-> event, task |-> task]

-----------------------------------------------------------------------------
(* What the rows say.                                                      *)

\* get_current_execution_envelope
Current == {p \in Proposals : envelope[p] = "active"}

ActiveGrants == {g \in Grants : grant[g].status = "active"}
DurablyActive == {g \in Grants : saved.grant[g].status = "active"}

\* The session sees a row it has loaded, even when SQL has changed it since:
\* SELECT ... FOR UPDATE locks the row and does not refresh the object.
Loaded(g) == IF mem[g] = Unloaded THEN grant[g] ELSE mem[g]

\* _mark_terminal_if_needed: exhaustion counts settled spend only.
MarkTerminal(g, row) ==
    CASE row.status # "active" -> row
      [] row.status = "active" /\ elapsed[g] -> [row EXCEPT !.status = "expired"]
      [] row.status = "active" /\ ~elapsed[g]
            /\ (row.spentReq >= MaxRequests \/ row.spentCost >= MaxCost) ->
            [row EXCEPT !.status = "exhausted"]
      [] OTHER -> row

CommittedRequests(row) == row.spentReq + row.reservedReq
\* Mutant: only settled spend counts against the budget.
CommittedCostSettled(row) == row.spentCost

CommittedCost(row) == row.spentCost + row.reservedCost

\* get_current_provider_spend_authorization for the active grant g
Callable(g) ==
    /\ MarkTerminal(g, Loaded(g)).status = "active"
    /\ Current = {Loaded(g).envelope}

\* provider_spend_is_live
IsLive(g, scope) ==
    /\ Callable(g)
    /\ Loaded(g).envelope = scope
    /\ CommittedRequests(Loaded(g)) < MaxRequests
    /\ CommittedCost(Loaded(g)) < MaxCost

\* _bound_reservation: the hold is capped by the budget that is left.
BoundReservation(row) ==
    LET left == IF CommittedCost(row) >= MaxCost THEN 0
                ELSE MaxCost - CommittedCost(row)
    IN  IF PerCall <= left THEN PerCall ELSE left

\* Nobody holds the goal row FOR UPDATE, and no open transaction of the tick
\* refers to it (FOR KEY SHARE, taken by the foreign key of a checkpoint).
GoalLocked == \E p \in Proposals : request[p] # NoRequest

GoalFree == ~GoalLocked /\ ~tick.shared

\* The grants the tick's transaction has locked.
Locked == {g \in Grants : mem[g] # Unloaded}

Trouble == trouble < MaxTrouble /\ trouble' = trouble + 1

-----------------------------------------------------------------------------
(* The founder: scopes, envelopes and grants.                              *)

\* propose_execution_scope: a repeat under the same key changes nothing.
Propose(p) ==
    /\ proposal[p] = "none"
    /\ ~GoalLocked
    /\ proposal' = [proposal EXCEPT ![p] = "unreviewed"]
    /\ UNCHANGED <<envelope, request, grant, elapsed, event, task, billed, trouble, tick, mem, saved>>

Reject(p) ==
    /\ Trouble
    /\ proposal[p] = "unreviewed"
    /\ request[p] = NoRequest
    /\ proposal' = [proposal EXCEPT ![p] = "rejected"]
    /\ UNCHANGED <<envelope, request, grant, elapsed, event, task, billed, tick, mem, saved>>

\* authorize_execution_scope, first half: proposal row, then goal row, then the
\* envelope to be superseded.
AuthorizeScope(p) ==
    /\ proposal[p] = "unreviewed"
    /\ request[p] = NoRequest
    /\ GoalFree
    /\ IF Current = {} THEN UNCHANGED trouble ELSE Trouble
    /\ request' = [request EXCEPT ![p] = Current]
    /\ UNCHANGED <<proposal, envelope, grant, elapsed, event, task, billed, tick, mem, saved>>

\* Second half: insert the envelope, supersede the prior one, commit.
CommitScope(p) ==
    /\ request[p] # NoRequest
    /\ envelope' = [q \in Proposals |-> IF q = p THEN "active"
                                        ELSE IF q \in request[p] THEN "superseded"
                                        ELSE envelope[q]]
    /\ proposal' = [proposal EXCEPT ![p] = "authorized"]
    /\ request' = [request EXCEPT ![p] = NoRequest]
    /\ UNCHANGED <<grant, elapsed, event, task, billed, trouble, tick, mem, saved>>

\* wake_tasks_blocked_for_provider_spend, on the durable task rows.
Woken(rows) ==
    [t \in Tasks |-> IF rows[t].status = "parked" /\ task[t] = saved.task[t]
                     THEN [rows[t] EXCEPT !.status = "ready"] ELSE rows[t]]

WakeParked ==
    /\ task' = Woken(task)
    /\ saved' = [saved EXCEPT !.task = Woken(saved.task)]

\* authorize_provider_spend of a new grant: the active one is superseded first.
AuthorizeSpend(g, p) ==
    LET rows(table) == [h \in Grants |->
            IF h = g THEN [NoGrant EXCEPT !.status = "active", !.envelope = p]
            ELSE IF h \in ActiveGrants THEN [table[h] EXCEPT !.status = "superseded"]
            ELSE table[h]]
    IN
    /\ grant[g].status = "none"
    /\ p \in Current
    /\ GoalFree
    /\ DurablyActive \cap Locked = {}
    /\ IF DurablyActive = {} THEN UNCHANGED trouble ELSE Trouble
    /\ grant' = rows(grant)
    /\ task' = Woken(task)
    /\ saved' = [saved EXCEPT !.grant = rows(saved.grant), !.task = Woken(saved.task)]
    /\ UNCHANGED <<proposal, envelope, request, elapsed, event, billed, tick, mem>>

\* The same call repeated after a lost answer only wakes what is still parked.
ReauthorizeSpend(g) ==
    /\ grant[g].status # "none"
    /\ Current = {grant[g].envelope}
    /\ GoalFree
    /\ \E h \in DurablyActive : grant[h].envelope = grant[g].envelope /\ ~elapsed[h]
    /\ \E t \in Tasks : task[t].status = "parked" /\ task[t] = saved.task[t]
    /\ WakeParked
    /\ UNCHANGED <<proposal, envelope, request, grant, elapsed, event, billed, trouble, tick, mem>>

\* Mutant: the grant row is updated without waiting for its lock.
RevokeUnlocked(g) ==
    /\ Trouble
    /\ saved.grant[g].status = "active"
    /\ grant' = [grant EXCEPT ![g].status = "revoked"]
    /\ saved' = [saved EXCEPT !.grant[g].status = "revoked"]
    /\ UNCHANGED <<proposal, envelope, request, elapsed, event, task, billed, tick, mem>>

Revoke(g) ==
    /\ Trouble
    /\ saved.grant[g].status = "active"
    /\ g \notin Locked
    /\ grant' = [grant EXCEPT ![g].status = "revoked"]
    /\ saved' = [saved EXCEPT !.grant[g].status = "revoked"]
    /\ UNCHANGED <<proposal, envelope, request, elapsed, event, task, billed, tick, mem>>

\* Time passes expires_at.
Elapse(g) ==
    /\ Trouble
    /\ grant[g].status = "active" /\ ~elapsed[g]
    /\ elapsed' = [elapsed EXCEPT ![g] = TRUE]
    /\ UNCHANGED <<proposal, envelope, request, grant, event, task, billed, tick, mem, saved>>

-----------------------------------------------------------------------------
(* The worker's clocks.                                                    *)

\* reconcile_provider_spend_parks_for_active_grants: neither the current
\* envelope nor the budget that is left is looked at.
\* Mutant: only a grant nothing was spent on yet wakes tasks.
ReconcileUnused ==
    /\ \E g \in DurablyActive : ~elapsed[g] /\ saved.grant[g].spentReq = 0
    /\ \E t \in Tasks : task[t].status = "parked" /\ task[t] = saved.task[t]
    /\ WakeParked
    /\ UNCHANGED <<proposal, envelope, request, grant, elapsed, event, billed, trouble, tick, mem>>

ReconcileParks ==
    /\ \E g \in DurablyActive : ~elapsed[g]
    /\ \E t \in Tasks : task[t].status = "parked" /\ task[t] = saved.task[t]
    /\ WakeParked
    /\ UNCHANGED <<proposal, envelope, request, grant, elapsed, event, billed, trouble, tick, mem>>

\* wake_due_waiting_provider_backoff_tasks
WakeDue(t) ==
    /\ task[t].status = "backoff"
    /\ task[t] = saved.task[t]
    /\ task' = [task EXCEPT ![t].status = "ready"]
    /\ saved' = [saved EXCEPT !.task[t].status = "ready"]
    /\ UNCHANGED <<proposal, envelope, request, grant, elapsed, event, billed, trouble, tick, mem>>

-----------------------------------------------------------------------------
(* The Supervisor tick.                                                    *)

Commit(g, e, t) ==
    /\ saved' = [grant |-> g, event |-> e, task |-> t]
    /\ mem' = [h \in Grants |-> Unloaded]

\* A return of run_supervisor: the tick commits and the goal lease is released.
Return(g, e, t) ==
    /\ grant' = g /\ event' = e /\ task' = t
    /\ Commit(g, e, t)
    /\ tick' = NoTick

\* An exception, or a kill: the transaction is rolled back.
Rollback ==
    /\ grant' = saved.grant /\ event' = saved.event /\ task' = saved.task
    /\ mem' = [h \in Grants |-> Unloaded]
    /\ tick' = NoTick
    /\ UNCHANGED <<proposal, envelope, request, elapsed, billed, saved>>

Kill ==
    /\ Trouble
    /\ tick.pc # "idle"
    /\ Rollback

\* The active grant is loaded and, when its time or budget is over, marked.
LoadGrant(g) ==
    /\ grant' = [grant EXCEPT ![g].status = MarkTerminal(g, Loaded(g)).status]
    /\ mem' = [mem EXCEPT ![g] = MarkTerminal(g, Loaded(g))]

LoadActive ==
    \/ ActiveGrants = {} /\ UNCHANGED <<grant, mem>>
    \/ \E g \in ActiveGrants : LoadGrant(g)

SpendLive(scope) == \E g \in ActiveGrants : IsLive(g, scope)

\* run_authorized_goal_supervisor_tick up to the reconstructed scope.
TickBegin ==
    /\ tick.pc = "idle"
    /\ \E t \in Tasks : task[t].status \in {"ready", "running"}
    /\ \E p \in Current :
         tick' = [NoTick EXCEPT !.pc = "loop", !.scope = p, !.spend = SpendLive(p)]
    /\ LoadActive
    /\ UNCHANGED <<proposal, envelope, request, elapsed, event, task, billed, trouble, saved>>

\* A ready task is dispatched, and create_job commits.
DispatchTask(t) ==
    LET rows == [task EXCEPT ![t].status = "running"] IN
    /\ tick.pc = "loop"
    /\ task[t].status = "ready" /\ t \notin tick.deferred
    /\ task' = rows
    /\ tick' = [tick EXCEPT !.pc = "check", !.task = t, !.shared = FALSE]
    /\ Commit(grant, event, rows)
    /\ UNCHANGED <<proposal, envelope, request, grant, elapsed, event, billed, trouble>>

\* A task an earlier tick left running is taken up again, without a commit.
ResumeTask(t) ==
    /\ tick.pc = "loop"
    /\ task[t].status = "running" /\ t \notin tick.deferred
    /\ tick' = [tick EXCEPT !.pc = "check", !.task = t]
    /\ UNCHANGED <<proposal, envelope, request, grant, elapsed, event, task, billed, trouble, mem, saved>>

TickEnd ==
    /\ tick.pc = "loop"
    /\ Return(grant, event, task)
    /\ UNCHANGED <<proposal, envelope, request, elapsed, billed, trouble>>

\* _reverify_authority: the envelope is no longer the one of the scope.
AuthorityChanged ==
    /\ tick.pc = "check"
    /\ Current # {tick.scope}
    /\ Rollback
    /\ UNCHANGED trouble

\* _park_provider_spend_defer_midflight
ParkForSpend ==
    /\ tick.pc = "check"
    /\ Current = {tick.scope}
    /\ ~(tick.spend /\ SpendLive(tick.scope))
    /\ ~GoalLocked
    /\ IF tick.spend THEN LoadActive ELSE UNCHANGED <<grant, mem>>
    /\ task' = [task EXCEPT ![tick.task].status = "parked"]
    /\ tick' = [tick EXCEPT !.pc = "loop", !.shared = TRUE,
                            !.deferred = @ \cup {tick.task}]
    /\ UNCHANGED <<proposal, envelope, request, elapsed, event, billed, trouble, saved>>

\* plan_with_provider is entered; an accepted candidate of an earlier tick is
\* replayed from its checkpoint without a call.
EnterPlanning ==
    /\ tick.pc = "check"
    /\ Current = {tick.scope}
    /\ tick.spend /\ SpendLive(tick.scope)
    /\ ~GoalLocked
    /\ LoadActive
    /\ IF task[tick.task].accepted
       THEN /\ task' = [task EXCEPT ![tick.task].status = "completed"]
            /\ tick' = [tick EXCEPT !.pc = "loop", !.shared = TRUE]
       ELSE /\ tick' = [tick EXCEPT !.pc = "reserve", !.shared = TRUE]
            /\ UNCHANGED task
    /\ UNCHANGED <<proposal, envelope, request, elapsed, event, billed, trouble, saved>>

\* _allocate_provider_spend_source_ref: the first suffix not settled or released.
FreeAttempts == {n \in 0 .. MaxAttempt :
                   event[<<tick.task, n>>].status \in {"none", "reserved"}}
SourceRef == <<tick.task, Min(FreeAttempts)>>

\* _release_provider_wait_midflight: blocked with a clock, or without one when
\* the backoffs are used up.
BackedOff(row) ==
    IF row.backoffs < MaxBackoffs
    THEN [row EXCEPT !.status = "backoff", !.backoffs = @ + 1]
    ELSE [row EXCEPT !.status = "exhausted"]

Backoff(rows, t) == [rows EXCEPT ![t] = BackedOff(@)]

Wait ==
    /\ task' = Backoff(task, tick.task)
    /\ tick' = [tick EXCEPT !.pc = "loop", !.deferred = @ \cup {tick.task}]

\* settle_provider_spend_usage and release_provider_spend_usage (SQL): they
\* change the rows and leave the session's copy of the grant as it was.
Unheld(row, hold) ==
    [row EXCEPT !.reservedReq = @ - 1, !.reservedCost = @ - hold]

Spent(row, hold, cost) ==
    [row EXCEPT !.reservedReq = @ - 1, !.reservedCost = @ - hold,
                !.spentReq = @ + 1, !.spentCost = @ + cost]

SettledGrant(r, cost) ==
    [grant EXCEPT ![event[r].grant] = Spent(@, event[r].hold, cost)]

ReleasedGrant(r) ==
    [grant EXCEPT ![event[r].grant] = Unheld(@, event[r].hold)]

\* settle_provider_spend_call: the mark is made from the session's copy.
Settle(r, cost) ==
    LET g == event[r].grant
        row == IF mem[g] = Unloaded THEN SettledGrant(r, cost)[g] ELSE mem[g]
        marked == MarkTerminal(g, row)
    IN
    /\ event' = [event EXCEPT ![r].status = "settled", ![r].cost = cost]
    /\ grant' = [SettledGrant(r, cost) EXCEPT ![g].status = marked.status]
    /\ mem' = [mem EXCEPT ![g] = marked]

Release(r) ==
    /\ event' = [event EXCEPT ![r].status = "released"]
    /\ grant' = ReleasedGrant(r)

\* The hold of an earlier call whose outcome is unknown is settled in full and
\* the provider is not called again.
ReconcileHold ==
    /\ tick.pc = "reserve"
    /\ FreeAttempts # {}
    /\ event[SourceRef].status = "reserved"
    /\ Settle(SourceRef, event[SourceRef].hold)
    /\ Wait
    /\ UNCHANGED <<proposal, envelope, request, elapsed, billed, trouble, saved>>

\* reserve_provider_spend_call inserts the usage row and takes the hold.
Reserve ==
    /\ tick.pc = "reserve"
    /\ FreeAttempts # {}
    /\ event[SourceRef].status = "none"
    /\ \E g \in ActiveGrants :
         LET row == Loaded(g)
             cost == BoundReservation(row)
             held == [row EXCEPT !.reservedReq = @ + 1, !.reservedCost = @ + cost]
         IN
         /\ Callable(g)
         /\ CommittedRequests(row) + 1 <= MaxRequests
         /\ ~(cost = 0 /\ MaxCost > 0 /\ CommittedCost(row) >= MaxCost)
         /\ event' = [event EXCEPT ![SourceRef] =
                        [status |-> "reserved", grant |-> g, hold |-> cost, cost |-> 0]]
         /\ grant' = [grant EXCEPT ![g].reservedReq = held.reservedReq,
                                   ![g].reservedCost = held.reservedCost]
         /\ mem' = [mem EXCEPT ![g] = held]
    /\ tick' = [tick EXCEPT !.pc = "egress", !.ref = SourceRef]
    /\ UNCHANGED <<proposal, envelope, request, elapsed, task, billed, trouble, saved>>

\* No provider or model is named, the grant does not list them, or it has no
\* budget left: PROVIDER_SPEND_NOT_AUTHORIZED ends the tick, task still running.
Refuse ==
    /\ tick.pc = "reserve"
    /\ FreeAttempts # {}
    /\ \/ Trouble /\ Return(grant, event, task)
       \/ /\ event[SourceRef].status = "none"
          /\ \E g \in ActiveGrants :
               LET row == MarkTerminal(g, Loaded(g)) IN
               /\ \/ row.status # "active"
                  \/ CommittedRequests(row) + 1 > MaxRequests
                  \/ BoundReservation(row) = 0 /\ CommittedCost(row) >= MaxCost
               /\ Return([grant EXCEPT ![g].status =
                            IF row.status = "active" THEN "exhausted" ELSE row.status],
                         event, task)
          /\ UNCHANGED trouble
    /\ UNCHANGED <<proposal, envelope, request, elapsed, billed>>

\* The suffixes are used up: ProviderSpendError leaves plan_with_provider.
AttemptsUsedUp ==
    /\ tick.pc = "reserve"
    /\ FreeAttempts = {}
    /\ Rollback
    /\ UNCHANGED trouble

\* enforce_egress_policy
EgressAllowed ==
    /\ tick.pc = "egress"
    /\ tick' = [tick EXCEPT !.pc = "call"]
    /\ UNCHANGED <<proposal, envelope, request, grant, elapsed, event, task, billed, trouble, mem, saved>>

EgressDenied ==
    /\ Trouble
    /\ tick.pc = "egress"
    /\ Return(ReleasedGrant(tick.ref), [event EXCEPT ![tick.ref].status = "released"], task)
    /\ UNCHANGED <<proposal, envelope, request, elapsed, billed>>

\* The provider answers and charges for the call.
CallAnswered(cost) ==
    /\ tick.pc = "call"
    /\ billed[tick.ref] < MaxBilled
    /\ billed' = [billed EXCEPT ![tick.ref] = @ + 1]
    /\ tick' = [tick EXCEPT !.pc = "settle", !.cost = cost]
    /\ UNCHANGED <<proposal, envelope, request, grant, elapsed, event, task, trouble, mem, saved>>

\* The call failed and is known not to have left: the hold is released.
CallFailedBefore ==
    /\ Trouble
    /\ tick.pc = "call"
    /\ Release(tick.ref)
    /\ Wait
    /\ UNCHANGED <<proposal, envelope, request, elapsed, billed, mem, saved>>

\* The call failed or timed out, perhaps after it was charged: the hold stays.
CallFailedUnknown ==
    /\ Trouble
    /\ tick.pc = "call"
    /\ billed[tick.ref] < MaxBilled
    /\ \E n \in {0, 1} : billed' = [billed EXCEPT ![tick.ref] = @ + n]
    /\ Wait
    /\ UNCHANGED <<proposal, envelope, request, grant, elapsed, event, mem, saved>>

\* settle_provider_spend_usage raises when the charge exceeds the hold, and the
\* exception leaves the tick.
SettleRefused ==
    /\ tick.pc = "settle"
    /\ tick.cost > event[tick.ref].hold
    /\ Rollback
    /\ UNCHANGED trouble

\* The candidate is accepted; validation, driver and verification follow and
\* complete the task in the same tick.
PlanAccepted ==
    /\ tick.pc = "settle"
    /\ tick.cost <= event[tick.ref].hold
    /\ Settle(tick.ref, tick.cost)
    /\ task' = [task EXCEPT ![tick.task].status = "completed",
                            ![tick.task].accepted = TRUE]
    /\ tick' = [tick EXCEPT !.pc = "loop"]
    /\ UNCHANGED <<proposal, envelope, request, elapsed, billed, trouble, saved>>

\* The candidate is accepted and its execution does not finish in this tick.
PlanUnfinished ==
    LET g == event[tick.ref].grant
        status == MarkTerminal(g, mem[g]).status
    IN
    /\ Trouble
    /\ tick.pc = "settle"
    /\ tick.cost <= event[tick.ref].hold
    /\ \E accepted \in BOOLEAN :
         Return([SettledGrant(tick.ref, tick.cost) EXCEPT ![g].status = status],
                [event EXCEPT ![tick.ref].status = "settled", ![tick.ref].cost = tick.cost],
                [task EXCEPT ![tick.task].accepted = accepted])
    /\ UNCHANGED <<proposal, envelope, request, elapsed, billed>>

-----------------------------------------------------------------------------
TickStep ==
    \/ TickEnd \/ AuthorityChanged \/ ParkForSpend \/ EnterPlanning
    \/ ReconcileHold \/ Reserve \/ Refuse \/ AttemptsUsedUp
    \/ EgressAllowed \/ EgressDenied
    \/ (\E c \in Charges : CallAnswered(c))
    \/ CallFailedBefore \/ CallFailedUnknown
    \/ SettleRefused \/ PlanAccepted \/ PlanUnfinished

Founder ==
    \/ \E p \in Proposals : Propose(p) \/ Reject(p)
    \/ \E p \in Proposals : AuthorizeScope(p) \/ CommitScope(p)
    \/ \E g \in Grants, p \in Proposals : AuthorizeSpend(g, p)
    \/ \E g \in Grants : ReauthorizeSpend(g) \/ Revoke(g)

Next ==
    \/ Founder
    \/ \E g \in Grants : Elapse(g)
    \/ ReconcileParks
    \/ \E t \in Tasks : WakeDue(t)
    \/ TickBegin
    \/ \E t \in Tasks : DispatchTask(t) \/ ResumeTask(t)
    \/ TickStep
    \/ Kill

Spec == Init /\ [][Next]_vars

\* The worker polls for ever, so its clocks run and a tick that has begun ends;
\* a founder's call that has its locks commits.
FairSpec ==
    /\ Spec
    /\ WF_vars(ReconcileParks)
    /\ WF_vars(TickStep)
    /\ \A p \in Proposals : WF_vars(CommitScope(p))

-----------------------------------------------------------------------------
Sum(S, f(_)) == MapThenSumSet(f, S)

\* The usage rows charged to g.
Charged(g) == {r \in Refs : event[r].grant = g /\ event[r].status \in {"reserved", "settled"}}
Charge(r) == IF event[r].status = "reserved" THEN event[r].hold ELSE event[r].cost

\* The founder has at most one current envelope and one current grant, whatever
\* the order in which her calls and the tick's interleave: the goal row's lock
\* is all that serialises them (there is no unique index on envelopes).
OneAuthority ==
    /\ Cardinality(Current) <= 1
    /\ Cardinality(ActiveGrants) <= 1

\* No grant is ever charged, in holds and settled calls together, with more
\* requests or money than the founder's ceilings, through retries, kills and
\* the session's stale copy of its counters.
CeilingsHold ==
    \A g \in Grants :
        /\ Cardinality(Charged(g)) <= MaxRequests
        /\ Sum(Charged(g), Charge) <= MaxCost

\* The counters of a grant, from which every budget decision is made, never
\* say less than its usage rows add up to.
NeverUnderstated ==
    \A g \in Grants :
        /\ Cardinality(Charged(g)) <= CommittedRequests(grant[g])
        /\ Sum(Charged(g), Charge) <= CommittedCost(grant[g])

\* While a call to the provider is under way its hold is in place and the grant
\* and envelope it was made under are the current ones: a revocation or a new
\* envelope waits for the tick's transaction.
CallsAuthorized ==
    tick.pc \in {"call", "settle"} =>
        /\ event[tick.ref].status = "reserved"
        /\ event[tick.ref].grant \in ActiveGrants
        /\ grant[event[tick.ref].grant].envelope \in Current

\* A task parked for want of a grant does not stay parked while there is one,
\* also when the process died between the grant and the wake.
ParksWake ==
    \A t \in Tasks :
        []<>~(task[t].status = "parked" /\ \E g \in ActiveGrants : ~elapsed[g])

\* The states of the budget: typed, one authority, ceilings kept and counters
\* that cover the usage rows.
SpendInv == TypeOK /\ OneAuthority /\ CeilingsHold /\ NeverUnderstated
=============================================================================
