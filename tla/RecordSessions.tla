--------------------------- MODULE RecordSessions ---------------------------
(***************************************************************************)
(* Concurrent transactions over the rows of the record-keeping services.   *)
(* A session locks its rows FOR UPDATE, reads and decides (the plan of the *)
(* operation), waits for the key shares its foreign keys need, and         *)
(* commits; PostgreSQL checks the unique indexes and breaks a deadlock; a  *)
(* kill rolls back.  A story is a short history and the calls that then    *)
(* arrive, each perhaps again.                                             *)
(***************************************************************************)
EXTENDS ProblemLearning, StrategySynthesis, FounderMemory, LessonRecords,
        ProjectWork, Workforce

CONSTANTS Stories,          \* records [before: sequence of calls, calls: set]
          RecordSessions,   \* sessions, one transaction at a time each
          MaxRecordUpsets   \* bound on calls that arrive a second time
                            \* and on killed transactions, together

AllOps == UNION {ProblemOps, EvaluationOps, SynthesisOps, MemoryOps,
                 ConceptOps, FounderOps, LessonOps, WorkOps, StaffOps}
ASSUME StoriesAssumption ==
  \A st \in Stories :
    \A c \in ToSet(st.before) \cup st.calls : c.op \in AllOps
ASSUME RecordBounds == MaxRecordUpsets \in Nat

VARIABLES
  rows,     \* committed rows
  sess,     \* transactions
  issued,   \* the calls of the story, and how often each was made
  served,   \* calls whose service returned without an error
  kills
recordVars == <<rows, sess, issued, served, kills>>

PlanOf(c, r) ==
  IF c.op \in ProblemOps THEN ProblemPlan(c, r)
  ELSE IF c.op \in EvaluationOps THEN EvaluationPlan(c, r)
  ELSE IF c.op \in SynthesisOps THEN SynthesisPlan(c, r)
  ELSE IF c.op \in MemoryOps THEN MemoryPlan(c, r)
  ELSE IF c.op \in ConceptOps THEN ConceptPlan(c, r)
  ELSE IF c.op \in LessonOps THEN LessonPlan(c, r)
  ELSE IF c.op \in WorkOps THEN WorkPlan(c, r)
  ELSE IF c.op \in StaffOps THEN StaffPlan(c, r)
  ELSE FounderPlan(c, r)
LocksOf(c) ==
  IF c.op \in ProblemOps THEN ProblemLocks(c)
  ELSE IF c.op \in EvaluationOps THEN EvaluationLocks(c)
  ELSE IF c.op \in SynthesisOps THEN SynthesisLocks(c)
  ELSE IF c.op \in MemoryOps THEN MemoryLocks(c)
  ELSE IF c.op \in ConceptOps THEN ConceptLocks(c)
  ELSE IF c.op \in LessonOps THEN LessonLocks(c)
  ELSE IF c.op \in WorkOps THEN WorkLocks(c)
  ELSE IF c.op \in StaffOps THEN StaffLocks(c)
  ELSE FounderLocks(c)

\* Rows are written with the time of the flush
Stamped(new, t) ==
  {IF x.tick = 0 THEN [x EXCEPT !.tick = t] ELSE x : x \in new}
LastTick(r) == Max({0} \cup {x.tick : x \in r})
Built(before) ==
  FoldLeft(LAMBDA r, c : LET p == PlanOf(c, r) IN
             Apply(r, [p EXCEPT !.new = Stamped(@, LastTick(r) + 1)]),
           {}, before)

Distinct(set, f(_)) == Cardinality({f(x) : x \in set}) = Cardinality(set)
OfKind(r, k) == {x \in r : x.kind = k}
EventKinds == {"life_event", "thread_event", "context_event", "intent_event",
               "capability_event", "lesson_event", "order_event",
               "lifecycle_event", "verdict_event", "effort"}
\* Rows identified by their parent and an object
ByParent == {"member", "context_member"}
OneActiveIndexDropped(r) == TRUE
\* uq_life_decision_one_active
OneActiveIndex(r) ==
  Distinct({x \in OfKind(r, "decision") : x.state = "active"}, LAMBDA x : x.on)
\* uq_project_entities_current_fingerprint
FingerprintIndex(r) ==
  Distinct({x \in r : CurrentEntity(x)}, LAMBDA x : <<x.list[1], x.ref>>)
\* uq_workforce_checkpoints_assignment_seq
SequenceIndex(r) == Distinct(OfKind(r, "effort"), LAMBDA x : <<x.on, x.num>>)
\* The unique constraints of migrations 0039 to 0045 and 0049 to 0068
UniqueRows(r) ==
  /\ Distinct({x \in r : x.kind \notin EventKinds \cup {"edge", "idea_link"}},
              LAMBDA x : IF x.kind \in ByParent
                         THEN <<x.kind, x.key, x.on>> ELSE <<x.kind, x.key>>)
  /\ OneActiveIndex(r)
  /\ Distinct(OfKind(r, "strategy"), LAMBDA x : <<x.on, x.num>>)
  /\ Distinct(OfKind(r, "binding"), LAMBDA x : x.ref)
  /\ Distinct(OfKind(r, "trace"), LAMBDA x : <<x.on, x.num>>)
  /\ Distinct(OfKind(r, "comparison_link"), LAMBDA x : <<x.on, x.ref>>)
  /\ Distinct(OfKind(r, "case"), LAMBDA x : <<x.on, x.num>>)
  /\ Distinct(OfKind(r, "input"), LAMBDA x : <<x.on, x.ref>>)
  /\ Distinct(OfKind(r, "part"), LAMBDA x : <<x.on, x.num>>)
  /\ Distinct(OfKind(r, "material"), LAMBDA x : x.on)
  /\ Distinct({x \in OfKind(r, "member") : x.old # None},
              LAMBDA x : <<x.on, x.old>>)
  /\ Distinct({x \in r : x.kind \in {"relation", "dependency"}},
              LAMBDA x : <<x.kind, x.on, x.ref, x.state>>)
  /\ FingerprintIndex(r) /\ SequenceIndex(r)
  /\ Distinct({x \in r : x.kind \in {"edge", "idea_link"}},
              LAMBDA x : <<x.kind, x.on, x.ref, x.key>>)
  \* ck_diagnosis_records_proven_requires_evidence
  /\ \A x \in OfKind(r, "diagnosis") : x.state = "proven_cause" => x.ref # None

Idle == [at |-> "idle", call |-> None, left |-> <<>>, holds |-> {},
         seen |-> {}, plan |-> Keep]

RecordsInit ==
  \E st \in Stories :
    /\ rows = Built(st.before)
    /\ issued = [c \in st.calls |-> 0]
    /\ sess = [s \in RecordSessions |-> Idle]
    /\ served = {}
    /\ kills = 0

-----------------------------------------------------------------------------
(* Locks *)

\* Rows without an owner
FounderWide == {"project_note", "source", "pr_status", "checkpoint", "order",
                "order_event"}
\* The rows new rows refer to, and their owner's, are key-shared
ForeignKeys(new) ==
  (IF \E x \in new : x.kind \notin FounderWide THEN {OwnerShare} ELSE {}) \cup
  ({x.key : x \in rows}
   \cap UNION {{x.on, x.ref, x.old}
               \cup (IF x.kind = "life_event" THEN {x.key} ELSE {})
               : x \in new})
\* What a session needs next: a row to lock; for its writes, the rows it
\* updates, and those its new rows refer to (checked by the INSERT)
Needs(s) ==
  LET p == sess[s].plan IN
  CASE sess[s].at = "lock" /\ sess[s].left # <<>> -> {Head(sess[s].left)}
    [] sess[s].at = "write" ->
         ForeignKeys({x \in p.new : ~\E o \in p.old : SameRow(x, o)})
         \cup {o.key : o \in {x \in p.old : x.kind \notin ByParent}}
    [] OTHER -> {}
\* A key share of the owner's row is shared, and conflicts with its lock
Conflict(k, held) ==
  IF k = OwnerShare THEN Owner \in held
  ELSE k \in held \/ (k = Owner /\ OwnerShare \in held)
WaitsFor(s, t) == t # s /\ \E k \in Needs(s) : Conflict(k, sess[t].holds)
Waits(s) == \E t \in RecordSessions : WaitsFor(s, t)

-----------------------------------------------------------------------------
(* Transactions *)

\* founder_correct_memory_note reads the note before record_founder_memory
\* locks it; the session then keeps the attributes it has read
SeenBefore(c) ==
  IF c.op = "correct_note" THEN Find(rows, "note", c.old) ELSE {}
WithSeen(r, seen) ==
  {IF \E y \in seen : SameRow(x, y)
   THEN CHOOSE y \in seen : SameRow(x, y) ELSE x : x \in r}

Upsets == kills + Cardinality({c \in DOMAIN issued : issued[c] = 2})
Begin(s, c) ==
  /\ sess[s].at = "idle"
  /\ issued[c] = 0 \/ /\ issued[c] = 1 /\ Upsets < MaxRecordUpsets
                       /\ c.op \notin FreshOps \cup StaffFreshOps
  /\ issued' = [issued EXCEPT ![c] = @ + 1]
  /\ sess' = [sess EXCEPT ![s] = [Idle EXCEPT !.at = "lock", !.call = c,
                                              !.left = LocksOf(c),
                                              !.seen = SeenBefore(c)]]
  /\ UNCHANGED <<rows, served, kills>>

\* Ends a transaction; an error rolls it back
EndCall(s, ok) ==
  /\ sess' = [sess EXCEPT ![s] = Idle]
  /\ served' = IF ok THEN served \cup {sess[s].call} ELSE served

\* A call of the story makes this row, and has not yet
Absent(k) ==
  k \in {c.key : c \in DOMAIN issued} /\ ~\E x \in rows : x.key = k
\* The SELECT FOR UPDATE of an absent row finds nothing; the call raises,
\* unless it makes the row itself
TakeLock(s) ==
  LET k == Head(sess[s].left) IN
  /\ sess[s].at = "lock" /\ sess[s].left # <<>> /\ ~Waits(s)
  /\ IF Absent(k) /\ k # sess[s].call.key THEN EndCall(s, FALSE)
     ELSE /\ sess' = [sess EXCEPT
                        ![s].left = Tail(@),
                        ![s].holds = IF Absent(k) THEN @ ELSE @ \cup {k}]
          /\ UNCHANGED served
  /\ UNCHANGED <<rows, issued, kills>>

Decide(s) ==
  LET p == PlanOf(sess[s].call, WithSeen(rows, sess[s].seen))
      now == Max({LastTick(rows)}
                 \cup {LastTick(sess[t].plan.new) : t \in RecordSessions})
  IN /\ sess[s].at = "lock" /\ sess[s].left = <<>>
     /\ IF p.new = {} THEN EndCall(s, p.ok)
        ELSE /\ sess' = [sess EXCEPT ![s].at = "write",
                           ![s].plan = [p EXCEPT !.new = Stamped(@, now + 1)]]
             /\ UNCHANGED served
     /\ UNCHANGED <<rows, issued, kills>>

CommitCall(s) ==
  LET after == Apply(rows, sess[s].plan) IN
  /\ sess[s].at = "write" /\ ~Waits(s)
  /\ rows' = IF UniqueRows(after) THEN after ELSE rows
  /\ EndCall(s, UniqueRows(after))
  /\ UNCHANGED <<issued, kills>>

\* The linkage of a note swallows the error, and the note is answered though
\* the COMMIT of the failed transaction rolls it back
SwallowsErrors(s) ==
  sess[s].call.op \in NoteOps /\ OwnerShare \in sess[s].holds
DeadlockVictim(s) ==
  /\ \E t \in RecordSessions : WaitsFor(s, t) /\ WaitsFor(t, s)
  /\ EndCall(s, SwallowsErrors(s))
  /\ UNCHANGED <<rows, issued, kills>>

KillCall(s) ==
  /\ sess[s].at # "idle" /\ Upsets < MaxRecordUpsets
  /\ kills' = kills + 1
  /\ EndCall(s, FALSE)
  /\ UNCHANGED <<rows, issued>>

SessionStep(s) ==
  \/ TakeLock(s) \/ Decide(s) \/ CommitCall(s) \/ DeadlockVictim(s)
RecordsNext ==
  \E s \in RecordSessions :
    \/ \E c \in DOMAIN issued : Begin(s, c)
    \/ SessionStep(s)
    \/ KillCall(s)

RecordsSpec == RecordsInit /\ [][RecordsNext]_recordVars

-----------------------------------------------------------------------------
(* Properties *)

\* Rows are of known kinds and states, and the rows they refer to are there; a
\* session holds locks, and has a plan, only while it runs a call.
RecordsTypeOK ==
  /\ ProblemRowsRefer(rows) /\ EvaluationRowsRefer(rows)
  /\ SynthesisRowsRefer(rows) /\ FounderRowsRefer(rows) /\ LessonRowsRefer(rows)
  /\ WorkRowsRefer(rows) /\ StaffRowsRefer(rows)
  /\ \A x \in rows : x.tick > 0 /\ x.num \in Int /\ x.next \in Nat
  /\ \A x \in OfKind(rows, "case") :
       x.state \in DOMAIN CaseMoves /\ x.next > 0
  /\ \A x \in OfKind(rows, "experiment") : x.state \in DOMAIN ExperimentMoves
  /\ \A x \in OfKind(rows, "candidate") : x.state \in DOMAIN CandidateMoves
  /\ \A s \in RecordSessions :
       /\ sess[s].at \in {"idle", "lock", "write"}
       /\ sess[s].at = "write" <=> sess[s].plan.new # {}
       /\ sess[s].at = "idle" => sess[s] = Idle
  /\ served \subseteq DOMAIN issued /\ kills \in 0..MaxRecordUpsets

Trail(x) ==
  {e \in rows : /\ e.kind \in EventKinds \cup {"eval_event", "syn_event"}
                /\ IF x.kind \in {"thread", "member", "intent", "blocker"}
                   THEN e.key = x.key /\ e.on \in {x.on, x.key}
                   ELSE e.on = x.key
                /\ e.state # None
                /\ e.ref \notin {"conflict_recorded",
                               "conflict_state_changed"}}
\* What a row of one of these kinds is now is what its latest event says,
\* though two calls may move it at once (transition_*, merge_threads,
\* add_member, deactivate_member, resolve_blocker).
StateIsTheTrails ==
  \A x \in rows :
    x.kind \in {"problem", "approach", "assumption", "experiment", "case",
                "thread", "member", "intent", "blocker"}
      => Latest(Trail(x)).state = x.state

\* A call that was answered once changes nothing when it arrives again,
\* whatever came between: the idempotency lookups precede every write.  Calls
\* that have no key, transition_candidate and capability observations have no
\* such lookup; a merge, a branch and a note's linkage renew their members; the
\* end of a task is TaskRecovery's; a note, an order or an agent is set again
\* to what the call says, and every answer, test and review is recorded.
ReplayIsSilent ==
  [][\A s \in RecordSessions :
       LET c == sess[s].call IN
       /\ rows' # rows /\ sess'[s].at # sess[s].at /\ c \in served
       => c.key = None \/ c.op \in NoteOps \cup
                       {"transition_candidate", "merge", "branch", "relink",
                        "put_external", "observe_capability",
                        "capability_gap", "finalize_lessons",
                        "register_agent", "hire_agent"}
    ]_recordVars
=============================================================================
